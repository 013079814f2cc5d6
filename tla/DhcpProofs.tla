----------------------------- MODULE DhcpProofs -----------------------------
(***************************************************************************)
(* Proofs about the DHCP server, for any clients, addresses, ports and     *)
(* transactions and any number of packets and timers: as long as the       *)
(* handling of packets does not overlap, an address has one user, who is   *)
(* in the tables, and every timer that runs has its entry, although the    *)
(* tables are written and the timers made by goroutines that run after the *)
(* answer was sent.  The second part is about the DHCP relay agent, for    *)
(* any interfaces, clients and servers and any number of packets, requests *)
(* and restarts: a client's traffic is relayed for its own interface as    *)
(* long as no packet is read into the buffer of another, and the reference *)
(* count is the number of enabled interfaces as long as no update, removal *)
(* or restart has made it a different one.                                 *)
(***************************************************************************)
EXTENDS DhcpServer, DhcpRelay, FiniteSetTheorems, TLAPS

-----------------------------------------------------------------------------
(* The inductive invariant                                                 *)

Goroutine == [op: {"offer", "stale", "acked", "lease"}, mac: DhcpMacs, ip: DhcpIps, xid: DhcpXids \cup {0}]
TimerObject == [kind: {"stale", "lease"}, ip: DhcpIps, mac: DhcpMacs, armed: BOOLEAN, current: BOOLEAN]
Made(T, t) == t # None => T[t] # NoTimer
Notes == {"overlap", "requestAgain", "releasedOffer", "removed", "left"}

(* A receiver is made by an event, and one that can be stopped exists; so  *)
(* does a timer that an entry refers to, and an interface DHCP runs on.    *)
MoreTypes ==
  /\ dhcpL3.configured => dhcpL3.exists
  /\ dhcpTimer \in [1..MaxDhcpTimers -> {NoTimer} \cup TimerObject]
  /\ dhcpTodo \in SUBSET Goroutine
  /\ dhcpEvents \in [left: 0..MaxDhcpEvents, past: SUBSET Notes, crash: BOOLEAN]
  /\ \A q \in DhcpPorts : /\ dhcpPort[q].rx =< MaxDhcpEvents - dhcpEvents.left
                          /\ dhcpPort[q].hdl => dhcpPort[q].rx >= 1
  /\ \A ip \in DhcpIps : dhcpPool[ip] # Unused => Made(dhcpTimer, dhcpPool[ip].stale) /\ Made(dhcpTimer, dhcpPool[ip].refresh)

(* What is under way belongs to one packet: an offer, the timer of an      *)
(* offer, or the one or two goroutines of an acknowledgement.              *)
OnePacket ==
  \A g, h \in dhcpTodo : /\ g.mac = h.mac /\ g.ip = h.ip
                         /\ g.op = h.op \/ g.op \in {"offer", "stale"} => g = h

(* What a goroutine finds when it gets to write its entry.                 *)
Acknowledging(ip) == \E g \in dhcpTodo : g.op = "acked" /\ g.ip = ip
Finds(g) ==
  IF g.op = "offer" THEN dhcpPool[g.ip] = Unused /\ dhcpMacIp[g.mac] = None
  ELSE /\ dhcpMacIp[g.mac] = g.ip
       /\ g.op = "stale" => dhcpPool[g.ip].stale = None /\ dhcpPool[g.ip].refresh = None /\ dhcpHeld[g.mac] = None
       /\ g.op = "lease" => dhcpPool[g.ip].refresh = None /\ (Acknowledging(g.ip) \/ dhcpPool[g.ip].stale = None)

(* usedIpPool and usedIpToMac are inverse to each other, and clients use   *)
(* what they say.                                                          *)
TablesAgree ==
  /\ \A m \in DhcpMacs : dhcpMacIp[m] # None => dhcpPool[dhcpMacIp[m]] # Unused /\ dhcpPool[dhcpMacIp[m]].mac = m
  /\ \A ip \in DhcpIps : dhcpPool[ip] # Unused => dhcpPool[ip].mac \in DhcpMacs /\ dhcpMacIp[dhcpPool[ip].mac] = ip
  /\ \A m \in DhcpMacs : dhcpHeld[m] # None => dhcpMacIp[m] = dhcpHeld[m]

(* A timer that runs is the one its entry has, of the same client; the     *)
(* lease timer of an entry, which a renewal starts again, is its own.      *)
Owns(t, ip) ==
  /\ dhcpPool[ip] # Unused /\ dhcpPool[ip].mac = dhcpTimer[t].mac
  /\ IF dhcpTimer[t].kind = "stale" THEN dhcpPool[ip].stale = t ELSE dhcpPool[ip].refresh = t
Refreshes(t, ip) ==
  dhcpTimer[t] # NoTimer /\ dhcpTimer[t].kind = "lease" /\ dhcpTimer[t].ip = ip /\ dhcpTimer[t].mac = dhcpPool[ip].mac
TimersOwned ==
  /\ \A t \in 1..MaxDhcpTimers : Armed(t) => Owns(t, dhcpTimer[t].ip)
  /\ \A ip \in DhcpIps : dhcpPool[ip] # Unused /\ dhcpPool[ip].refresh # None =>
       Refreshes(dhcpPool[ip].refresh, ip) /\ dhcpPool[ip].state = "OFFERED"

(* An acknowledgement that has been settled has done away with the timer   *)
(* of the offer and left the lease timer with the full time.               *)
Settled(ip) ==
  /\ dhcpHeld[dhcpPool[ip].mac] = ip \/ dhcpPool[ip].refresh # None => dhcpPool[ip].stale = None
  /\ dhcpPool[ip].refresh # None => dhcpTimer[dhcpPool[ip].refresh].current
AllSettled == \A ip \in DhcpIps : dhcpPool[ip] # Unused => Acknowledging(ip) \/ Settled(ip)

(* Nothing is leased before the server is configured.                      *)
EmptyBefore ==
  ~dhcpL3.configured => /\ dhcpTodo = {} /\ \A t \in 1..MaxDhcpTimers : ~Armed(t)
                        /\ \A ip \in DhcpIps : dhcpPool[ip] = Unused
                        /\ \A m \in DhcpMacs : dhcpMacIp[m] = None

LeaseInv ==
  /\ OnePacket
  /\ \A g \in dhcpTodo : Finds(g)
  /\ TablesAgree
  /\ TimersOwned
  /\ AllSettled
  /\ EmptyBefore

(* One receiver for each member port, while the server is enabled.         *)
PortInv ==
  /\ \A q \in DhcpPorts : /\ dhcpPort[q].rx = IF dhcpPort[q].hdl THEN 1 ELSE 0
                          /\ dhcpPort[q].hdl => q \in dhcpMembers /\ dhcpConf.global /\ dhcpConf.enable
  /\ ~dhcpL3.configured => ~dhcpConf.enable

Typed == DhcpTypeOK /\ MoreTypes
IInv ==
  /\ Typed
  /\ Ordinary => LeaseInv
  /\ dhcpEvents.past \cap {"removed", "left"} = {} => PortInv
-----------------------------------------------------------------------------
(* Entries and timers                                                      *)

USE DEF None

\* The records that stand for "none" are none of the others.
LEMMA NoneIsNone == Unused \notin OfferedData /\ NoTimer \notin TimerObject
<1>1. \A e \in OfferedData : e.state \in {"new", "OFFERED"}
  BY DEF OfferedData
<1>2. \A t \in TimerObject : t.kind \in {"stale", "lease"}
  BY DEF TimerObject
<1>. QED
  BY <1>1, <1>2 DEF Unused, NoTimer

\* The entry of an address, as the code reads it from the map.
LEMMA EntFacts ==
  ASSUME DhcpConstants, Typed, NEW ip \in DhcpIps
  PROVE  /\ Ent(ip) \in OfferedData
         /\ Made(dhcpTimer, Ent(ip).stale) /\ Made(dhcpTimer, Ent(ip).refresh)
         /\ dhcpPool[ip] # Unused => Ent(ip) = dhcpPool[ip] /\ dhcpPool[ip] \in OfferedData
         /\ dhcpPool[ip] = Unused => Ent(ip).stale = None /\ Ent(ip).refresh = None
<1>1. ZeroEntry \in OfferedData /\ ZeroEntry.stale = None /\ ZeroEntry.refresh = None
  BY DEF ZeroEntry, OfferedData, DhcpConstants
<1>2. dhcpPool[ip] # Unused => dhcpPool[ip] \in OfferedData
  BY DEF Typed, DhcpTypeOK
<1>3. dhcpPool[ip] # Unused => Made(dhcpTimer, dhcpPool[ip].stale) /\ Made(dhcpTimer, dhcpPool[ip].refresh)
  BY DEF Typed, MoreTypes
<1>. QED
  BY <1>1, <1>2, <1>3 DEF Ent, Made

TimerMap == [1..MaxDhcpTimers -> {NoTimer} \cup TimerObject]

\* time.AfterFunc makes a timer that was not there.
New(t, kind, ip, mac) ==
  /\ dhcpTimer[t] = NoTimer
  /\ Fresh(dhcpTimer, kind, ip, mac).t = t
  /\ \E n \in TimerObject :
       /\ n.kind = kind /\ n.ip = ip /\ n.mac = mac /\ n.armed /\ n.current
       /\ Fresh(dhcpTimer, kind, ip, mac).timers = [dhcpTimer EXCEPT ![t] = n]
LEMMA FreshFacts ==
  ASSUME Typed, CanArm, NEW kind \in {"stale", "lease"}, NEW ip \in DhcpIps, NEW mac \in DhcpMacs
  PROVE  \E t \in 1..MaxDhcpTimers : New(t, kind, ip, mac)
<1>. DEFINE t == CHOOSE i \in 1..MaxDhcpTimers : dhcpTimer[i] = NoTimer
            n == [kind |-> kind, ip |-> ip, mac |-> mac, armed |-> TRUE, current |-> TRUE]
<1>1. t \in 1..MaxDhcpTimers /\ dhcpTimer[t] = NoTimer
  BY DEF CanArm
<1>2. n \in TimerObject /\ n.kind = kind /\ n.ip = ip /\ n.mac = mac /\ n.armed /\ n.current
  BY DEF TimerObject
<1>3. Fresh(dhcpTimer, kind, ip, mac).t = t /\ Fresh(dhcpTimer, kind, ip, mac).timers = [dhcpTimer EXCEPT ![t] = n]
  BY DEF Fresh
<1>. HIDE DEF t, n
<1>. QED
  BY <1>1, <1>2, <1>3 DEF New

\* What stays of a timer when it is stopped, started or overtaken by a renewal.
SameTimer(x, y) ==
  /\ y \in TimerObject <=> x \in TimerObject
  /\ y = NoTimer <=> x = NoTimer
  /\ x # NoTimer => y.kind = x.kind /\ y.ip = x.ip /\ y.mac = x.mac

\* Stop and Reset on a timer, or on nil.
LEMMA StopFacts ==
  ASSUME NEW T \in TimerMap, NEW t \in 0..MaxDhcpTimers, MaxDhcpTimers \in Nat, Made(T, t)
  PROVE  /\ StopTimer(T, t) \in TimerMap
         /\ \A i \in 1..MaxDhcpTimers :
              /\ SameTimer(T[i], StopTimer(T, t)[i])
              /\ i # t => StopTimer(T, t)[i] = T[i]
              /\ i = t => ~StopTimer(T, t)[i].armed
              /\ T[i] # NoTimer => StopTimer(T, t)[i].current = T[i].current
<1>1. CASE t = None
  BY <1>1 DEF StopTimer, SameTimer, TimerMap
<1>2. CASE t # None
  <2>. DEFINE y == [T[t] EXCEPT !.armed = FALSE]
  <2>1. t \in 1..MaxDhcpTimers /\ T[t] \in TimerObject /\ T[t] # NoTimer
    BY <1>2 DEF TimerMap, Made
  <2>2. y \in TimerObject /\ y.kind = T[t].kind /\ y.ip = T[t].ip /\ y.mac = T[t].mac /\ ~y.armed /\ y.current = T[t].current
    BY <2>1 DEF TimerObject
  <2>3. StopTimer(T, t) = [T EXCEPT ![t] = y]
    BY <1>2 DEF StopTimer
  <2>4. y # NoTimer
    BY <2>2, NoneIsNone
  <2>. HIDE DEF y
  <2>. QED
    BY <2>1, <2>2, <2>3, <2>4 DEF TimerMap, SameTimer
<1>. QED
  BY <1>1, <1>2

\* Reset starts the timer again with the full time.
LEMMA ResetFacts ==
  ASSUME NEW T \in TimerMap, NEW t \in 0..MaxDhcpTimers, MaxDhcpTimers \in Nat, Made(T, t)
  PROVE  /\ Reset(T, t) \in TimerMap
         /\ \A i \in 1..MaxDhcpTimers :
              /\ SameTimer(T[i], Reset(T, t)[i])
              /\ i # t => Reset(T, t)[i] = T[i]
              /\ i = t => Reset(T, t)[i].armed /\ Reset(T, t)[i].current
<1>1. CASE t = None
  BY <1>1 DEF Reset, SameTimer, TimerMap
<1>2. CASE t # None
  <2>. DEFINE y == [[T[t] EXCEPT !.armed = TRUE] EXCEPT !.current = TRUE]
  <2>1. t \in 1..MaxDhcpTimers /\ T[t] \in TimerObject /\ T[t] # NoTimer
    BY <1>2 DEF TimerMap, Made
  <2>2. y \in TimerObject /\ y.kind = T[t].kind /\ y.ip = T[t].ip /\ y.mac = T[t].mac /\ y.armed /\ y.current
    BY <2>1 DEF TimerObject
  <2>3. Reset(T, t) = [T EXCEPT ![t] = y]
    BY <1>2, <2>1 DEF Reset, TimerMap
  <2>4. y # NoTimer
    BY <2>2, NoneIsNone
  <2>. HIDE DEF y
  <2>. QED
    BY <2>1, <2>2, <2>3, <2>4 DEF TimerMap, SameTimer
<1>. QED
  BY <1>1, <1>2

\* References stay good as long as no timer goes away.
LEMMA MadeStays ==
  ASSUME NEW T \in TimerMap, NEW U \in TimerMap, NEW t \in 0..MaxDhcpTimers, MaxDhcpTimers \in Nat, Made(T, t),
         \A i \in 1..MaxDhcpTimers : T[i] # NoTimer => U[i] # NoTimer
  PROVE  Made(U, t)
BY DEF Made

-----------------------------------------------------------------------------
(* What the actions do to entries, timers and notes                        *)

EventsType == [left: 0..MaxDhcpEvents, past: SUBSET Notes, crash: BOOLEAN]
\* Nothing that was noted is forgotten.
EventsGo == dhcpEvents' \in EventsType /\ dhcpEvents'.left =< dhcpEvents.left /\ dhcpEvents.past \subseteq dhcpEvents'.past

\* Counting an event, noting something, and panicking.
LEMMA EventFacts ==
  ASSUME DhcpConstants, Typed, NEW what \in SUBSET Notes
  PROVE  /\ Happens(what) => EventsGo /\ dhcpEvents'.past = dhcpEvents.past \cup what
                             /\ dhcpEvents'.left = dhcpEvents.left - 1 /\ dhcpEvents.left >= 1
         /\ dhcpEvents' = [dhcpEvents EXCEPT !.past = @ \cup what] => EventsGo /\ dhcpEvents'.past = dhcpEvents.past \cup what
         /\ Panic => EventsGo /\ dhcpEvents'.past = dhcpEvents.past
         /\ UNCHANGED dhcpEvents => EventsGo
<1>1. dhcpEvents \in EventsType
  BY DEF Typed, MoreTypes, EventsType
<1>2. MaxDhcpEvents \in Nat /\ dhcpEvents.left \in 0..MaxDhcpEvents /\ dhcpEvents.past \subseteq Notes
  BY <1>1 DEF EventsType, DhcpConstants
<1>3. ASSUME Happens(what)
      PROVE  EventsGo /\ dhcpEvents'.past = dhcpEvents.past \cup what /\ dhcpEvents'.left = dhcpEvents.left - 1 /\ dhcpEvents.left >= 1
  <2>1. dhcpEvents'.past = dhcpEvents.past \cup what /\ dhcpEvents'.left = dhcpEvents.left - 1 /\ dhcpEvents.left >= 1
    BY <1>1, <1>2, <1>3 DEF Happens, EventsType
  <2>3. dhcpEvents' = [left |-> dhcpEvents.left - 1, past |-> dhcpEvents.past \cup what, crash |-> dhcpEvents.crash]
    BY <1>1, <1>3 DEF Happens, EventsType
  <2>2. dhcpEvents' \in EventsType
    BY <1>1, <1>2, <2>1, <2>3 DEF EventsType
  <2>. QED
    BY <1>2, <2>1, <2>2 DEF EventsGo
<1>4. ASSUME dhcpEvents' = [dhcpEvents EXCEPT !.past = @ \cup what]
      PROVE  EventsGo /\ dhcpEvents'.past = dhcpEvents.past \cup what
  BY <1>1, <1>2, <1>4 DEF EventsType, EventsGo
<1>5. ASSUME Panic
      PROVE  EventsGo /\ dhcpEvents'.past = dhcpEvents.past
  <2>1. dhcpEvents' = [left |-> 0, past |-> dhcpEvents.past, crash |-> TRUE]
    BY <1>1, <1>5 DEF EventsType, Panic
  <2>. QED
    BY <1>1, <1>2, <2>1 DEF EventsType, EventsGo
<1>6. UNCHANGED dhcpEvents => EventsGo
  BY <1>1, <1>2 DEF EventsGo
<1>. QED
  BY <1>3, <1>4, <1>5, <1>6

\* What was out of the ordinary stays so, and what happens while something is
\* under way is.
LEMMA OrdinaryStays ==
  ASSUME Ordinary', dhcpEvents.past \subseteq dhcpEvents'.past
  PROVE  Ordinary
BY DEF Ordinary

\* An overlap is one of the notes...
LEMMA AloneIsNote == Alone \in SUBSET Notes
BY DEF Alone, Notes

\* ... so an ordinary event has found nothing under way.
LEMMA AloneMeans ==
  ASSUME Ordinary', Alone \subseteq dhcpEvents'.past
  PROVE  dhcpTodo = {}
BY DEF Ordinary, Alone

\* From T to U timers are only stopped.
Slows(T, U) ==
  /\ U \in TimerMap
  /\ \A i \in 1..MaxDhcpTimers :
       SameTimer(T[i], U[i]) /\ (T[i] # NoTimer => U[i].current = T[i].current /\ (U[i].armed => T[i].armed))

\* Stopping one more timer.
LEMMA StopSlows ==
  ASSUME NEW T \in TimerMap, NEW U \in TimerMap, Slows(T, U), NEW t \in 0..MaxDhcpTimers, MaxDhcpTimers \in Nat, Made(T, t)
  PROVE  Slows(T, StopTimer(U, t)) /\ (t # None => ~StopTimer(U, t)[t].armed)
         /\ \A i \in 1..MaxDhcpTimers : U[i] # NoTimer => (StopTimer(U, t)[i].armed => U[i].armed)
<1>1. Made(U, t)
  BY DEF Made, Slows, SameTimer
<1>. DEFINE V == StopTimer(U, t)
<1>2. /\ V \in TimerMap
      /\ \A i \in 1..MaxDhcpTimers :
           /\ SameTimer(U[i], V[i])
           /\ i # t => V[i] = U[i]
           /\ i = t => ~V[i].armed
           /\ U[i] # NoTimer => V[i].current = U[i].current
  BY <1>1, StopFacts
<1>. HIDE DEF V
<1>3. \A i \in 1..MaxDhcpTimers : U[i] # NoTimer => (V[i].armed => U[i].armed)
  BY <1>2
<1>4. \A i \in 1..MaxDhcpTimers :
       SameTimer(T[i], V[i]) /\ (T[i] # NoTimer => V[i].current = T[i].current /\ (V[i].armed => T[i].armed))
  BY <1>2, <1>3 DEF Slows, SameTimer
<1>5. t # None => ~V[t].armed
  BY <1>2
<1>. QED
  BY <1>2, <1>3, <1>4, <1>5 DEF V, Slows

\* A timer that fires does not run any more.
LEMMA StopOne ==
  ASSUME Typed, NEW t \in 1..MaxDhcpTimers, Armed(t)
  PROVE  Slows(dhcpTimer, [dhcpTimer EXCEPT ![t].armed = FALSE]) /\ ~[dhcpTimer EXCEPT ![t].armed = FALSE][t].armed
<1>. DEFINE y == [dhcpTimer[t] EXCEPT !.armed = FALSE]
<1>1. dhcpTimer \in TimerMap /\ dhcpTimer[t] \in TimerObject /\ dhcpTimer[t] # NoTimer
  BY DEF Typed, MoreTypes, TimerMap, Armed
<1>2. y \in TimerObject /\ y.kind = dhcpTimer[t].kind /\ y.ip = dhcpTimer[t].ip /\ y.mac = dhcpTimer[t].mac /\ ~y.armed /\ y.current = dhcpTimer[t].current
  BY <1>1 DEF TimerObject
<1>3. [dhcpTimer EXCEPT ![t].armed = FALSE] = [dhcpTimer EXCEPT ![t] = y]
  OBVIOUS
<1>4. y # NoTimer
  BY <1>2, NoneIsNone
<1>. HIDE DEF y
<1>. QED
  BY <1>1, <1>2, <1>3, <1>4 DEF Slows, SameTimer, TimerMap

\* The entry of an address is written: e, for the one read.
Writes(ip, e) == dhcpPool' = [dhcpPool EXCEPT ![ip] = e]
\* One more timer, of this kind, for this entry.
Makes(t, kind, g) ==
  /\ dhcpTimer[t] = NoTimer
  /\ \E n \in TimerObject :
       /\ n.kind = kind /\ n.ip = g.ip /\ n.mac = g.mac /\ n.armed /\ n.current
       /\ dhcpTimer' = [dhcpTimer EXCEPT ![t] = n]

\* The parts of a goroutine.
LEMMA TodoFacts ==
  ASSUME Typed, NEW g \in dhcpTodo
  PROVE  g.op \in {"offer", "stale", "acked", "lease"} /\ g.mac \in DhcpMacs /\ g.ip \in DhcpIps /\ g.xid \in DhcpXids \cup {0}
         /\ dhcpTodo \ {g} \subseteq Goroutine
BY DEF Typed, MoreTypes, Goroutine

\* StartStaleEntryHandler arms a timer and refers to it.
LEMMA StaleStarts ==
  ASSUME DhcpConstants, Typed, NEW g \in dhcpTodo, StartStaleEntryHandler(g)
  PROVE  \E t \in 1..MaxDhcpTimers, e \in OfferedData :
           /\ Makes(t, "stale", g) /\ Writes(g.ip, e)
           /\ e.stale = t /\ e.refresh = Ent(g.ip).refresh /\ e.mac = Ent(g.ip).mac /\ e.state = Ent(g.ip).state
<1>1. g.mac \in DhcpMacs /\ g.ip \in DhcpIps /\ CanArm /\ Ent(g.ip) \in OfferedData
  BY TodoFacts, EntFacts DEF StartStaleEntryHandler
<1>2. PICK t \in 1..MaxDhcpTimers : New(t, "stale", g.ip, g.mac)
  BY <1>1, FreshFacts
<1>5. PICK n \in TimerObject :
           /\ n.kind = "stale" /\ n.ip = g.ip /\ n.mac = g.mac /\ n.armed /\ n.current
           /\ Fresh(dhcpTimer, "stale", g.ip, g.mac).timers = [dhcpTimer EXCEPT ![t] = n]
  BY <1>2 DEF New
<1>6. dhcpTimer[t] = NoTimer /\ Fresh(dhcpTimer, "stale", g.ip, g.mac).t = t
  BY <1>2 DEF New
<1>. DEFINE e == [Ent(g.ip) EXCEPT !.stale = t]
<1>3. e \in OfferedData /\ e.stale = t /\ e.refresh = Ent(g.ip).refresh /\ e.mac = Ent(g.ip).mac /\ e.state = Ent(g.ip).state
  BY <1>1 DEF OfferedData, DhcpConstants
<1>4. dhcpTimer' = [dhcpTimer EXCEPT ![t] = n] /\ dhcpPool' = [dhcpPool EXCEPT ![g.ip] = e]
  BY <1>5, <1>6 DEF StartStaleEntryHandler
<1>. HIDE DEF e
<1>. QED
  BY <1>3, <1>4, <1>5, <1>6 DEF Makes, Writes

\* StartLeaseEntryHandler too, and the entry counts as OFFERED.
LEMMA LeaseStarts ==
  ASSUME DhcpConstants, Typed, NEW g \in dhcpTodo, StartLeaseEntryHandler(g)
  PROVE  \E t \in 1..MaxDhcpTimers, e \in OfferedData :
           /\ Makes(t, "lease", g) /\ Writes(g.ip, e)
           /\ e.refresh = t /\ e.stale = Ent(g.ip).stale /\ e.mac = Ent(g.ip).mac /\ e.state = "OFFERED"
<1>1. g.mac \in DhcpMacs /\ g.ip \in DhcpIps /\ CanArm /\ Ent(g.ip) \in OfferedData
  BY TodoFacts, EntFacts DEF StartLeaseEntryHandler
<1>2. PICK t \in 1..MaxDhcpTimers : New(t, "lease", g.ip, g.mac)
  BY <1>1, FreshFacts
<1>5. PICK n \in TimerObject :
           /\ n.kind = "lease" /\ n.ip = g.ip /\ n.mac = g.mac /\ n.armed /\ n.current
           /\ Fresh(dhcpTimer, "lease", g.ip, g.mac).timers = [dhcpTimer EXCEPT ![t] = n]
  BY <1>2 DEF New
<1>6. dhcpTimer[t] = NoTimer /\ Fresh(dhcpTimer, "lease", g.ip, g.mac).t = t
  BY <1>2 DEF New
<1>. DEFINE f == [Ent(g.ip) EXCEPT !.refresh = t]
            e == [f EXCEPT !.state = "OFFERED"]
<1>7. f \in OfferedData /\ f.refresh = t /\ f.stale = Ent(g.ip).stale /\ f.mac = Ent(g.ip).mac
  BY <1>1 DEF OfferedData, DhcpConstants
<1>8. e = [Ent(g.ip) EXCEPT !.refresh = t, !.state = "OFFERED"]
  BY <1>1 DEF OfferedData
<1>. HIDE DEF f
<1>3. e \in OfferedData /\ e.refresh = t /\ e.stale = Ent(g.ip).stale /\ e.mac = Ent(g.ip).mac /\ e.state = "OFFERED"
  BY <1>7 DEF OfferedData
<1>4. dhcpTimer' = [dhcpTimer EXCEPT ![t] = n] /\ dhcpPool' = [dhcpPool EXCEPT ![g.ip] = e]
  BY <1>5, <1>6, <1>8 DEF StartLeaseEntryHandler
<1>. HIDE DEF e
<1>. QED
  BY <1>3, <1>4, <1>5, <1>6 DEF Makes, Writes

\* The goroutine of an offer writes both maps.
LEMMA OfferIs ==
  ASSUME DhcpConstants, Typed, NEW g \in dhcpTodo, OfferEntered(g)
  PROVE  \E e \in OfferedData :
           /\ Writes(g.ip, e) /\ e.mac = g.mac
           /\ e.stale = Ent(g.ip).stale /\ e.refresh = Ent(g.ip).refresh /\ e.state = Ent(g.ip).state
<1>1. g.mac \in DhcpMacs /\ g.ip \in DhcpIps /\ g.xid \in DhcpXids \cup {0} /\ Ent(g.ip) \in OfferedData
  BY TodoFacts, EntFacts
<1>. DEFINE e == [[Ent(g.ip) EXCEPT !.mac = g.mac] EXCEPT !.xid = g.xid]
<1>2. /\ e \in OfferedData /\ e.mac = g.mac
      /\ e.stale = Ent(g.ip).stale /\ e.refresh = Ent(g.ip).refresh /\ e.state = Ent(g.ip).state
  BY <1>1 DEF OfferedData
<1>3. e = [Ent(g.ip) EXCEPT !.mac = g.mac, !.xid = g.xid]
  BY <1>1 DEF OfferedData
<1>4. dhcpPool' = [dhcpPool EXCEPT ![g.ip] = e]
  BY <1>3 DEF OfferEntered
<1>. HIDE DEF e
<1>. QED
  BY <1>2, <1>4 DEF Writes

\* The end of an acknowledgement: the lease timer of an entry that has one runs
\* for the full time, the timer of the offer is stopped and forgotten.
SettlesTimers(p) ==
  /\ dhcpTimer' \in TimerMap
  /\ \A i \in 1..MaxDhcpTimers :
       /\ SameTimer(dhcpTimer[i], dhcpTimer'[i])
       /\ i # p.stale /\ i # p.refresh => dhcpTimer'[i] = dhcpTimer[i]
       /\ i = p.stale => ~dhcpTimer'[i].armed
       /\ dhcpTimer[i] # NoTimer /\ p.state # "OFFERED" /\ dhcpTimer'[i].armed => dhcpTimer[i].armed
       /\ i = p.refresh /\ p.state = "OFFERED" => dhcpTimer'[i].current
       /\ dhcpTimer[i] # NoTimer /\ i # p.refresh => dhcpTimer'[i].current = dhcpTimer[i].current
LEMMA SettledIs ==
  ASSUME DhcpConstants, Typed, NEW g \in dhcpTodo, RequestSettled(g)
  PROVE  \/ dhcpMacIp[g.mac] # g.ip /\ UNCHANGED <<dhcpPool, dhcpTimer>>
         \/ /\ dhcpMacIp[g.mac] = g.ip /\ SettlesTimers(Ent(g.ip))
            /\ \E e \in OfferedData :
                 /\ Writes(g.ip, e) /\ e.mac = Ent(g.ip).mac
                 /\ e.stale = None /\ e.refresh = Ent(g.ip).refresh /\ e.state = Ent(g.ip).state
<1>. DEFINE p == Ent(g.ip)
            T == IF p.state = "OFFERED" THEN Reset(dhcpTimer, p.refresh) ELSE dhcpTimer
            e == [p EXCEPT !.stale = None]
<1>1. SUFFICES ASSUME dhcpMacIp[g.mac] = g.ip
               PROVE  /\ SettlesTimers(Ent(g.ip))
                      /\ \E f \in OfferedData :
                           /\ Writes(g.ip, f) /\ f.mac = Ent(g.ip).mac
                           /\ f.stale = None /\ f.refresh = Ent(g.ip).refresh /\ f.state = Ent(g.ip).state
  BY DEF RequestSettled
<1>2. /\ p \in OfferedData /\ Made(dhcpTimer, p.stale) /\ Made(dhcpTimer, p.refresh) /\ g.ip \in DhcpIps
      /\ dhcpTimer \in TimerMap /\ MaxDhcpTimers \in Nat
  BY TodoFacts, EntFacts DEF Typed, MoreTypes, TimerMap, DhcpConstants
<1>3. e \in OfferedData /\ e.mac = p.mac /\ e.stale = None /\ e.refresh = p.refresh /\ e.state = p.state
  BY <1>2 DEF OfferedData
<1>4. dhcpTimer' = StopTimer(T, p.stale) /\ dhcpPool' = [dhcpPool EXCEPT ![g.ip] = e]
  BY <1>1 DEF RequestSettled
<1>5. p.stale \in 0..MaxDhcpTimers /\ p.refresh \in 0..MaxDhcpTimers
  BY <1>2 DEF OfferedData
<1>. HIDE DEF p, e
<1>6. /\ T \in TimerMap
      /\ \A i \in 1..MaxDhcpTimers :
           /\ SameTimer(dhcpTimer[i], T[i])
           /\ i # p.refresh \/ p.state # "OFFERED" => T[i] = dhcpTimer[i]
           /\ i = p.refresh /\ p.state = "OFFERED" => T[i].current
  <2>1. CASE p.state = "OFFERED"
    BY <1>2, <1>5, <2>1, ResetFacts
  <2>2. CASE p.state # "OFFERED"
    BY <1>2, <2>2 DEF SameTimer
  <2>. QED
    BY <2>1, <2>2
<1>. HIDE DEF T
<1>7. Made(T, p.stale)
  BY <1>2, <1>5, <1>6 DEF Made, SameTimer
<1>8. /\ StopTimer(T, p.stale) \in TimerMap
      /\ \A i \in 1..MaxDhcpTimers :
           /\ SameTimer(T[i], StopTimer(T, p.stale)[i])
           /\ i # p.stale => StopTimer(T, p.stale)[i] = T[i]
           /\ i = p.stale => ~StopTimer(T, p.stale)[i].armed
           /\ T[i] # NoTimer => StopTimer(T, p.stale)[i].current = T[i].current
  BY <1>2, <1>5, <1>6, <1>7, StopFacts
<1>9. ASSUME NEW i \in 1..MaxDhcpTimers, i = p.refresh, p.state = "OFFERED"
      PROVE  dhcpTimer'[i].current
  BY <1>2, <1>4, <1>6, <1>8, <1>9 DEF Made, SameTimer
<1>10. \A i \in 1..MaxDhcpTimers : SameTimer(dhcpTimer[i], dhcpTimer'[i])
  BY <1>4, <1>6, <1>8 DEF SameTimer
<1>12. \A i \in 1..MaxDhcpTimers : dhcpTimer[i] # NoTimer /\ i # p.refresh => dhcpTimer'[i].current = dhcpTimer[i].current
  BY <1>4, <1>6, <1>8
<1>11. SettlesTimers(p)
  BY <1>4, <1>6, <1>8, <1>9, <1>10, <1>12 DEF SettlesTimers
<1>. QED
  BY <1>3, <1>4, <1>11 DEF Writes, p

\* A timer that removes an entry stops the ones the entry refers to, or panics
\* where there is none.
Clears(ip, mac) == Writes(ip, Unused) /\ dhcpMacIp' = [dhcpMacIp EXCEPT ![mac] = None]
Silent(t) == t # None => ~dhcpTimer'[t].armed
LEMMA StaleExpires ==
  ASSUME DhcpConstants, Typed, NEW t \in 1..MaxDhcpTimers, removeStaleFunc(t)
  PROVE  /\ Armed(t) /\ dhcpTimer[t].kind = "stale" /\ Slows(dhcpTimer, dhcpTimer') /\ ~dhcpTimer'[t].armed
         /\ \/ Ent(dhcpTimer[t].ip).stale = None /\ Panic /\ UNCHANGED <<dhcpPool, dhcpMacIp>>
            \/ /\ Clears(dhcpTimer[t].ip, dhcpTimer[t].mac) /\ Silent(Ent(dhcpTimer[t].ip).stale)
               /\ dhcpEvents' = [dhcpEvents EXCEPT !.past = @ \cup Alone]
<1>. DEFINE ip == dhcpTimer[t].ip
            T == [dhcpTimer EXCEPT ![t].armed = FALSE]
<1>1. Armed(t) /\ dhcpTimer[t].kind = "stale"
  BY DEF removeStaleFunc
<1>2. dhcpTimer \in TimerMap /\ MaxDhcpTimers \in Nat /\ dhcpTimer[t] \in TimerObject
  BY <1>1 DEF Typed, MoreTypes, TimerMap, DhcpConstants, Armed
<1>3. ip \in DhcpIps
  BY <1>2 DEF TimerObject
<1>4. Slows(dhcpTimer, T) /\ ~T[t].armed /\ T \in TimerMap
  BY <1>1, StopOne DEF Slows
<1>5. CASE Ent(ip).stale = None
  BY <1>1, <1>4, <1>5 DEF removeStaleFunc
<1>6. CASE Ent(ip).stale # None
  <2>1. Made(dhcpTimer, Ent(ip).stale) /\ Ent(ip).stale \in 0..MaxDhcpTimers
    BY <1>3, EntFacts DEF OfferedData
  <2>2. /\ Delete(ip, dhcpTimer[t].mac) /\ dhcpTimer' = StopTimer(T, Ent(ip).stale)
        /\ dhcpEvents' = [dhcpEvents EXCEPT !.past = @ \cup Alone]
    BY <1>6 DEF removeStaleFunc
  <2>3. T[t] # NoTimer
    BY <1>1, <1>4 DEF Slows, SameTimer, Armed
  <2>. HIDE DEF T, ip
  <2>4. Slows(dhcpTimer, dhcpTimer') /\ Silent(Ent(ip).stale) /\ ~dhcpTimer'[t].armed
    BY <1>2, <1>4, <2>1, <2>2, <2>3, StopSlows DEF Silent
  <2>. QED
    BY <1>1, <2>2, <2>4 DEF Clears, Writes, Delete, ip
<1>. QED
  BY <1>5, <1>6

\* The expiry of a lease spares a client that has just been acknowledged.
LEMMA LeaseExpires ==
  ASSUME DhcpConstants, Typed, NEW t \in 1..MaxDhcpTimers, removeLeaseExpireFunc(t)
  PROVE  /\ Armed(t) /\ dhcpTimer[t].kind = "lease" /\ Slows(dhcpTimer, dhcpTimer') /\ ~dhcpTimer'[t].armed
         /\ dhcpTimer[t].current => dhcpHeld[dhcpTimer[t].mac] # dhcpTimer[t].ip
         /\ \/ Ent(dhcpTimer[t].ip).refresh = None /\ Panic /\ UNCHANGED <<dhcpPool, dhcpMacIp>>
            \/ /\ Clears(dhcpTimer[t].ip, dhcpTimer[t].mac)
               /\ Silent(Ent(dhcpTimer[t].ip).stale) /\ Silent(Ent(dhcpTimer[t].ip).refresh)
               /\ dhcpEvents' = [dhcpEvents EXCEPT !.past = @ \cup Alone]
<1>. DEFINE ip == dhcpTimer[t].ip
            T == [dhcpTimer EXCEPT ![t].armed = FALSE]
            U == StopTimer(T, Ent(ip).stale)
<1>1. Armed(t) /\ dhcpTimer[t].kind = "lease" /\ (dhcpTimer[t].current => dhcpHeld[dhcpTimer[t].mac] # ip)
  BY DEF removeLeaseExpireFunc
<1>2. dhcpTimer \in TimerMap /\ MaxDhcpTimers \in Nat /\ dhcpTimer[t] \in TimerObject
  BY <1>1 DEF Typed, MoreTypes, TimerMap, DhcpConstants, Armed
<1>3. ip \in DhcpIps
  BY <1>2 DEF TimerObject
<1>4. Slows(dhcpTimer, T) /\ ~T[t].armed /\ T \in TimerMap
  BY <1>1, StopOne DEF Slows
<1>5. CASE Ent(ip).refresh = None
  BY <1>1, <1>4, <1>5 DEF removeLeaseExpireFunc
<1>6. CASE Ent(ip).refresh # None
  <2>1. /\ Made(dhcpTimer, Ent(ip).stale) /\ Ent(ip).stale \in 0..MaxDhcpTimers
        /\ Made(dhcpTimer, Ent(ip).refresh) /\ Ent(ip).refresh \in 0..MaxDhcpTimers
    BY <1>3, EntFacts DEF OfferedData
  <2>2. /\ Delete(ip, dhcpTimer[t].mac) /\ dhcpTimer' = StopTimer(U, Ent(ip).refresh)
        /\ dhcpEvents' = [dhcpEvents EXCEPT !.past = @ \cup Alone]
    BY <1>6 DEF removeLeaseExpireFunc
  <2>3. T[t] # NoTimer
    BY <1>1, <1>4 DEF Slows, SameTimer, Armed
  <2>. HIDE DEF T, ip
  <2>4. /\ Slows(dhcpTimer, U) /\ (Ent(ip).stale # None => ~U[Ent(ip).stale].armed) /\ ~U[t].armed
    BY <1>2, <1>4, <2>1, <2>3, StopSlows
  <2>. HIDE DEF U
  <2>5. U \in TimerMap /\ U[t] # NoTimer /\ (Ent(ip).stale # None => U[Ent(ip).stale] # NoTimer)
    BY <1>1, <2>1, <2>4 DEF Slows, SameTimer, Armed, Made
  <2>6. Slows(dhcpTimer, dhcpTimer') /\ Silent(Ent(ip).refresh) /\ Silent(Ent(ip).stale) /\ ~dhcpTimer'[t].armed
    BY <1>2, <2>1, <2>2, <2>4, <2>5, StopSlows DEF Silent
  <2>. QED
    BY <1>1, <2>2, <2>6 DEF Clears, Writes, Delete, ip
<1>. QED
  BY <1>5, <1>6

\* An acknowledgement leaves the timers of the address with less than the full time.
Overtakes(ip) ==
  /\ dhcpTimer' \in TimerMap
  /\ \A i \in 1..MaxDhcpTimers :
       /\ SameTimer(dhcpTimer[i], dhcpTimer'[i])
       /\ dhcpTimer[i] # NoTimer => dhcpTimer'[i].armed = dhcpTimer[i].armed
       /\ dhcpTimer[i] # NoTimer /\ dhcpTimer[i].ip # ip => dhcpTimer'[i] = dhcpTimer[i]
\* This is what sendDhcpAck does to them.
LEMMA AckOvertakes ==
  ASSUME Typed, NEW mac \in DhcpMacs, NEW ciaddr \in BOOLEAN, sendDhcpAck(mac, ciaddr)
  PROVE  Overtakes(dhcpMacIp[mac])
<1>1. dhcpTimer \in TimerMap
  BY DEF Typed, MoreTypes, TimerMap
<1>2. ASSUME NEW i \in 1..MaxDhcpTimers
      PROVE  /\ SameTimer(dhcpTimer[i], dhcpTimer'[i])
             /\ dhcpTimer[i] # NoTimer => dhcpTimer'[i].armed = dhcpTimer[i].armed
             /\ dhcpTimer[i] # NoTimer /\ dhcpTimer[i].ip # dhcpMacIp[mac] => dhcpTimer'[i] = dhcpTimer[i]
  <2>1. dhcpTimer'[i] = IF dhcpTimer[i] # NoTimer /\ dhcpTimer[i].ip = dhcpMacIp[mac]
                        THEN [dhcpTimer[i] EXCEPT !.current = FALSE] ELSE dhcpTimer[i]
    BY DEF sendDhcpAck
  <2>2. CASE dhcpTimer[i] # NoTimer /\ dhcpTimer[i].ip = dhcpMacIp[mac]
    <3>. DEFINE y == [dhcpTimer[i] EXCEPT !.current = FALSE]
    <3>1. dhcpTimer[i] \in TimerObject
      BY <1>1, <2>2 DEF TimerMap
    <3>2. y \in TimerObject /\ y.kind = dhcpTimer[i].kind /\ y.ip = dhcpTimer[i].ip /\ y.mac = dhcpTimer[i].mac /\ y.armed = dhcpTimer[i].armed
      BY <3>1 DEF TimerObject
    <3>3. dhcpTimer'[i] = y
      BY <2>1, <2>2
    <3>. HIDE DEF y
    <3>. QED
      BY <2>2, <3>1, <3>2, <3>3, NoneIsNone DEF SameTimer
  <2>3. CASE ~(dhcpTimer[i] # NoTimer /\ dhcpTimer[i].ip = dhcpMacIp[mac])
    BY <2>1, <2>3 DEF SameTimer
  <2>. QED
    BY <2>2, <2>3
<1>3. dhcpTimer' \in TimerMap
  <2>1. dhcpTimer' = [i \in 1..MaxDhcpTimers |-> dhcpTimer'[i]]
    BY DEF sendDhcpAck
  <2>2. \A i \in 1..MaxDhcpTimers : dhcpTimer'[i] \in {NoTimer} \cup TimerObject
    BY <1>1, <1>2 DEF SameTimer, TimerMap
  <2>. QED
    BY <2>1, <2>2 DEF TimerMap
<1>. QED
  BY <1>2, <1>3 DEF Overtakes

-----------------------------------------------------------------------------
(* Types                                                                   *)

PoolType == [DhcpIps -> OfferedData \cup {Unused}]
AddressType == [DhcpMacs -> DhcpIps \cup {None}]

\* A step of the leases: what has to be shown of it.
LEMMA LeaseTyped ==
  ASSUME DhcpConstants, Typed, UNCHANGED dhcpInfraVars, EventsGo,
         dhcpTimer' \in TimerMap, \A i \in 1..MaxDhcpTimers : dhcpTimer[i] # NoTimer => dhcpTimer'[i] # NoTimer,
         dhcpTodo' \subseteq Goroutine, dhcpMacIp' \in AddressType, dhcpHeld' \in AddressType, dhcpPool' \in PoolType,
         \A ip \in DhcpIps : dhcpPool'[ip] # Unused /\ dhcpPool'[ip] # dhcpPool[ip] =>
           Made(dhcpTimer', dhcpPool'[ip].stale) /\ Made(dhcpTimer', dhcpPool'[ip].refresh)
  PROVE  Typed'
<1>1. DhcpTypeOK'
  BY DEF Typed, DhcpTypeOK, dhcpInfraVars, AddressType, PoolType
<1>2. \A q \in DhcpPorts : /\ dhcpPort[q].rx \in Int
                           /\ dhcpPort[q].rx =< MaxDhcpEvents - dhcpEvents.left
                           /\ dhcpPort[q].hdl => dhcpPort[q].rx >= 1
  BY DEF Typed, DhcpTypeOK, MoreTypes
<1>3. /\ MaxDhcpEvents \in Nat /\ dhcpEvents.left \in Int /\ dhcpEvents'.left \in Int /\ dhcpEvents'.left =< dhcpEvents.left
      /\ dhcpEvents' \in EventsType
  BY DEF EventsGo, EventsType, Typed, MoreTypes, DhcpConstants
<1>4. \A q \in DhcpPorts : /\ dhcpPort'[q].rx =< MaxDhcpEvents - dhcpEvents'.left
                           /\ dhcpPort'[q].hdl => dhcpPort'[q].rx >= 1
  BY <1>2, <1>3 DEF dhcpInfraVars
<1>5. ASSUME NEW ip \in DhcpIps, dhcpPool'[ip] # Unused
      PROVE  Made(dhcpTimer', dhcpPool'[ip].stale) /\ Made(dhcpTimer', dhcpPool'[ip].refresh)
  <2>1. CASE dhcpPool'[ip] = dhcpPool[ip]
    <3>1. /\ dhcpPool[ip] \in OfferedData
          /\ Made(dhcpTimer, dhcpPool[ip].stale) /\ Made(dhcpTimer, dhcpPool[ip].refresh)
      BY <1>5, <2>1, EntFacts
    <3>2. dhcpPool[ip].stale \in 0..MaxDhcpTimers /\ dhcpPool[ip].refresh \in 0..MaxDhcpTimers
      BY <3>1 DEF OfferedData
    <3>. QED
      BY <2>1, <3>1, <3>2 DEF Made, DhcpConstants
  <2>. QED
    BY <1>5, <2>1
<1>6. MoreTypes'
  BY <1>3, <1>4, <1>5 DEF Typed, MoreTypes, TimerMap, EventsType, dhcpInfraVars
<1>. QED
  BY <1>1, <1>6 DEF Typed

\* The parts of Typed in the terms of LeaseTyped.
LEMMA TypedParts ==
  ASSUME DhcpConstants, Typed
  PROVE  /\ dhcpTimer \in TimerMap /\ dhcpTodo \subseteq Goroutine /\ dhcpPool \in PoolType
         /\ dhcpMacIp \in AddressType /\ dhcpHeld \in AddressType
         /\ MaxDhcpTimers \in Nat
BY DEF Typed, DhcpTypeOK, MoreTypes, TimerMap, PoolType, AddressType, DhcpConstants

\* A new timer, and the entry that refers to it.
LEMMA MakeTyped ==
  ASSUME DhcpConstants, Typed, UNCHANGED dhcpInfraVars, UNCHANGED <<dhcpMacIp, dhcpHeld, dhcpEvents>>,
         NEW g \in dhcpTodo, dhcpTodo' = dhcpTodo \ {g}, NEW kind, NEW t \in 1..MaxDhcpTimers, NEW e \in OfferedData,
         Makes(t, kind, g), Writes(g.ip, e),
         e.stale \in {t, Ent(g.ip).stale}, e.refresh \in {t, Ent(g.ip).refresh}
  PROVE  Typed'
<1>1. PICK n \in TimerObject : dhcpTimer' = [dhcpTimer EXCEPT ![t] = n]
  BY DEF Makes
<1>2. /\ dhcpTimer' \in TimerMap
      /\ \A i \in 1..MaxDhcpTimers : dhcpTimer[i] # NoTimer => dhcpTimer'[i] # NoTimer
      /\ dhcpTimer'[t] # NoTimer
  BY <1>1, TypedParts, NoneIsNone DEF TimerMap
<1>3. g.ip \in DhcpIps
  BY TodoFacts
<1>4. /\ Made(dhcpTimer, Ent(g.ip).stale) /\ Made(dhcpTimer, Ent(g.ip).refresh)
      /\ Ent(g.ip).stale \in 0..MaxDhcpTimers /\ Ent(g.ip).refresh \in 0..MaxDhcpTimers
  BY <1>3, EntFacts DEF OfferedData
<1>5. Made(dhcpTimer', e.stale) /\ Made(dhcpTimer', e.refresh)
  BY <1>2, <1>4, TypedParts DEF Made
<1>6. dhcpPool' \in PoolType /\ \A ip \in DhcpIps : dhcpPool'[ip] # dhcpPool[ip] => dhcpPool'[ip] = e
  BY <1>3, TypedParts DEF Writes, PoolType
<1>7. dhcpTodo' \subseteq Goroutine /\ EventsGo
  BY TodoFacts, EventFacts, AloneIsNote
<1>. QED
  BY <1>2, <1>5, <1>6, <1>7, LeaseTyped, TypedParts

\* One step per action.
LEMMA LeaseStepsTyped ==
  ASSUME DhcpConstants, Typed
  PROVE  /\ \A g \in dhcpTodo : StartStaleEntryHandler(g) \/ StartLeaseEntryHandler(g) \/ OfferEntered(g) \/ RequestSettled(g)
              => Typed' /\ EventsGo
         /\ \A t \in 1..MaxDhcpTimers : removeStaleFunc(t) \/ removeLeaseExpireFunc(t) => Typed' /\ EventsGo
         /\ \A m \in DhcpMacs : processDhcpRelease(m) \/ LeaseEnds(m) => Typed' /\ EventsGo
         /\ \A m \in DhcpMacs, x \in DhcpXids : sendDhcpOffer(m, x) => Typed' /\ EventsGo
         /\ \A m \in DhcpMacs, x \in DhcpXids, ciaddr \in BOOLEAN : processDhcpRequest(m, x, ciaddr) => Typed' /\ EventsGo
<1>. USE TypedParts
<1>1. ASSUME NEW g \in dhcpTodo, StartStaleEntryHandler(g) PROVE Typed' /\ EventsGo
  <2>1. PICK t \in 1..MaxDhcpTimers, e \in OfferedData :
           /\ Makes(t, "stale", g) /\ Writes(g.ip, e) /\ e.stale = t /\ e.refresh = Ent(g.ip).refresh
    BY <1>1, StaleStarts
  <2>2. /\ UNCHANGED dhcpInfraVars /\ UNCHANGED <<dhcpMacIp, dhcpHeld, dhcpEvents>>
        /\ dhcpTodo' = dhcpTodo \ {g}
    BY <1>1 DEF StartStaleEntryHandler
  <2>. QED
    BY <2>1, <2>2, MakeTyped, EventFacts, AloneIsNote
<1>2. ASSUME NEW g \in dhcpTodo, StartLeaseEntryHandler(g) PROVE Typed' /\ EventsGo
  <2>1. PICK t \in 1..MaxDhcpTimers, e \in OfferedData :
           /\ Makes(t, "lease", g) /\ Writes(g.ip, e) /\ e.refresh = t /\ e.stale = Ent(g.ip).stale
    BY <1>2, LeaseStarts
  <2>2. /\ UNCHANGED dhcpInfraVars /\ UNCHANGED <<dhcpMacIp, dhcpHeld, dhcpEvents>>
        /\ dhcpTodo' = dhcpTodo \ {g}
    BY <1>2 DEF StartLeaseEntryHandler
  <2>. QED
    BY <2>1, <2>2, MakeTyped, EventFacts, AloneIsNote
<1>3. ASSUME NEW g \in dhcpTodo, OfferEntered(g) PROVE Typed' /\ EventsGo
  <2>1. PICK e \in OfferedData : Writes(g.ip, e) /\ e.stale = Ent(g.ip).stale /\ e.refresh = Ent(g.ip).refresh
    BY <1>3, OfferIs
  <2>2. g.ip \in DhcpIps /\ g.mac \in DhcpMacs /\ dhcpTodo \ {g} \subseteq Goroutine
    BY TodoFacts
  <2>3. Made(dhcpTimer, e.stale) /\ Made(dhcpTimer, e.refresh)
    BY <2>1, <2>2, EntFacts
  <2>4. dhcpPool' \in PoolType /\ \A ip \in DhcpIps : dhcpPool'[ip] # dhcpPool[ip] => dhcpPool'[ip] = e
    BY <2>1, <2>2 DEF Writes, PoolType
  <2>5. UNCHANGED dhcpInfraVars /\ UNCHANGED <<dhcpTimer, dhcpHeld, dhcpEvents>>
    BY <1>3 DEF OfferEntered
  <2>6. dhcpTodo' \subseteq Goroutine
    BY <1>3, <2>2 DEF OfferEntered, Goroutine
  <2>7. dhcpMacIp' \in AddressType
    BY <1>3, <2>2 DEF OfferEntered, AddressType
  <2>8. EventsGo
    BY <2>5, EventFacts, AloneIsNote
  <2>. QED
    BY <2>3, <2>4, <2>5, <2>6, <2>7, <2>8, LeaseTyped
<1>4. ASSUME NEW g \in dhcpTodo, RequestSettled(g) PROVE Typed' /\ EventsGo
  <2>1. g.ip \in DhcpIps /\ dhcpTodo \ {g} \subseteq Goroutine
    BY TodoFacts
  <2>2. UNCHANGED dhcpInfraVars /\ UNCHANGED <<dhcpMacIp, dhcpHeld, dhcpEvents>> /\ dhcpTodo' = dhcpTodo \ {g}
    BY <1>4 DEF RequestSettled
  <2>3. EventsGo
    BY <2>2, EventFacts, AloneIsNote
  <2>4. CASE UNCHANGED <<dhcpPool, dhcpTimer>>
    BY <2>1, <2>2, <2>3, <2>4, LeaseTyped
  <2>5. CASE /\ SettlesTimers(Ent(g.ip))
             /\ \E e \in OfferedData : Writes(g.ip, e) /\ e.stale = None /\ e.refresh = Ent(g.ip).refresh
    <3>1. PICK e \in OfferedData : Writes(g.ip, e) /\ e.stale = None /\ e.refresh = Ent(g.ip).refresh
      BY <2>5
    <3>2. dhcpTimer' \in TimerMap /\ \A i \in 1..MaxDhcpTimers : dhcpTimer[i] # NoTimer => dhcpTimer'[i] # NoTimer
      BY <2>5 DEF SettlesTimers, SameTimer
    <3>3. Made(dhcpTimer, e.refresh) /\ e.refresh \in 0..MaxDhcpTimers
      BY <2>1, <3>1, EntFacts DEF OfferedData
    <3>4. Made(dhcpTimer', e.stale) /\ Made(dhcpTimer', e.refresh)
      BY <3>1, <3>2, <3>3 DEF Made
    <3>5. dhcpPool' \in PoolType /\ \A ip \in DhcpIps : dhcpPool'[ip] # dhcpPool[ip] => dhcpPool'[ip] = e
      BY <2>1, <3>1 DEF Writes, PoolType
    <3>. QED
      BY <2>1, <2>2, <2>3, <3>2, <3>4, <3>5, LeaseTyped
  <2>. QED
    BY <1>4, <2>4, <2>5, SettledIs
<1>5. ASSUME NEW t \in 1..MaxDhcpTimers, NEW mac, mac = dhcpTimer[t].mac, dhcpTimer[t] # NoTimer, Slows(dhcpTimer, dhcpTimer'),
             UNCHANGED dhcpInfraVars, UNCHANGED <<dhcpTodo, dhcpHeld>>,
             \/ Panic /\ UNCHANGED <<dhcpPool, dhcpMacIp>>
             \/ Clears(dhcpTimer[t].ip, mac) /\ dhcpEvents' = [dhcpEvents EXCEPT !.past = @ \cup Alone]
      PROVE  Typed' /\ EventsGo
  <2>1. dhcpTimer' \in TimerMap /\ \A i \in 1..MaxDhcpTimers : dhcpTimer[i] # NoTimer => dhcpTimer'[i] # NoTimer
    BY <1>5 DEF Slows, SameTimer
  <2>2. EventsGo
    BY <1>5, EventFacts, AloneIsNote
  <2>3. dhcpTimer[t].ip \in DhcpIps /\ mac \in DhcpMacs
    BY <1>5 DEF TimerMap, TimerObject
  <2>4. dhcpMacIp' \in AddressType /\ dhcpPool' \in PoolType
        /\ \A ip \in DhcpIps : dhcpPool'[ip] # dhcpPool[ip] => dhcpPool'[ip] = Unused
    BY <1>5, <2>3 DEF Clears, Writes, AddressType, PoolType
  <2>. QED
    BY <1>5, <2>1, <2>2, <2>4, LeaseTyped
<1>6. ASSUME NEW t \in 1..MaxDhcpTimers, removeStaleFunc(t) PROVE Typed' /\ EventsGo
  <2>1. UNCHANGED dhcpInfraVars /\ UNCHANGED <<dhcpTodo, dhcpHeld>>
    BY <1>6 DEF removeStaleFunc
  <2>. QED
    BY <1>5, <1>6, <2>1, StaleExpires DEF Armed
<1>7. ASSUME NEW t \in 1..MaxDhcpTimers, removeLeaseExpireFunc(t) PROVE Typed' /\ EventsGo
  <2>1. UNCHANGED dhcpInfraVars /\ UNCHANGED <<dhcpTodo, dhcpHeld>>
    BY <1>7 DEF removeLeaseExpireFunc
  <2>. QED
    BY <1>5, <1>7, <2>1, LeaseExpires DEF Armed
<1>8. ASSUME NEW m \in DhcpMacs, processDhcpRelease(m) PROVE Typed' /\ EventsGo
  <2>. DEFINE ip == dhcpMacIp[m]
  <2>1. ip \in DhcpIps
    BY <1>8 DEF AddressType, processDhcpRelease
  <2>2. /\ dhcpTimer' = StopTimer(dhcpTimer, Ent(ip).refresh) /\ Delete(ip, m)
        /\ dhcpHeld' = [dhcpHeld EXCEPT ![m] = None]
        /\ UNCHANGED dhcpInfraVars /\ UNCHANGED dhcpTodo
    BY <1>8 DEF processDhcpRelease, ReleaseStops
  <2>3. Made(dhcpTimer, Ent(ip).refresh) /\ Ent(ip).refresh \in 0..MaxDhcpTimers
    BY <2>1, EntFacts DEF OfferedData
  <2>4. dhcpTimer' \in TimerMap /\ \A i \in 1..MaxDhcpTimers : dhcpTimer[i] # NoTimer => dhcpTimer'[i] # NoTimer
    BY <2>2, <2>3, StopFacts DEF SameTimer
  <2>5. Alone \cup (IF Ent(ip).stale # None THEN {"releasedOffer"} ELSE {}) \in SUBSET Notes
    BY AloneIsNote DEF Notes
  <2>6. EventsGo
    BY <1>8, <2>5, EventFacts DEF processDhcpRelease
  <2>7. dhcpMacIp' \in AddressType /\ dhcpHeld' \in AddressType /\ dhcpPool' \in PoolType
        /\ \A j \in DhcpIps : dhcpPool'[j] # dhcpPool[j] => dhcpPool'[j] = Unused
    BY <2>1, <2>2 DEF Delete, AddressType, PoolType
  <2>. HIDE DEF ip
  <2>. QED
    BY <2>2, <2>4, <2>6, <2>7, LeaseTyped
<1>9. ASSUME NEW m \in DhcpMacs, LeaseEnds(m) PROVE Typed' /\ EventsGo
  <2>1. dhcpHeld' \in AddressType
    BY <1>9 DEF LeaseEnds, AddressType
  <2>2. EventsGo
    BY <1>9, EventFacts, AloneIsNote DEF LeaseEnds
  <2>. QED
    BY <1>9, <2>1, <2>2, LeaseTyped DEF LeaseEnds
<1>10. ASSUME NEW m \in DhcpMacs, NEW x \in DhcpXids, sendDhcpOffer(m, x) PROVE Typed' /\ EventsGo
  <2>1. UNCHANGED dhcpInfraVars /\ UNCHANGED <<dhcpPool, dhcpMacIp, dhcpTimer, dhcpHeld>>
    BY <1>10 DEF sendDhcpOffer
  <2>2. EventsGo
    BY <1>10, EventFacts, AloneIsNote DEF sendDhcpOffer
  <2>3. dhcpTodo' \subseteq Goroutine
    BY <1>10 DEF sendDhcpOffer, findUnusedIP, Goroutine
  <2>. QED
    BY <2>1, <2>2, <2>3, LeaseTyped
<1>11. ASSUME NEW m \in DhcpMacs, NEW x \in DhcpXids, NEW ciaddr \in BOOLEAN, processDhcpRequest(m, x, ciaddr)
       PROVE  Typed' /\ EventsGo
  <2>1. dhcpMacIp[m] \in DhcpIps
    BY <1>11 DEF AddressType, processDhcpRequest
  <2>2. UNCHANGED dhcpInfraVars /\ UNCHANGED <<dhcpPool, dhcpMacIp>> /\ sendDhcpAck(m, ciaddr)
    BY <1>11 DEF processDhcpRequest
  <2>3. Alone \cup (IF ~ciaddr /\ Ent(dhcpMacIp[m]).state = "OFFERED" THEN {"requestAgain"} ELSE {}) \in SUBSET Notes
    BY AloneIsNote DEF Notes
  <2>4. EventsGo
    BY <1>11, <2>3, EventFacts DEF processDhcpRequest
  <2>5. dhcpTimer' \in TimerMap /\ \A i \in 1..MaxDhcpTimers : dhcpTimer[i] # NoTimer => dhcpTimer'[i] # NoTimer
    BY <2>2, AckOvertakes DEF Overtakes, SameTimer
  <2>6. dhcpTodo' \subseteq Goroutine
    BY <2>1, <2>2 DEF sendDhcpAck, Goroutine
  <2>7. dhcpHeld' \in AddressType
    BY <2>1, <2>2 DEF sendDhcpAck, AddressType
  <2>. QED
    BY <2>2, <2>4, <2>5, <2>6, <2>7, LeaseTyped
<1>. QED
  BY <1>1, <1>2, <1>3, <1>4, <1>6, <1>7, <1>8, <1>9, <1>10, <1>11

\* Starting adds a receiver to some ports, stopping ends those that can be.
PortType(left) ==
  [DhcpPorts -> {p \in [l3: BOOLEAN, rx: 0..MaxDhcpEvents, hdl: BOOLEAN] : p.rx =< MaxDhcpEvents - left /\ (p.hdl => p.rx >= 1)}]

\* They stay within the bound, given an event.
LEMMA PortsTyped ==
  ASSUME DhcpConstants, NEW left \in 0..MaxDhcpEvents, left >= 1, dhcpPort \in PortType(left), NEW Q \in SUBSET DhcpPorts
  PROVE  /\ StartRxDhcpPkt(Q) \in PortType(left - 1) /\ StopPorts(Q) \in PortType(left - 1)
         /\ \A b \in BOOLEAN : [q \in DhcpPorts |-> IF q \in Q THEN [dhcpPort[q] EXCEPT !.l3 = b] ELSE dhcpPort[q]] \in PortType(left - 1)
         /\ dhcpPort \in PortType(left - 1)
<1>. DEFINE P(n) == {p \in [l3: BOOLEAN, rx: 0..MaxDhcpEvents, hdl: BOOLEAN] : p.rx =< MaxDhcpEvents - n /\ (p.hdl => p.rx >= 1)}
<1>1. ASSUME NEW q \in DhcpPorts, NEW b \in BOOLEAN
      PROVE  /\ dhcpPort[q] \in P(left - 1)
             /\ [dhcpPort[q] EXCEPT !.rx = @ + 1, !.hdl = TRUE] \in P(left - 1)
             /\ dhcpPort[q].hdl => [dhcpPort[q] EXCEPT !.rx = @ - 1, !.hdl = FALSE] \in P(left - 1)
             /\ [dhcpPort[q] EXCEPT !.l3 = b] \in P(left - 1)
  <2>1. PICK p : p = dhcpPort[q]
    OBVIOUS
  <2>2. /\ p.l3 \in BOOLEAN /\ p.rx \in 0..MaxDhcpEvents /\ p.hdl \in BOOLEAN /\ p.rx =< MaxDhcpEvents - left /\ (p.hdl => p.rx >= 1)
        /\ p = [l3 |-> p.l3, rx |-> p.rx, hdl |-> p.hdl] /\ MaxDhcpEvents \in Nat
    BY <2>1 DEF PortType, DhcpConstants
  <2>3. /\ [p EXCEPT !.rx = @ + 1, !.hdl = TRUE] = [l3 |-> p.l3, rx |-> p.rx + 1, hdl |-> TRUE]
        /\ [p EXCEPT !.rx = @ - 1, !.hdl = FALSE] = [l3 |-> p.l3, rx |-> p.rx - 1, hdl |-> FALSE]
        /\ [p EXCEPT !.l3 = b] = [l3 |-> b, rx |-> p.rx, hdl |-> p.hdl]
    <3>1. p \in [l3: BOOLEAN, rx: Int, hdl: BOOLEAN]
      BY <2>1, <2>2 DEF PortType
    <3>5. ASSUME NEW n \in Int, NEW c \in BOOLEAN
          PROVE  [p EXCEPT !.rx = n, !.hdl = c] = [l3 |-> p.l3, rx |-> n, hdl |-> c]
      <4>1. PICK u : u = [p EXCEPT !.rx = n]
        OBVIOUS
      <4>2. u \in [l3: BOOLEAN, rx: Int, hdl: BOOLEAN] /\ u.l3 = p.l3 /\ u.rx = n
        BY <3>1, <4>1
      <4>3. [u EXCEPT !.hdl = c] = [l3 |-> p.l3, rx |-> n, hdl |-> c]
        BY <4>2
      <4>. QED
        BY <4>1, <4>3
    <3>6. p.rx + 1 \in Int /\ p.rx - 1 \in Int
      BY <3>1
    <3>2. [p EXCEPT !.rx = @ + 1, !.hdl = TRUE] = [l3 |-> p.l3, rx |-> p.rx + 1, hdl |-> TRUE]
      BY <3>5, <3>6
    <3>3. [p EXCEPT !.rx = @ - 1, !.hdl = FALSE] = [l3 |-> p.l3, rx |-> p.rx - 1, hdl |-> FALSE]
      BY <3>5, <3>6
    <3>4. [p EXCEPT !.l3 = b] = [l3 |-> b, rx |-> p.rx, hdl |-> p.hdl]
      BY <3>1
    <3>. QED
      BY <3>2, <3>3, <3>4
  <2>4. p.rx + 1 \in 0..MaxDhcpEvents /\ p.rx + 1 =< MaxDhcpEvents - (left - 1) /\ p.rx =< MaxDhcpEvents - (left - 1)
        /\ (p.hdl => p.rx - 1 \in 0..MaxDhcpEvents /\ p.rx - 1 =< MaxDhcpEvents - (left - 1))
    BY <2>2
  <2>5. p \in P(left - 1)
    BY <2>2, <2>4
  <2>6. [l3 |-> p.l3, rx |-> p.rx + 1, hdl |-> TRUE] \in P(left - 1)
    BY <2>2, <2>4
  <2>7. p.hdl => [l3 |-> p.l3, rx |-> p.rx - 1, hdl |-> FALSE] \in P(left - 1)
    BY <2>2, <2>4
  <2>8. [l3 |-> b, rx |-> p.rx, hdl |-> p.hdl] \in P(left - 1)
    BY <2>2, <2>4
  <2>. QED
    BY <2>1, <2>3, <2>5, <2>6, <2>7, <2>8
<1>2. PortType(left - 1) = [DhcpPorts -> P(left - 1)]
  BY DEF PortType
<1>3. dhcpPort = [q \in DhcpPorts |-> dhcpPort[q]]
  BY DEF PortType
<1>. HIDE DEF P
<1>4. StartRxDhcpPkt(Q) \in [DhcpPorts -> P(left - 1)]
  BY <1>1 DEF StartRxDhcpPkt
<1>5. StopPorts(Q) \in [DhcpPorts -> P(left - 1)]
  BY <1>1 DEF StopPorts
<1>6. \A b \in BOOLEAN : [q \in DhcpPorts |-> IF q \in Q THEN [dhcpPort[q] EXCEPT !.l3 = b] ELSE dhcpPort[q]] \in [DhcpPorts -> P(left - 1)]
  BY <1>1
<1>7. dhcpPort \in [DhcpPorts -> P(left - 1)]
  BY <1>1, <1>3
<1>. QED
  BY <1>2, <1>4, <1>5, <1>6, <1>7

\* A step of the configuration: what has to be shown of it.
LEMMA ConfigTyped ==
  ASSUME DhcpConstants, Typed, EventsGo, UNCHANGED <<dhcpTimer, dhcpTodo, dhcpHeld>>,
         dhcpPort' \in PortType(dhcpEvents'.left), dhcpL3' \in [exists: BOOLEAN, configured: BOOLEAN], dhcpL3'.configured => dhcpL3'.exists,
         dhcpMembers' \subseteq DhcpPorts, dhcpConf' \in [global: BOOLEAN, enable: BOOLEAN, msg: BOOLEAN],
         dhcpMain' \in {"idle", "construct"},
         \/ UNCHANGED <<dhcpPool, dhcpMacIp>>
         \/ dhcpPool' = [ip \in DhcpIps |-> Unused] /\ dhcpMacIp' = [m \in DhcpMacs |-> None]
  PROVE  Typed'
<1>1. dhcpPool' \in PoolType /\ dhcpMacIp' \in AddressType
  BY TypedParts DEF PoolType, AddressType
<1>2. dhcpPort' \in [DhcpPorts -> [l3: BOOLEAN, rx: 0..MaxDhcpEvents, hdl: BOOLEAN]]
  BY DEF PortType
<1>3. \A q \in DhcpPorts : dhcpPort'[q].rx =< MaxDhcpEvents - dhcpEvents'.left /\ (dhcpPort'[q].hdl => dhcpPort'[q].rx >= 1)
  BY DEF PortType
<1>4. DhcpTypeOK'
  BY <1>1, <1>2 DEF Typed, DhcpTypeOK, PoolType, AddressType
<1>5. \A ip \in DhcpIps : dhcpPool'[ip] # Unused => dhcpPool'[ip] = dhcpPool[ip] /\ dhcpPool[ip] # Unused
  OBVIOUS
<1>6. \A ip \in DhcpIps : dhcpPool'[ip] # Unused => Made(dhcpTimer', dhcpPool'[ip].stale) /\ Made(dhcpTimer', dhcpPool'[ip].refresh)
  BY <1>5 DEF Typed, MoreTypes, Made
<1>7. MoreTypes'
  BY <1>3, <1>6 DEF Typed, MoreTypes, EventsGo, EventsType
<1>. QED
  BY <1>4, <1>7 DEF Typed

-----------------------------------------------------------------------------
(* Configuration                                                           *)

\* What the receivers of a port become.
LEMMA PortFields ==
  ASSUME DhcpConstants, Typed, NEW Q \in SUBSET DhcpPorts, NEW q \in DhcpPorts
  PROVE  /\ dhcpPort[q].rx \in Int /\ dhcpPort[q].hdl \in BOOLEAN
         /\ q \in Q => StartRxDhcpPkt(Q)[q].rx = dhcpPort[q].rx + 1 /\ StartRxDhcpPkt(Q)[q].hdl
         /\ q \notin Q => StartRxDhcpPkt(Q)[q] = dhcpPort[q]
         /\ q \in Q /\ dhcpPort[q].hdl => StopPorts(Q)[q].rx = dhcpPort[q].rx - 1 /\ ~StopPorts(Q)[q].hdl
         /\ q \notin Q \/ ~dhcpPort[q].hdl => StopPorts(Q)[q] = dhcpPort[q]
         /\ \A b \in BOOLEAN :
              LET l == [r \in DhcpPorts |-> IF r \in Q THEN [dhcpPort[r] EXCEPT !.l3 = b] ELSE dhcpPort[r]]
              IN  l[q].rx = dhcpPort[q].rx /\ l[q].hdl = dhcpPort[q].hdl
<1>1. dhcpPort[q] \in [l3: BOOLEAN, rx: 0..MaxDhcpEvents, hdl: BOOLEAN]
  BY DEF Typed, DhcpTypeOK
<1>2. dhcpPort[q].rx \in Int /\ dhcpPort[q].hdl \in BOOLEAN
  BY <1>1
<1>3. q \in Q => StartRxDhcpPkt(Q)[q].rx = dhcpPort[q].rx + 1 /\ StartRxDhcpPkt(Q)[q].hdl
  BY <1>1 DEF StartRxDhcpPkt
<1>4. q \notin Q => StartRxDhcpPkt(Q)[q] = dhcpPort[q]
  BY DEF StartRxDhcpPkt
<1>5. q \in Q /\ dhcpPort[q].hdl => StopPorts(Q)[q].rx = dhcpPort[q].rx - 1 /\ ~StopPorts(Q)[q].hdl
  BY <1>1 DEF StopPorts
<1>6. q \notin Q \/ ~dhcpPort[q].hdl => StopPorts(Q)[q] = dhcpPort[q]
  BY DEF StopPorts
<1>7. \A b \in BOOLEAN : [dhcpPort[q] EXCEPT !.l3 = b].rx = dhcpPort[q].rx /\ [dhcpPort[q] EXCEPT !.l3 = b].hdl = dhcpPort[q].hdl
  BY <1>1
<1>. QED
  BY <1>2, <1>3, <1>4, <1>5, <1>6, <1>7

\* What does not touch the leases keeps what is said of them.
LEMMA LeasesUntouched ==
  ASSUME LeaseInv, UNCHANGED dhcpLeases, dhcpL3.configured => dhcpL3'.configured
  PROVE  LeaseInv'
<1>1. UNCHANGED <<dhcpPool, dhcpMacIp, dhcpTimer, dhcpTodo, dhcpHeld>>
  BY DEF dhcpLeases
<1>2. OnePacket' /\ \A g \in dhcpTodo' : Finds(g)'
  BY <1>1 DEF LeaseInv, OnePacket, Finds, Acknowledging
<1>3. TablesAgree' /\ TimersOwned'
  BY <1>1 DEF LeaseInv, TablesAgree, TimersOwned, Armed, Owns, Refreshes
<1>4. AllSettled'
  BY <1>1 DEF LeaseInv, AllSettled, Settled, Acknowledging
<1>5. EmptyBefore'
  BY <1>1 DEF LeaseInv, EmptyBefore, Armed
<1>. QED
  BY <1>2, <1>3, <1>4, <1>5 DEF LeaseInv

\* Configuration and notifications of asicd.
LEMMA ConfigurationIsSafe ==
  ASSUME DhcpConstants, IInv,
         \/ constructDhcpMsg \/ processIPv4IntfCreate \/ processIPv4IntfDelete
         \/ \E enable \in BOOLEAN : processDhcpGlobalConf(enable) \/ processDhcpIntfConf(enable)
         \/ \E Q \in SUBSET DhcpPorts : updateVlanInfra(Q)
  PROVE  IInv'
<1>. DEFINE Quiet(past) == past \cap {"removed", "left"} = {}
            Goal == IInv'
<1>1. /\ Typed /\ (Ordinary => LeaseInv) /\ (Quiet(dhcpEvents.past) => PortInv)
      /\ dhcpL3 \in [exists: BOOLEAN, configured: BOOLEAN] /\ (dhcpL3.configured => dhcpL3.exists) /\ dhcpMembers \subseteq DhcpPorts
      /\ dhcpConf \in [global: BOOLEAN, enable: BOOLEAN, msg: BOOLEAN] /\ dhcpMain \in {"idle", "construct"}
      /\ dhcpPort \in PortType(dhcpEvents.left) /\ dhcpEvents.left \in 0..MaxDhcpEvents
  BY DEF IInv, Typed, DhcpTypeOK, MoreTypes, PortType
<1>2. ASSUME NEW what \in SUBSET Notes, Happens(what)
      PROVE  /\ EventsGo /\ dhcpEvents'.left = dhcpEvents.left - 1 /\ dhcpEvents.left >= 1
             /\ dhcpEvents'.past = dhcpEvents.past \cup what
             /\ Quiet(dhcpEvents'.past) => Quiet(dhcpEvents.past)
  BY <1>1, <1>2, EventFacts
<1>3. ASSUME EventsGo, Ordinary', UNCHANGED dhcpLeases, dhcpL3.configured => dhcpL3'.configured
      PROVE  LeaseInv'
  BY <1>1, <1>3, OrdinaryStays, LeasesUntouched DEF EventsGo
<1>4. ASSUME Typed', Ordinary' => LeaseInv', Quiet(dhcpEvents'.past) => PortInv'
      PROVE  Goal
  BY <1>4 DEF IInv
<1>5. ASSUME NEW Q \in SUBSET DhcpPorts, dhcpEvents.left >= 1
      PROVE  /\ StartRxDhcpPkt(Q) \in PortType(dhcpEvents.left - 1) /\ StopPorts(Q) \in PortType(dhcpEvents.left - 1)
             /\ \A b \in BOOLEAN : [q \in DhcpPorts |-> IF q \in Q THEN [dhcpPort[q] EXCEPT !.l3 = b] ELSE dhcpPort[q]] \in PortType(dhcpEvents.left - 1)
             /\ dhcpPort \in PortType(dhcpEvents.left - 1)
  BY <1>1, <1>5, PortsTyped
<1>. SUFFICES Goal
  OBVIOUS
<1>. HIDE DEF Goal
<1>6. CASE constructDhcpMsg
  <2>1. /\ UNCHANGED <<dhcpL3, dhcpMembers, dhcpPort, dhcpEvents>> /\ UNCHANGED dhcpLeases /\ dhcpMain' = "idle"
        /\ dhcpConf' \in [global: BOOLEAN, enable: BOOLEAN, msg: BOOLEAN]
        /\ dhcpConf'.global = dhcpConf.global /\ dhcpConf'.enable = dhcpConf.enable
    BY <1>1, <1>6 DEF constructDhcpMsg
  <2>2. EventsGo
    BY <1>1, <2>1, EventFacts, AloneIsNote
  <2>3. Typed'
    BY <1>1, <2>1, <2>2, ConfigTyped DEF dhcpLeases
  <2>4. Quiet(dhcpEvents'.past) => PortInv'
    BY <1>1, <2>1 DEF PortInv
  <2>9. Ordinary' => LeaseInv'
    BY <1>3, <2>1, <2>2
  <2>. QED
    BY <1>4, <2>3, <2>4, <2>9
<1>7. CASE processIPv4IntfCreate
  <2>1. /\ Happens({}) /\ UNCHANGED <<dhcpMembers, dhcpConf, dhcpMain>> /\ UNCHANGED dhcpLeases
        /\ ~dhcpL3.exists /\ dhcpL3' = [exists |-> TRUE, configured |-> FALSE]
        /\ dhcpPort' = [q \in DhcpPorts |-> IF q \in dhcpMembers THEN [dhcpPort[q] EXCEPT !.l3 = TRUE] ELSE dhcpPort[q]]
    BY <1>7 DEF processIPv4IntfCreate
  <2>2. /\ EventsGo /\ dhcpEvents'.left = dhcpEvents.left - 1 /\ dhcpEvents.left >= 1
        /\ Quiet(dhcpEvents'.past) => Quiet(dhcpEvents.past)
    BY <1>2, <2>1
  <2>3. dhcpPort' \in PortType(dhcpEvents'.left)
    BY <1>1, <1>5, <2>1, <2>2
  <2>4. Typed'
    BY <1>1, <2>1, <2>2, <2>3, ConfigTyped DEF dhcpLeases
  <2>5. ~dhcpL3.configured
    BY <1>1, <2>1
  <2>6. \A q \in DhcpPorts : dhcpPort'[q].rx = dhcpPort[q].rx /\ dhcpPort'[q].hdl = dhcpPort[q].hdl
    BY <1>1, <2>1, PortFields
  <2>7. Quiet(dhcpEvents'.past) => PortInv'
    BY <1>1, <2>1, <2>2, <2>5, <2>6 DEF PortInv
  <2>9. Ordinary' => LeaseInv'
    BY <1>3, <2>1, <2>2, <2>5
  <2>. QED
    BY <1>4, <2>4, <2>7, <2>9
<1>8. CASE processIPv4IntfDelete
  <2>. DEFINE what == IF dhcpL3.configured THEN {"removed"} ELSE {}
  <2>1. /\ Happens(what) /\ UNCHANGED <<dhcpMembers, dhcpConf, dhcpMain>> /\ UNCHANGED dhcpLeases
        /\ dhcpL3' = [exists |-> FALSE, configured |-> FALSE]
        /\ dhcpPort' = [q \in DhcpPorts |-> IF q \in dhcpMembers THEN [dhcpPort[q] EXCEPT !.l3 = FALSE] ELSE dhcpPort[q]]
    BY <1>8 DEF processIPv4IntfDelete
  <2>2. what \in SUBSET Notes
    BY DEF Notes
  <2>3. /\ EventsGo /\ dhcpEvents'.left = dhcpEvents.left - 1 /\ dhcpEvents.left >= 1
        /\ Quiet(dhcpEvents'.past) => Quiet(dhcpEvents.past)
        /\ dhcpEvents'.past = dhcpEvents.past \cup what
    BY <1>2, <2>1, <2>2
  <2>4. dhcpPort' \in PortType(dhcpEvents'.left)
    BY <1>1, <1>5, <2>1, <2>3
  <2>5. Typed'
    BY <1>1, <2>1, <2>3, <2>4, ConfigTyped DEF dhcpLeases
  <2>6. dhcpL3.configured => ~Ordinary' /\ ~Quiet(dhcpEvents'.past)
    BY <2>3 DEF Ordinary
  <2>7. \A q \in DhcpPorts : dhcpPort'[q].rx = dhcpPort[q].rx /\ dhcpPort'[q].hdl = dhcpPort[q].hdl
    BY <1>1, <2>1, PortFields
  <2>8. Quiet(dhcpEvents'.past) => PortInv'
    BY <1>1, <2>1, <2>3, <2>6, <2>7 DEF PortInv
  <2>9. Ordinary' => LeaseInv'
    BY <1>3, <2>1, <2>3, <2>6
  <2>. QED
    BY <1>4, <2>5, <2>8, <2>9
<1>9. ASSUME NEW enable \in BOOLEAN, processDhcpGlobalConf(enable) PROVE Goal
  <2>1. /\ Happens({}) /\ UNCHANGED <<dhcpL3, dhcpMembers>> /\ UNCHANGED dhcpLeases
        /\ dhcpConf.global # enable /\ dhcpConf' = [dhcpConf EXCEPT !.global = enable]
        /\ dhcpMain' \in {dhcpMain, "construct"}
        /\ IF ~dhcpConf.enable THEN dhcpPort' = dhcpPort
           ELSE IF enable THEN dhcpPort' = StartRxDhcpPkt(dhcpMembers)
           ELSE dhcpPort' = StopPorts(dhcpMembers)
    BY <1>9 DEF processDhcpGlobalConf, StartDhcpServer, StopDhcpServer
  <2>2. /\ EventsGo /\ dhcpEvents'.left = dhcpEvents.left - 1 /\ dhcpEvents.left >= 1
        /\ Quiet(dhcpEvents'.past) => Quiet(dhcpEvents.past)
    BY <1>2, <2>1
  <2>3. dhcpPort' \in PortType(dhcpEvents'.left)
    BY <1>1, <1>5, <2>1, <2>2
  <2>4. /\ dhcpConf' \in [global: BOOLEAN, enable: BOOLEAN, msg: BOOLEAN]
        /\ dhcpConf'.global = enable /\ dhcpConf'.enable = dhcpConf.enable
    BY <1>1, <2>1
  <2>5. Typed'
    BY <1>1, <2>1, <2>2, <2>3, <2>4, ConfigTyped DEF dhcpLeases
  <2>6. ASSUME PortInv PROVE PortInv'
    <3>1. ASSUME NEW q \in DhcpPorts
          PROVE  /\ dhcpPort'[q].rx = IF dhcpPort'[q].hdl THEN 1 ELSE 0
                 /\ dhcpPort'[q].hdl => q \in dhcpMembers' /\ dhcpConf'.global /\ dhcpConf'.enable
      <4>1. /\ dhcpPort[q].rx = IF dhcpPort[q].hdl THEN 1 ELSE 0
            /\ dhcpPort[q].hdl => q \in dhcpMembers /\ dhcpConf.global /\ dhcpConf.enable
        BY <2>6 DEF PortInv
      <4>2. CASE ~dhcpConf.enable
        BY <2>1, <4>1, <4>2
      <4>3. CASE dhcpConf.enable /\ enable
        <5>1. ~dhcpConf.global
          BY <1>1, <2>1, <4>3
        <5>2. dhcpPort[q].rx = 0 /\ ~dhcpPort[q].hdl /\ dhcpPort' = StartRxDhcpPkt(dhcpMembers)
          BY <2>1, <4>1, <4>3, <5>1
        <5>. QED
          BY <1>1, <2>1, <2>4, <4>3, <5>2, PortFields
      <4>4. CASE dhcpConf.enable /\ ~enable
        BY <1>1, <2>1, <2>4, <4>1, <4>4, PortFields
      <4>. QED
        BY <4>2, <4>3, <4>4
    <3>. QED
      BY <2>1, <2>4, <2>6, <3>1 DEF PortInv
  <2>9. Ordinary' => LeaseInv'
    BY <1>3, <2>1, <2>2
  <2>. QED
    BY <1>4, <1>1, <2>2, <2>5, <2>6, <2>9
<1>10. ASSUME NEW enable \in BOOLEAN, processDhcpIntfConf(enable) PROVE Goal
  <2>1. /\ Happens({}) /\ UNCHANGED <<dhcpMembers, dhcpTimer, dhcpTodo, dhcpHeld>>
        /\ dhcpL3.exists /\ ~dhcpL3.configured /\ dhcpL3' = [dhcpL3 EXCEPT !.configured = TRUE]
        /\ dhcpConf' = [dhcpConf EXCEPT !.enable = enable]
        /\ dhcpPool' = [ip \in DhcpIps |-> Unused] /\ dhcpMacIp' = [m \in DhcpMacs |-> None]
        /\ dhcpMain' \in {dhcpMain, "construct"}
        /\ dhcpPort' = IF dhcpConf.global /\ enable THEN StartRxDhcpPkt(dhcpMembers) ELSE dhcpPort
    BY <1>10 DEF processDhcpIntfConf, StartDhcpServer
  <2>2. /\ EventsGo /\ dhcpEvents'.left = dhcpEvents.left - 1 /\ dhcpEvents.left >= 1
        /\ Quiet(dhcpEvents'.past) => Quiet(dhcpEvents.past)
    BY <1>2, <2>1
  <2>3. dhcpPort' \in PortType(dhcpEvents'.left)
    BY <1>1, <1>5, <2>1, <2>2
  <2>4. /\ dhcpConf' \in [global: BOOLEAN, enable: BOOLEAN, msg: BOOLEAN]
        /\ dhcpConf'.global = dhcpConf.global /\ dhcpConf'.enable = enable
        /\ dhcpL3' \in [exists: BOOLEAN, configured: BOOLEAN] /\ dhcpL3'.configured /\ dhcpL3'.exists
    BY <1>1, <2>1
  <2>5. Typed'
    BY <1>1, <2>1, <2>2, <2>3, <2>4, ConfigTyped
  <2>6. ASSUME PortInv PROVE PortInv'
    <3>1. ASSUME NEW q \in DhcpPorts
          PROVE  /\ dhcpPort'[q].rx = IF dhcpPort'[q].hdl THEN 1 ELSE 0
                 /\ dhcpPort'[q].hdl => q \in dhcpMembers' /\ dhcpConf'.global /\ dhcpConf'.enable
      <4>1. dhcpPort[q].rx = 0 /\ ~dhcpPort[q].hdl
        BY <2>1, <2>6 DEF PortInv
      <4>2. CASE dhcpConf.global /\ enable
        BY <1>1, <2>1, <2>4, <4>1, <4>2, PortFields
      <4>3. CASE ~(dhcpConf.global /\ enable)
        BY <2>1, <4>1, <4>3
      <4>. QED
        BY <4>2, <4>3
    <3>. QED
      BY <2>4, <3>1 DEF PortInv
  <2>7. Ordinary' => LeaseInv'
    <3>1. SUFFICES ASSUME Ordinary' PROVE LeaseInv'
      OBVIOUS
    <3>2. LeaseInv
      BY <1>1, <2>2, <3>1, OrdinaryStays DEF EventsGo
    <3>3. (\A ip \in DhcpIps : dhcpPool[ip] = Unused) /\ (\A m \in DhcpMacs : dhcpMacIp[m] = None)
      BY <2>1, <3>2 DEF LeaseInv, EmptyBefore
    <3>4. UNCHANGED <<dhcpPool, dhcpMacIp>>
      BY <1>1, <2>1, <3>3, TypedParts DEF PoolType, AddressType
    <3>. QED
      BY <2>1, <2>4, <3>2, <3>4, LeasesUntouched DEF dhcpLeases
  <2>. QED
    BY <1>1, <1>4, <2>2, <2>5, <2>6, <2>7
<1>11. ASSUME NEW Q \in SUBSET DhcpPorts, updateVlanInfra(Q) PROVE Goal
  <2>. DEFINE what == IF \E q \in dhcpMembers \ Q : dhcpPort[q].rx > 0 THEN {"left"} ELSE {}
  <2>1. /\ Happens(what) /\ UNCHANGED <<dhcpL3, dhcpPort, dhcpConf, dhcpMain>> /\ UNCHANGED dhcpLeases /\ dhcpMembers' = Q
    BY <1>11 DEF updateVlanInfra
  <2>2. what \in SUBSET Notes
    BY DEF Notes
  <2>3. /\ EventsGo /\ dhcpEvents'.left = dhcpEvents.left - 1 /\ dhcpEvents.left >= 1
        /\ Quiet(dhcpEvents'.past) => Quiet(dhcpEvents.past)
        /\ dhcpEvents'.past = dhcpEvents.past \cup what
    BY <1>2, <2>1, <2>2
  <2>4. dhcpPort' \in PortType(dhcpEvents'.left)
    BY <1>1, <1>5, <2>1, <2>3
  <2>5. Typed'
    BY <1>1, <2>1, <2>3, <2>4, ConfigTyped DEF dhcpLeases
  <2>6. Quiet(dhcpEvents'.past) => \A q \in dhcpMembers \ Q : ~(dhcpPort[q].rx > 0)
    BY <2>3
  <2>7. Quiet(dhcpEvents'.past) => PortInv'
    <3>1. SUFFICES ASSUME Quiet(dhcpEvents'.past) PROVE PortInv'
      OBVIOUS
    <3>2. PortInv
      BY <1>1, <2>3, <3>1
    <3>3. \A q \in DhcpPorts : dhcpPort[q].hdl => q \in Q
      BY <2>6, <3>1, <3>2 DEF PortInv
    <3>. QED
      BY <2>1, <3>2, <3>3 DEF PortInv
  <2>9. Ordinary' => LeaseInv'
    BY <1>3, <2>1, <2>3
  <2>. QED
    BY <1>4, <2>5, <2>7, <2>9
<1>. QED
  BY <1>6, <1>7, <1>8, <1>9, <1>10, <1>11

-----------------------------------------------------------------------------
(* Leases                                                                  *)

\* What a goroutine that writes an entry relies on.
LEMMA WriterFacts ==
  ASSUME DhcpConstants, Typed, LeaseInv, NEW g \in dhcpTodo
  PROVE  /\ dhcpL3.configured /\ g.ip \in DhcpIps /\ g.mac \in DhcpMacs /\ g.ip # None
         /\ \A h \in dhcpTodo : h.ip = g.ip /\ h.mac = g.mac /\ (h.op = g.op \/ g.op \in {"offer", "stale"} => h = g)
         /\ g.op # "offer" => /\ dhcpMacIp[g.mac] = g.ip /\ dhcpPool[g.ip] # Unused /\ dhcpPool[g.ip].mac = g.mac
                              /\ Ent(g.ip) = dhcpPool[g.ip]
         /\ g.op = "offer" => /\ dhcpPool[g.ip] = Unused /\ dhcpMacIp[g.mac] = None
                              /\ Ent(g.ip).stale = None /\ Ent(g.ip).refresh = None
<1>1. g.ip \in DhcpIps /\ g.mac \in DhcpMacs /\ g.ip # None
  BY TodoFacts DEF DhcpConstants
<1>2. dhcpL3.configured
  BY DEF LeaseInv, EmptyBefore
<1>3. \A h \in dhcpTodo : h.ip = g.ip /\ h.mac = g.mac /\ (h.op = g.op \/ g.op \in {"offer", "stale"} => h = g)
  BY DEF LeaseInv, OnePacket
<1>4. Finds(g) /\ TablesAgree
  BY DEF LeaseInv
<1>5. g.op # "offer" => dhcpMacIp[g.mac] = g.ip /\ dhcpPool[g.ip] # Unused /\ dhcpPool[g.ip].mac = g.mac
  BY <1>1, <1>4 DEF Finds, TablesAgree
<1>6. g.op = "offer" => dhcpPool[g.ip] = Unused /\ dhcpMacIp[g.mac] = None
  BY <1>4 DEF Finds
<1>. QED
  BY <1>1, <1>2, <1>3, <1>5, <1>6, EntFacts

\* The parts of an entry that refer to timers.
LEMMA EntryFacts ==
  ASSUME DhcpConstants, Typed, NEW ip \in DhcpIps, dhcpPool[ip] # Unused
  PROVE  /\ dhcpPool[ip] \in OfferedData /\ dhcpPool[ip].stale \in 0..MaxDhcpTimers /\ dhcpPool[ip].refresh \in 0..MaxDhcpTimers
         /\ dhcpPool[ip].refresh # None => dhcpPool[ip].refresh \in 1..MaxDhcpTimers
<1>1. dhcpPool[ip] \in OfferedData /\ MaxDhcpTimers \in Nat
  BY EntFacts DEF DhcpConstants
<1>2. dhcpPool[ip].stale \in 0..MaxDhcpTimers /\ dhcpPool[ip].refresh \in 0..MaxDhcpTimers
  BY <1>1 DEF OfferedData
<1>. QED
  BY <1>1, <1>2

\* A new timer leaves the others as they are.
LEMMA MakesFacts ==
  ASSUME DhcpConstants, Typed, NEW g, NEW kind, NEW t \in 1..MaxDhcpTimers, Makes(t, kind, g)
  PROVE  /\ dhcpTimer[t] = NoTimer /\ dhcpTimer'[t] # NoTimer /\ t # None
         /\ dhcpTimer'[t].kind = kind /\ dhcpTimer'[t].ip = g.ip /\ dhcpTimer'[t].mac = g.mac
         /\ dhcpTimer'[t].armed /\ dhcpTimer'[t].current
         /\ \A i \in 1..MaxDhcpTimers : i # t => dhcpTimer'[i] = dhcpTimer[i]
<1>1. PICK n \in TimerObject :
       /\ n.kind = kind /\ n.ip = g.ip /\ n.mac = g.mac /\ n.armed /\ n.current
       /\ dhcpTimer' = [dhcpTimer EXCEPT ![t] = n]
  BY DEF Makes
<1>2. dhcpTimer'[t] = n /\ \A i \in 1..MaxDhcpTimers : i # t => dhcpTimer'[i] = dhcpTimer[i]
  BY <1>1, TypedParts DEF TimerMap
<1>. QED
  BY <1>1, <1>2, NoneIsNone DEF Makes

\* An entry is written and the others stay.
LEMMA WritesFacts ==
  ASSUME DhcpConstants, Typed, NEW ip \in DhcpIps, NEW e, Writes(ip, e)
  PROVE  dhcpPool'[ip] = e /\ \A j \in DhcpIps : j # ip => dhcpPool'[j] = dhcpPool[j]
BY TypedParts DEF Writes, PoolType

\* An entry that is written keeps its client.
LEMMA TablesStay ==
  ASSUME DhcpConstants, Typed, TablesAgree, UNCHANGED <<dhcpMacIp, dhcpHeld>>, NEW ip \in DhcpIps,
         dhcpPool[ip] # Unused, dhcpPool'[ip] # Unused, dhcpPool'[ip].mac = dhcpPool[ip].mac,
         \A j \in DhcpIps : j # ip => dhcpPool'[j] = dhcpPool[j]
  PROVE  TablesAgree'
<1>1. \A m \in DhcpMacs : dhcpMacIp[m] # None => dhcpMacIp[m] \in DhcpIps
  BY TypedParts DEF AddressType
<1>2. \A j \in DhcpIps : (dhcpPool'[j] # Unused <=> dhcpPool[j] # Unused) /\ dhcpPool'[j].mac = dhcpPool[j].mac
  OBVIOUS
<1>. QED
  BY <1>1, <1>2 DEF TablesAgree

\* The timer of an offer.
LEMMA StaleStartIsSafe ==
  ASSUME DhcpConstants, Typed, LeaseInv, NEW g \in dhcpTodo, StartStaleEntryHandler(g)
  PROVE  LeaseInv'
<1>1. /\ g.op = "stale" /\ dhcpTodo' = dhcpTodo \ {g} /\ UNCHANGED <<dhcpL3, dhcpMacIp, dhcpHeld>>
  BY DEF StartStaleEntryHandler, dhcpInfraVars
<1>2. PICK t \in 1..MaxDhcpTimers, e \in OfferedData :
         /\ Makes(t, "stale", g) /\ Writes(g.ip, e)
         /\ e.stale = t /\ e.refresh = Ent(g.ip).refresh /\ e.mac = Ent(g.ip).mac /\ e.state = Ent(g.ip).state
  BY StaleStarts
<1>3. /\ dhcpL3.configured /\ g.ip \in DhcpIps /\ g.mac \in DhcpMacs /\ g.ip # None
      /\ dhcpTodo = {g}
      /\ dhcpMacIp[g.mac] = g.ip /\ dhcpPool[g.ip] # Unused /\ dhcpPool[g.ip].mac = g.mac /\ Ent(g.ip) = dhcpPool[g.ip]
  BY <1>1, WriterFacts
<1>4. dhcpPool[g.ip].stale = None /\ dhcpPool[g.ip].refresh = None /\ dhcpHeld[g.mac] = None
  BY <1>1 DEF LeaseInv, Finds
<1>5. /\ dhcpTimer[t] = NoTimer /\ dhcpTimer'[t] # NoTimer /\ t # None
      /\ dhcpTimer'[t].kind = "stale" /\ dhcpTimer'[t].ip = g.ip /\ dhcpTimer'[t].mac = g.mac
      /\ \A i \in 1..MaxDhcpTimers : i # t => dhcpTimer'[i] = dhcpTimer[i]
  BY <1>2, MakesFacts
<1>6. dhcpPool'[g.ip] = e /\ (\A j \in DhcpIps : j # g.ip => dhcpPool'[j] = dhcpPool[j]) /\ e # Unused
      /\ e.mac = g.mac /\ e.refresh = None /\ e.stale = t
  BY <1>2, <1>3, <1>4, WritesFacts, NoneIsNone
<1>7. dhcpTodo' = {}
  BY <1>1, <1>3
<1>8. TablesAgree'
  BY <1>1, <1>3, <1>6, TablesStay DEF LeaseInv
<1>9. TimersOwned'
  <2>1. ASSUME NEW i \in 1..MaxDhcpTimers, Armed(i)'
        PROVE  Owns(i, dhcpTimer[i].ip)'
    <3>1. CASE i = t
      BY <1>5, <1>6, <3>1 DEF Owns
    <3>2. CASE i # t
      <4>1. Armed(i) /\ Owns(i, dhcpTimer[i].ip) /\ dhcpTimer[i].ip \in DhcpIps
        BY <1>5, <2>1, <3>2, TypedParts DEF Armed, LeaseInv, TimersOwned, TimerMap, TimerObject
      <4>2. dhcpTimer[i].ip # g.ip
        BY <1>4, <4>1 DEF Owns
      <4>. QED
        BY <1>5, <1>6, <3>2, <4>1, <4>2 DEF Owns
    <3>. QED
      BY <3>1, <3>2
  <2>2. ASSUME NEW ip \in DhcpIps, dhcpPool'[ip] # Unused, dhcpPool'[ip].refresh # None
        PROVE  Refreshes(dhcpPool[ip].refresh, ip)' /\ dhcpPool'[ip].state = "OFFERED"
    <3>1. ip # g.ip /\ dhcpPool'[ip] = dhcpPool[ip]
      BY <1>6, <2>2
    <3>2. Refreshes(dhcpPool[ip].refresh, ip) /\ dhcpPool[ip].state = "OFFERED" /\ dhcpPool[ip].refresh \in 1..MaxDhcpTimers
      BY <2>2, <3>1, EntryFacts DEF LeaseInv, TimersOwned
    <3>. QED
      BY <1>5, <3>1, <3>2 DEF Refreshes
  <2>. QED
    BY <2>1, <2>2 DEF TimersOwned
<1>10. AllSettled'
  <2>1. ASSUME NEW ip \in DhcpIps, dhcpPool'[ip] # Unused
        PROVE  Settled(ip)'
    <3>1. CASE ip = g.ip
      BY <1>1, <1>3, <1>4, <1>6, <3>1 DEF Settled
    <3>2. CASE ip # g.ip
      <4>1. dhcpPool'[ip] = dhcpPool[ip] /\ dhcpPool[ip] # Unused
        BY <1>6, <2>1, <3>2
      <4>2. Settled(ip)
        BY <1>1, <1>3, <4>1 DEF LeaseInv, AllSettled, Acknowledging
      <4>3. dhcpPool[ip].refresh # None => dhcpPool[ip].refresh \in 1..MaxDhcpTimers /\ dhcpPool[ip].refresh # t
        BY <1>5, <4>1, EntryFacts DEF LeaseInv, TimersOwned, Refreshes
      <4>. QED
        BY <1>1, <1>5, <4>1, <4>2, <4>3 DEF Settled
    <3>. QED
      BY <3>1, <3>2
  <2>. QED
    BY <2>1 DEF AllSettled
<1>11. OnePacket' /\ (\A g1 \in dhcpTodo' : Finds(g1)') /\ EmptyBefore'
  BY <1>1, <1>3, <1>7 DEF OnePacket, EmptyBefore
<1>. QED
  BY <1>8, <1>9, <1>10, <1>11 DEF LeaseInv

\* The timer of a lease.
LEMMA LeaseStartIsSafe ==
  ASSUME DhcpConstants, Typed, LeaseInv, NEW g \in dhcpTodo, StartLeaseEntryHandler(g)
  PROVE  LeaseInv'
<1>1. /\ g.op = "lease" /\ dhcpTodo' = dhcpTodo \ {g} /\ UNCHANGED <<dhcpL3, dhcpMacIp, dhcpHeld>>
  BY DEF StartLeaseEntryHandler, dhcpInfraVars
<1>2. PICK t \in 1..MaxDhcpTimers, e \in OfferedData :
         /\ Makes(t, "lease", g) /\ Writes(g.ip, e)
         /\ e.refresh = t /\ e.stale = Ent(g.ip).stale /\ e.mac = Ent(g.ip).mac /\ e.state = "OFFERED"
  BY LeaseStarts
<1>3. /\ dhcpL3.configured /\ g.ip \in DhcpIps /\ g.mac \in DhcpMacs /\ g.ip # None
      /\ \A h \in dhcpTodo : h.ip = g.ip /\ h.mac = g.mac /\ (h.op = "lease" => h = g)
      /\ dhcpMacIp[g.mac] = g.ip /\ dhcpPool[g.ip] # Unused /\ dhcpPool[g.ip].mac = g.mac /\ Ent(g.ip) = dhcpPool[g.ip]
  BY <1>1, WriterFacts
<1>4. dhcpPool[g.ip].refresh = None /\ (Acknowledging(g.ip) \/ dhcpPool[g.ip].stale = None)
  BY <1>1 DEF LeaseInv, Finds
<1>5. /\ dhcpTimer[t] = NoTimer /\ dhcpTimer'[t] # NoTimer /\ t # None /\ dhcpTimer'[t].current
      /\ dhcpTimer'[t].kind = "lease" /\ dhcpTimer'[t].ip = g.ip /\ dhcpTimer'[t].mac = g.mac
      /\ \A i \in 1..MaxDhcpTimers : i # t => dhcpTimer'[i] = dhcpTimer[i]
  BY <1>2, MakesFacts
<1>6. dhcpPool'[g.ip] = e /\ (\A j \in DhcpIps : j # g.ip => dhcpPool'[j] = dhcpPool[j]) /\ e # Unused
      /\ e.mac = g.mac /\ e.refresh = t /\ e.stale = dhcpPool[g.ip].stale /\ e.state = "OFFERED"
  BY <1>2, <1>3, <1>4, WritesFacts, NoneIsNone
<1>7. \A ip : Acknowledging(ip)' <=> Acknowledging(ip)
  BY <1>1 DEF Acknowledging
<1>8. TablesAgree'
  BY <1>1, <1>3, <1>6, TablesStay DEF LeaseInv
<1>9. TimersOwned'
  <2>1. ASSUME NEW i \in 1..MaxDhcpTimers, Armed(i)'
        PROVE  Owns(i, dhcpTimer[i].ip)'
    <3>1. CASE i = t
      BY <1>5, <1>6, <3>1 DEF Owns
    <3>2. CASE i # t
      <4>1. Armed(i) /\ Owns(i, dhcpTimer[i].ip) /\ dhcpTimer[i].ip \in DhcpIps
        BY <1>5, <2>1, <3>2, TypedParts DEF Armed, LeaseInv, TimersOwned, TimerMap, TimerObject
      <4>2. dhcpTimer[i].ip = g.ip => dhcpTimer[i].kind = "stale"
        BY <1>4, <4>1 DEF Owns
      <4>. QED
        BY <1>3, <1>5, <1>6, <3>2, <4>1, <4>2 DEF Owns
    <3>. QED
      BY <3>1, <3>2
  <2>2. ASSUME NEW ip \in DhcpIps, dhcpPool'[ip] # Unused, dhcpPool'[ip].refresh # None
        PROVE  Refreshes(dhcpPool[ip].refresh, ip)' /\ dhcpPool'[ip].state = "OFFERED"
    <3>1. CASE ip = g.ip
      BY <1>5, <1>6, <3>1 DEF Refreshes
    <3>2. CASE ip # g.ip
      <4>1. dhcpPool'[ip] = dhcpPool[ip]
        BY <1>6, <3>2
      <4>2. Refreshes(dhcpPool[ip].refresh, ip) /\ dhcpPool[ip].state = "OFFERED" /\ dhcpPool[ip].refresh \in 1..MaxDhcpTimers
        BY <2>2, <4>1, EntryFacts DEF LeaseInv, TimersOwned
      <4>. QED
        BY <1>5, <4>1, <4>2 DEF Refreshes
    <3>. QED
      BY <3>1, <3>2
  <2>. QED
    BY <2>1, <2>2 DEF TimersOwned
<1>10. AllSettled'
  <2>1. ASSUME NEW ip \in DhcpIps, dhcpPool'[ip] # Unused, ~Acknowledging(ip)'
        PROVE  Settled(ip)'
    <3>1. CASE ip = g.ip
      BY <1>4, <1>5, <1>6, <1>7, <2>1, <3>1 DEF Settled
    <3>2. CASE ip # g.ip
      <4>1. dhcpPool'[ip] = dhcpPool[ip] /\ dhcpPool[ip] # Unused
        BY <1>6, <2>1, <3>2
      <4>2. Settled(ip)
        BY <1>7, <2>1, <4>1 DEF LeaseInv, AllSettled
      <4>3. dhcpPool[ip].refresh # None => dhcpPool[ip].refresh \in 1..MaxDhcpTimers /\ dhcpPool[ip].refresh # t
        BY <1>5, <4>1, EntryFacts DEF LeaseInv, TimersOwned, Refreshes
      <4>. QED
        BY <1>1, <1>5, <4>1, <4>2, <4>3 DEF Settled
    <3>. QED
      BY <3>1, <3>2
  <2>. QED
    BY <2>1 DEF AllSettled
<1>11. ASSUME NEW h \in dhcpTodo'
       PROVE  Finds(h)'
  <2>1. h \in dhcpTodo /\ h.op = "acked" /\ Finds(h)
    <3>1. h \in dhcpTodo /\ h # g /\ h.op # "lease"
      BY <1>1, <1>3, <1>11
    <3>2. h.op \notin {"offer", "stale"}
      BY <3>1, WriterFacts
    <3>. QED
      BY <3>1, <3>2, TodoFacts DEF LeaseInv
  <2>. QED
    BY <1>1, <2>1 DEF Finds
<1>12. OnePacket' /\ EmptyBefore'
  BY <1>1, <1>3 DEF LeaseInv, OnePacket, EmptyBefore
<1>. QED
  BY <1>8, <1>9, <1>10, <1>11, <1>12 DEF LeaseInv
\* The maps get the offer.
LEMMA OfferIsSafe ==
  ASSUME DhcpConstants, Typed, LeaseInv, NEW g \in dhcpTodo, OfferEntered(g)
  PROVE  LeaseInv'
<1>. DEFINE h == [op |-> "stale", mac |-> g.mac, ip |-> g.ip, xid |-> 0]
<1>1. /\ g.op = "offer" /\ dhcpTodo' = (dhcpTodo \ {g}) \cup {h} /\ UNCHANGED <<dhcpL3, dhcpTimer, dhcpHeld>>
      /\ dhcpMacIp' = [dhcpMacIp EXCEPT ![g.mac] = g.ip]
  BY DEF OfferEntered, dhcpInfraVars
<1>2. PICK e \in OfferedData :
         /\ Writes(g.ip, e) /\ e.mac = g.mac
         /\ e.stale = Ent(g.ip).stale /\ e.refresh = Ent(g.ip).refresh /\ e.state = Ent(g.ip).state
  BY OfferIs
<1>3. /\ dhcpL3.configured /\ g.ip \in DhcpIps /\ g.mac \in DhcpMacs /\ g.ip # None
      /\ dhcpTodo = {g}
      /\ dhcpPool[g.ip] = Unused /\ dhcpMacIp[g.mac] = None /\ Ent(g.ip).stale = None /\ Ent(g.ip).refresh = None
  BY <1>1, WriterFacts
<1>4. dhcpPool'[g.ip] = e /\ (\A j \in DhcpIps : j # g.ip => dhcpPool'[j] = dhcpPool[j]) /\ e # Unused
      /\ e.mac = g.mac /\ e.refresh = None /\ e.stale = None
  BY <1>2, <1>3, WritesFacts, NoneIsNone
<1>5. dhcpMacIp'[g.mac] = g.ip /\ \A m \in DhcpMacs : m # g.mac => dhcpMacIp'[m] = dhcpMacIp[m]
  BY <1>1, <1>3, TypedParts DEF AddressType
<1>6. dhcpHeld[g.mac] = None
  BY <1>3 DEF LeaseInv, TablesAgree
<1>7. dhcpTodo' = {h} /\ h.op = "stale" /\ h.mac = g.mac /\ h.ip = g.ip
  BY <1>1, <1>3
<1>. HIDE DEF h
<1>8. TablesAgree'
  <2>1. ASSUME NEW m \in DhcpMacs, dhcpMacIp'[m] # None
        PROVE  dhcpPool'[dhcpMacIp'[m]] # Unused /\ dhcpPool'[dhcpMacIp'[m]].mac = m
    <3>1. CASE m = g.mac
      BY <1>4, <1>5, <3>1
    <3>2. CASE m # g.mac
      <4>1. dhcpMacIp'[m] = dhcpMacIp[m] /\ dhcpMacIp[m] \in DhcpIps
        BY <1>5, <2>1, <3>2, TypedParts DEF AddressType
      <4>2. dhcpPool[dhcpMacIp[m]] # Unused /\ dhcpPool[dhcpMacIp[m]].mac = m
        BY <2>1, <4>1 DEF LeaseInv, TablesAgree
      <4>. QED
        BY <1>3, <1>4, <4>1, <4>2
    <3>. QED
      BY <3>1, <3>2
  <2>2. ASSUME NEW ip \in DhcpIps, dhcpPool'[ip] # Unused
        PROVE  dhcpPool'[ip].mac \in DhcpMacs /\ dhcpMacIp'[dhcpPool'[ip].mac] = ip
    <3>1. CASE ip = g.ip
      BY <1>3, <1>4, <1>5, <3>1
    <3>2. CASE ip # g.ip
      <4>1. dhcpPool'[ip] = dhcpPool[ip] /\ dhcpPool[ip].mac \in DhcpMacs /\ dhcpMacIp[dhcpPool[ip].mac] = ip /\ ip # None
        BY <1>4, <2>2, <3>2 DEF LeaseInv, TablesAgree, DhcpConstants
      <4>. QED
        BY <1>3, <1>5, <4>1
    <3>. QED
      BY <3>1, <3>2
  <2>3. \A m \in DhcpMacs : dhcpHeld'[m] # None => dhcpMacIp'[m] = dhcpHeld'[m]
    BY <1>1, <1>5, <1>6 DEF LeaseInv, TablesAgree
  <2>. QED
    BY <2>1, <2>2, <2>3 DEF TablesAgree
<1>9. TimersOwned'
  <2>1. ASSUME NEW i \in 1..MaxDhcpTimers, Armed(i)'
        PROVE  Owns(i, dhcpTimer[i].ip)'
    <3>1. Owns(i, dhcpTimer[i].ip) /\ dhcpTimer[i].ip \in DhcpIps
      BY <1>1, <2>1, TypedParts DEF Armed, LeaseInv, TimersOwned, TimerMap, TimerObject
    <3>. QED
      BY <1>1, <1>3, <1>4, <3>1 DEF Owns
  <2>2. ASSUME NEW ip \in DhcpIps, dhcpPool'[ip] # Unused, dhcpPool'[ip].refresh # None
        PROVE  Refreshes(dhcpPool[ip].refresh, ip)' /\ dhcpPool'[ip].state = "OFFERED"
    <3>1. ip # g.ip /\ dhcpPool'[ip] = dhcpPool[ip]
      BY <1>4, <2>2
    <3>2. Refreshes(dhcpPool[ip].refresh, ip) /\ dhcpPool[ip].state = "OFFERED"
      BY <2>2, <3>1 DEF LeaseInv, TimersOwned
    <3>. QED
      BY <1>1, <3>1, <3>2 DEF Refreshes
  <2>. QED
    BY <2>1, <2>2 DEF TimersOwned
<1>10. AllSettled'
  <2>1. ASSUME NEW ip \in DhcpIps, dhcpPool'[ip] # Unused
        PROVE  Settled(ip)'
    <3>1. CASE ip = g.ip
      BY <1>1, <1>3, <1>4, <1>6, <3>1 DEF Settled
    <3>2. CASE ip # g.ip
      <4>1. dhcpPool'[ip] = dhcpPool[ip] /\ dhcpPool[ip] # Unused
        BY <1>4, <2>1, <3>2
      <4>2. Settled(ip)
        BY <1>1, <1>3, <4>1 DEF LeaseInv, AllSettled, Acknowledging
      <4>. QED
        BY <1>1, <4>1, <4>2 DEF Settled
    <3>. QED
      BY <3>1, <3>2
  <2>. QED
    BY <2>1 DEF AllSettled
<1>11. Finds(h)'
  BY <1>1, <1>4, <1>5, <1>6, <1>7 DEF Finds
<1>12. OnePacket' /\ EmptyBefore'
  BY <1>1, <1>3, <1>7 DEF OnePacket, EmptyBefore
<1>. QED
  BY <1>7, <1>8, <1>9, <1>10, <1>11, <1>12 DEF LeaseInv

\* The end of an acknowledgement.
LEMMA SettledIsSafe ==
  ASSUME DhcpConstants, Typed, LeaseInv, NEW g \in dhcpTodo, RequestSettled(g)
  PROVE  LeaseInv'
<1>. DEFINE p == dhcpPool[g.ip]
<1>1. /\ g.op = "acked" /\ dhcpTodo' = dhcpTodo \ {g} /\ UNCHANGED <<dhcpL3, dhcpMacIp, dhcpHeld>>
  BY DEF RequestSettled, dhcpInfraVars
<1>2. /\ dhcpL3.configured /\ g.ip \in DhcpIps /\ g.mac \in DhcpMacs /\ g.ip # None
      /\ \A h \in dhcpTodo : h.ip = g.ip /\ h.mac = g.mac /\ (h.op = "acked" => h = g)
      /\ dhcpMacIp[g.mac] = g.ip /\ p # Unused /\ p.mac = g.mac /\ Ent(g.ip) = p
  BY <1>1, WriterFacts
<1>3. SettlesTimers(p)
  BY <1>2, SettledIs
<1>4. PICK e \in OfferedData :
         Writes(g.ip, e) /\ e.mac = p.mac /\ e.stale = None /\ e.refresh = p.refresh /\ e.state = p.state
  BY <1>2, SettledIs
<1>5. dhcpPool'[g.ip] = e /\ (\A j \in DhcpIps : j # g.ip => dhcpPool'[j] = dhcpPool[j]) /\ e # Unused
  BY <1>2, <1>4, WritesFacts, NoneIsNone
<1>6. p.refresh # None => Refreshes(p.refresh, g.ip) /\ p.state = "OFFERED" /\ p.refresh \in 1..MaxDhcpTimers
  BY <1>2, EntryFacts DEF LeaseInv, TimersOwned
<1>7. \A ip \in DhcpIps : dhcpPool[ip] # Unused /\ dhcpPool[ip].refresh # None =>
        Refreshes(dhcpPool[ip].refresh, ip) /\ dhcpPool[ip].state = "OFFERED" /\ dhcpPool[ip].refresh \in 1..MaxDhcpTimers
  BY EntryFacts DEF LeaseInv, TimersOwned
<1>8. TablesAgree'
  BY <1>1, <1>2, <1>4, <1>5, TablesStay DEF LeaseInv
<1>9. TimersOwned'
  <2>1. ASSUME NEW i \in 1..MaxDhcpTimers, Armed(i)'
        PROVE  Owns(i, dhcpTimer[i].ip)'
    <3>1. i # p.stale /\ SameTimer(dhcpTimer[i], dhcpTimer'[i]) /\ dhcpTimer[i] # NoTimer
      BY <1>3, <2>1 DEF SettlesTimers, Armed, SameTimer
    <3>2. CASE i = p.refresh
      <4>1. Refreshes(i, g.ip)
        BY <1>6, <3>2
      <4>2. dhcpTimer'[i].kind = "lease" /\ dhcpTimer'[i].ip = g.ip /\ dhcpTimer'[i].mac = p.mac
        BY <3>1, <4>1 DEF Refreshes, SameTimer
      <4>. QED
        BY <1>4, <1>5, <3>2, <4>2 DEF Owns
    <3>3. CASE i # p.refresh
      <4>1. dhcpTimer'[i] = dhcpTimer[i]
        BY <1>3, <3>1, <3>3 DEF SettlesTimers
      <4>2. Owns(i, dhcpTimer[i].ip) /\ dhcpTimer[i].ip \in DhcpIps
        BY <2>1, <4>1, TypedParts DEF Armed, LeaseInv, TimersOwned, TimerMap, TimerObject
      <4>3. dhcpTimer[i].ip # g.ip
        BY <3>1, <3>3, <4>2 DEF Owns
      <4>. QED
        BY <1>5, <4>1, <4>2, <4>3 DEF Owns
    <3>. QED
      BY <3>2, <3>3
  <2>2. ASSUME NEW ip \in DhcpIps, dhcpPool'[ip] # Unused, dhcpPool'[ip].refresh # None
        PROVE  Refreshes(dhcpPool[ip].refresh, ip)' /\ dhcpPool'[ip].state = "OFFERED"
    <3>1. dhcpPool[ip] # Unused /\ dhcpPool'[ip].refresh = dhcpPool[ip].refresh
          /\ dhcpPool'[ip].state = dhcpPool[ip].state /\ dhcpPool'[ip].mac = dhcpPool[ip].mac
      BY <1>2, <1>4, <1>5, <2>2
    <3>2. Refreshes(dhcpPool[ip].refresh, ip) /\ dhcpPool[ip].state = "OFFERED" /\ dhcpPool[ip].refresh \in 1..MaxDhcpTimers
      BY <1>7, <2>2, <3>1
    <3>3. SameTimer(dhcpTimer[dhcpPool[ip].refresh], dhcpTimer'[dhcpPool[ip].refresh])
      BY <1>3, <3>2 DEF SettlesTimers
    <3>. QED
      BY <3>1, <3>2, <3>3 DEF Refreshes, SameTimer
  <2>. QED
    BY <2>1, <2>2 DEF TimersOwned
<1>10. AllSettled'
  <2>1. ASSUME NEW ip \in DhcpIps, dhcpPool'[ip] # Unused
        PROVE  Settled(ip)'
    <3>1. CASE ip = g.ip
      <4>1. p.refresh # None => dhcpTimer'[p.refresh].current
        BY <1>3, <1>6 DEF SettlesTimers
      <4>. QED
        BY <1>4, <1>5, <3>1, <4>1 DEF Settled
    <3>2. CASE ip # g.ip
      <4>1. dhcpPool'[ip] = dhcpPool[ip] /\ dhcpPool[ip] # Unused
        BY <1>5, <2>1, <3>2
      <4>2. Settled(ip)
        BY <1>2, <3>2, <4>1 DEF LeaseInv, AllSettled, Acknowledging
      <4>3. ASSUME dhcpPool[ip].refresh # None
            PROVE  dhcpTimer'[dhcpPool[ip].refresh].current = dhcpTimer[dhcpPool[ip].refresh].current
        <5>1. Refreshes(dhcpPool[ip].refresh, ip) /\ dhcpPool[ip].refresh \in 1..MaxDhcpTimers
          BY <1>7, <4>1, <4>3
        <5>2. dhcpPool[ip].refresh # p.refresh
          BY <1>6, <3>2, <4>3, <5>1 DEF Refreshes
        <5>. QED
          BY <1>3, <5>1, <5>2 DEF SettlesTimers, Refreshes
      <4>. QED
        BY <1>1, <4>1, <4>2, <4>3 DEF Settled
    <3>. QED
      BY <3>1, <3>2
  <2>. QED
    BY <2>1 DEF AllSettled
<1>11. ASSUME NEW h \in dhcpTodo'
       PROVE  Finds(h)'
  <2>1. h \in dhcpTodo /\ h.op = "lease" /\ Finds(h) /\ h.ip = g.ip /\ h.mac = g.mac
    <3>1. h \in dhcpTodo /\ h # g /\ h.op # "acked" /\ h.ip = g.ip /\ h.mac = g.mac
      BY <1>1, <1>2, <1>11
    <3>2. h.op \notin {"offer", "stale"}
      BY <3>1, WriterFacts
    <3>. QED
      BY <3>1, <3>2, TodoFacts DEF LeaseInv
  <2>2. dhcpMacIp[g.mac] = g.ip /\ p.refresh = None
    BY <1>2, <2>1 DEF Finds
  <2>. QED
    BY <1>1, <1>4, <1>5, <2>1, <2>2 DEF Finds
<1>12. OnePacket' /\ EmptyBefore'
  BY <1>1, <1>2 DEF LeaseInv, OnePacket, EmptyBefore
<1>. QED
  BY <1>8, <1>9, <1>10, <1>11, <1>12 DEF LeaseInv
\* An entry goes, with nothing under way: its client uses it no longer and its
\* timers are stopped.
LEMMA ClearIsSafe ==
  ASSUME DhcpConstants, Typed, LeaseInv, dhcpTodo = {}, dhcpL3.configured, UNCHANGED <<dhcpL3, dhcpTodo>>,
         NEW ip \in DhcpIps, NEW mac \in DhcpMacs, dhcpPool[ip] # Unused, dhcpPool[ip].mac = mac,
         Clears(ip, mac), Slows(dhcpTimer, dhcpTimer'), Silent(dhcpPool[ip].stale), Silent(dhcpPool[ip].refresh),
         dhcpHeld'[mac] = None, \A m \in DhcpMacs : m # mac => dhcpHeld'[m] = dhcpHeld[m]
  PROVE  LeaseInv'
<1>1. dhcpPool'[ip] = Unused /\ (\A j \in DhcpIps : j # ip => dhcpPool'[j] = dhcpPool[j])
  BY WritesFacts DEF Clears
<1>2. dhcpMacIp'[mac] = None /\ (\A m \in DhcpMacs : m # mac => dhcpMacIp'[m] = dhcpMacIp[m])
  BY TypedParts DEF Clears, AddressType
<1>3. dhcpMacIp[mac] = ip
  BY DEF LeaseInv, TablesAgree
<1>4. \A j \in DhcpIps : dhcpPool'[j] # Unused =>
        /\ j # ip /\ dhcpPool'[j] = dhcpPool[j] /\ dhcpPool[j].mac \in DhcpMacs
        /\ dhcpMacIp[dhcpPool[j].mac] = j /\ dhcpPool[j].mac # mac
  BY <1>1, <1>3 DEF LeaseInv, TablesAgree
<1>5. TablesAgree'
  <2>1. ASSUME NEW m \in DhcpMacs, dhcpMacIp'[m] # None
        PROVE  dhcpPool'[dhcpMacIp'[m]] # Unused /\ dhcpPool'[dhcpMacIp'[m]].mac = m
    <3>1. m # mac /\ dhcpMacIp'[m] = dhcpMacIp[m] /\ dhcpMacIp[m] \in DhcpIps
      BY <1>2, <2>1, TypedParts DEF AddressType
    <3>2. dhcpPool[dhcpMacIp[m]] # Unused /\ dhcpPool[dhcpMacIp[m]].mac = m
      BY <2>1, <3>1 DEF LeaseInv, TablesAgree
    <3>. QED
      BY <1>1, <3>1, <3>2
  <2>2. \A j \in DhcpIps : dhcpPool'[j] # Unused => dhcpPool'[j].mac \in DhcpMacs /\ dhcpMacIp'[dhcpPool'[j].mac] = j
    BY <1>2, <1>4
  <2>3. \A m \in DhcpMacs : dhcpHeld'[m] # None => dhcpMacIp'[m] = dhcpHeld'[m]
    BY <1>2 DEF LeaseInv, TablesAgree
  <2>. QED
    BY <2>1, <2>2, <2>3 DEF TablesAgree
<1>6. \A j \in DhcpIps : dhcpPool'[j] # Unused /\ dhcpPool'[j].refresh # None =>
        /\ Refreshes(dhcpPool[j].refresh, j) /\ dhcpPool[j].state = "OFFERED" /\ dhcpPool[j].refresh \in 1..MaxDhcpTimers
  BY <1>4, EntryFacts DEF LeaseInv, TimersOwned
<1>7. TimersOwned'
  <2>1. ASSUME NEW i \in 1..MaxDhcpTimers, Armed(i)'
        PROVE  Owns(i, dhcpTimer[i].ip)'
    <3>1. Armed(i) /\ SameTimer(dhcpTimer[i], dhcpTimer'[i]) /\ dhcpTimer'[i].armed
      BY <2>1 DEF Slows, Armed, SameTimer
    <3>2. Owns(i, dhcpTimer[i].ip) /\ dhcpTimer[i].ip \in DhcpIps
      BY <3>1, TypedParts DEF Armed, LeaseInv, TimersOwned, TimerMap, TimerObject
    <3>3. dhcpTimer[i].ip # ip
      BY <3>1, <3>2 DEF Owns, Silent
    <3>4. /\ dhcpTimer'[i].kind = dhcpTimer[i].kind /\ dhcpTimer'[i].ip = dhcpTimer[i].ip
          /\ dhcpTimer'[i].mac = dhcpTimer[i].mac
      BY <3>1 DEF SameTimer, Armed
    <3>. QED
      BY <1>1, <3>2, <3>3, <3>4 DEF Owns
  <2>2. ASSUME NEW j \in DhcpIps, dhcpPool'[j] # Unused, dhcpPool'[j].refresh # None
        PROVE  Refreshes(dhcpPool[j].refresh, j)' /\ dhcpPool'[j].state = "OFFERED"
    <3>1. dhcpPool'[j] = dhcpPool[j]
      BY <1>4, <2>2
    <3>2. Refreshes(dhcpPool[j].refresh, j) /\ dhcpPool[j].state = "OFFERED" /\ dhcpPool[j].refresh \in 1..MaxDhcpTimers
      BY <1>6, <2>2
    <3>3. SameTimer(dhcpTimer[dhcpPool[j].refresh], dhcpTimer'[dhcpPool[j].refresh])
      BY <3>2 DEF Slows
    <3>. QED
      BY <3>1, <3>2, <3>3 DEF Refreshes, SameTimer
  <2>. QED
    BY <2>1, <2>2 DEF TimersOwned
<1>8. AllSettled'
  <2>1. ASSUME NEW j \in DhcpIps, dhcpPool'[j] # Unused
        PROVE  Settled(j)'
    <3>1. Settled(j) /\ dhcpPool'[j] = dhcpPool[j] /\ dhcpHeld'[dhcpPool[j].mac] = dhcpHeld[dhcpPool[j].mac]
      BY <1>4, <2>1 DEF LeaseInv, AllSettled, Acknowledging
    <3>2. ASSUME dhcpPool[j].refresh # None
          PROVE  dhcpTimer'[dhcpPool[j].refresh].current = dhcpTimer[dhcpPool[j].refresh].current
      BY <1>6, <2>1, <3>1, <3>2 DEF Refreshes, Slows
    <3>. QED
      BY <3>1, <3>2 DEF Settled
  <2>. QED
    BY <2>1 DEF AllSettled
<1>9. OnePacket' /\ (\A h \in dhcpTodo' : Finds(h)') /\ EmptyBefore'
  BY DEF OnePacket, EmptyBefore
<1>. QED
  BY <1>5, <1>7, <1>8, <1>9 DEF LeaseInv

\* What a timer that fires finds: its own entry, whose client has not been
\* acknowledged for it since.
LEMMA TimerFinds ==
  ASSUME DhcpConstants, Typed, LeaseInv, NEW t \in 1..MaxDhcpTimers, Armed(t)
  PROVE  /\ dhcpL3.configured /\ dhcpTimer[t].ip \in DhcpIps /\ dhcpTimer[t].mac \in DhcpMacs
         /\ Owns(t, dhcpTimer[t].ip) /\ Ent(dhcpTimer[t].ip) = dhcpPool[dhcpTimer[t].ip] /\ t # None
         /\ dhcpTodo = {} => Settled(dhcpTimer[t].ip)
         /\ dhcpHeld[dhcpTimer[t].mac] \in {None, dhcpTimer[t].ip}
<1>1. dhcpL3.configured
  BY DEF LeaseInv, EmptyBefore
<1>2. dhcpTimer[t] \in TimerObject
  BY TypedParts DEF Armed, TimerMap
<1>3. dhcpTimer[t].ip \in DhcpIps /\ dhcpTimer[t].mac \in DhcpMacs
  BY <1>2 DEF TimerObject
<1>4. Owns(t, dhcpTimer[t].ip)
  BY DEF LeaseInv, TimersOwned
<1>5. dhcpPool[dhcpTimer[t].ip] # Unused /\ dhcpPool[dhcpTimer[t].ip].mac = dhcpTimer[t].mac
  BY <1>4 DEF Owns
<1>6. dhcpMacIp[dhcpTimer[t].mac] = dhcpTimer[t].ip
  BY <1>3, <1>5 DEF LeaseInv, TablesAgree
<1>7. dhcpHeld[dhcpTimer[t].mac] \in {None, dhcpTimer[t].ip}
  BY <1>3, <1>6 DEF LeaseInv, TablesAgree
<1>8. dhcpTodo = {} => Settled(dhcpTimer[t].ip)
  BY <1>3, <1>5 DEF LeaseInv, AllSettled, Acknowledging
<1>. QED
  BY <1>1, <1>3, <1>4, <1>5, <1>7, <1>8, EntFacts

\* The offer runs out.
LEMMA StaleExpiryIsSafe ==
  ASSUME DhcpConstants, Typed, LeaseInv, NEW t \in 1..MaxDhcpTimers, removeStaleFunc(t), Ordinary'
  PROVE  LeaseInv'
<1>. DEFINE ip == dhcpTimer[t].ip
            mac == dhcpTimer[t].mac
<1>1. Armed(t) /\ dhcpTimer[t].kind = "stale" /\ Slows(dhcpTimer, dhcpTimer') /\ ~dhcpTimer'[t].armed
  BY StaleExpires
<1>2. /\ dhcpL3.configured /\ ip \in DhcpIps /\ mac \in DhcpMacs
      /\ Owns(t, ip) /\ Ent(ip) = dhcpPool[ip] /\ t # None
      /\ dhcpTodo = {} => Settled(ip)
      /\ dhcpHeld[mac] \in {None, ip}
  BY <1>1, TimerFinds
<1>3. dhcpPool[ip] # Unused /\ dhcpPool[ip].mac = mac /\ dhcpPool[ip].stale = t
  BY <1>1, <1>2 DEF Owns
<1>4. Clears(ip, mac) /\ Silent(dhcpPool[ip].stale) /\ dhcpEvents' = [dhcpEvents EXCEPT !.past = @ \cup Alone]
  BY <1>2, <1>3, StaleExpires
<1>5. dhcpTodo = {}
  BY <1>4, AloneIsNote, EventFacts, AloneMeans
<1>6. dhcpHeld[mac] = None /\ dhcpPool[ip].refresh = None
  BY <1>2, <1>3, <1>5 DEF Settled
<1>7. UNCHANGED <<dhcpL3, dhcpTodo, dhcpHeld>>
  BY DEF removeStaleFunc, dhcpInfraVars
<1>8. Silent(dhcpPool[ip].refresh)
  BY <1>6 DEF Silent
<1>. HIDE DEF ip, mac
<1>. QED
  BY <1>1, <1>2, <1>3, <1>4, <1>5, <1>6, <1>7, <1>8, ClearIsSafe

\* The lease runs out.
LEMMA LeaseExpiryIsSafe ==
  ASSUME DhcpConstants, Typed, LeaseInv, NEW t \in 1..MaxDhcpTimers, removeLeaseExpireFunc(t), Ordinary'
  PROVE  LeaseInv'
<1>. DEFINE ip == dhcpTimer[t].ip
            mac == dhcpTimer[t].mac
<1>1. /\ Armed(t) /\ dhcpTimer[t].kind = "lease" /\ Slows(dhcpTimer, dhcpTimer') /\ ~dhcpTimer'[t].armed
      /\ dhcpTimer[t].current => dhcpHeld[mac] # ip
  BY LeaseExpires
<1>2. /\ dhcpL3.configured /\ ip \in DhcpIps /\ mac \in DhcpMacs
      /\ Owns(t, ip) /\ Ent(ip) = dhcpPool[ip] /\ t # None
      /\ dhcpTodo = {} => Settled(ip)
      /\ dhcpHeld[mac] \in {None, ip}
  BY <1>1, TimerFinds
<1>3. dhcpPool[ip] # Unused /\ dhcpPool[ip].mac = mac /\ dhcpPool[ip].refresh = t
  BY <1>1, <1>2 DEF Owns
<1>4. /\ Clears(ip, mac) /\ Silent(dhcpPool[ip].stale) /\ Silent(dhcpPool[ip].refresh)
      /\ dhcpEvents' = [dhcpEvents EXCEPT !.past = @ \cup Alone]
  BY <1>2, <1>3, LeaseExpires
<1>5. dhcpTodo = {}
  BY <1>4, AloneIsNote, EventFacts, AloneMeans
<1>6. dhcpHeld[mac] = None
  BY <1>1, <1>2, <1>3, <1>5 DEF Settled
<1>7. UNCHANGED <<dhcpL3, dhcpTodo, dhcpHeld>>
  BY DEF removeLeaseExpireFunc, dhcpInfraVars
<1>. HIDE DEF ip, mac
<1>. QED
  BY <1>1, <1>2, <1>3, <1>4, <1>5, <1>6, <1>7, ClearIsSafe

\* The client gives its address back.
LEMMA ReleaseIsSafe ==
  ASSUME DhcpConstants, Typed, LeaseInv, NEW mac \in DhcpMacs, processDhcpRelease(mac), Ordinary'
  PROVE  LeaseInv'
<1>. DEFINE ip == dhcpMacIp[mac]
            what == Alone \cup (IF Ent(ip).stale # None THEN {"releasedOffer"} ELSE {})
<1>1. /\ dhcpL3.configured /\ ip # None /\ Happens(what) /\ dhcpTimer' = StopTimer(dhcpTimer, Ent(ip).refresh)
      /\ Delete(ip, mac) /\ dhcpHeld' = [dhcpHeld EXCEPT ![mac] = None] /\ UNCHANGED <<dhcpL3, dhcpTodo>>
  BY DEF processDhcpRelease, ReleaseStops, dhcpInfraVars
<1>2. what \in SUBSET Notes
  BY AloneIsNote DEF Notes
<1>3. what \subseteq dhcpEvents'.past
  BY <1>1, <1>2, EventFacts
<1>4. dhcpTodo = {} /\ Ent(ip).stale = None
  <2>1. dhcpTodo = {}
    BY <1>3, AloneMeans
  <2>2. Ent(ip).stale = None
    BY <1>3 DEF Ordinary
  <2>. QED
    BY <2>1, <2>2
<1>5. ip \in DhcpIps /\ dhcpPool[ip] # Unused /\ dhcpPool[ip].mac = mac
  BY <1>1, TypedParts DEF AddressType, LeaseInv, TablesAgree
<1>6. Ent(ip) = dhcpPool[ip] /\ Made(dhcpTimer, Ent(ip).refresh) /\ Ent(ip).refresh \in 0..MaxDhcpTimers
  BY <1>5, EntFacts, EntryFacts
<1>7. dhcpTimer \in TimerMap /\ MaxDhcpTimers \in Nat /\ Slows(dhcpTimer, dhcpTimer)
  BY TypedParts DEF Slows, SameTimer
<1>. HIDE DEF ip, what
<1>8. Slows(dhcpTimer, dhcpTimer') /\ Silent(dhcpPool[ip].refresh) /\ Silent(dhcpPool[ip].stale)
  BY <1>1, <1>4, <1>6, <1>7, StopSlows DEF Silent
<1>9. dhcpHeld'[mac] = None /\ \A m \in DhcpMacs : m # mac => dhcpHeld'[m] = dhcpHeld[m]
  BY <1>1, TypedParts DEF AddressType
<1>10. Clears(ip, mac)
  BY <1>1 DEF Clears, Delete, Writes
<1>. QED
  BY <1>1, <1>4, <1>5, <1>8, <1>9, <1>10, ClearIsSafe
\* An address is chosen for a client that has none.
LEMMA DiscoverIsSafe ==
  ASSUME DhcpConstants, Typed, LeaseInv, NEW mac \in DhcpMacs, NEW x \in DhcpXids, sendDhcpOffer(mac, x), Ordinary'
  PROVE  LeaseInv'
<1>1. UNCHANGED <<dhcpL3, dhcpPool, dhcpMacIp, dhcpTimer, dhcpHeld>>
  BY DEF sendDhcpOffer, dhcpInfraVars
<1>2. CASE ~dhcpL3.configured \/ ~dhcpConf.msg
  <2>1. UNCHANGED dhcpTodo
    BY <1>2 DEF sendDhcpOffer
  <2>. QED
    BY <1>1, <2>1, LeasesUntouched DEF dhcpLeases
<1>3. CASE dhcpL3.configured /\ dhcpConf.msg
  <2>1. PICK ip \in findUnusedIP : dhcpTodo' = dhcpTodo \cup {[op |-> "offer", mac |-> mac, ip |-> ip, xid |-> x]}
    BY <1>3 DEF sendDhcpOffer
  <2>2. dhcpMacIp[mac] = None /\ Happens(Alone)
    BY <1>3 DEF sendDhcpOffer
  <2>3. dhcpTodo = {}
    BY <2>2, AloneIsNote, EventFacts, AloneMeans
  <2>. DEFINE g == [op |-> "offer", mac |-> mac, ip |-> ip, xid |-> x]
  <2>4. dhcpTodo' = {g} /\ g.op = "offer" /\ g.mac = mac /\ g.ip = ip /\ dhcpPool[ip] = Unused
    BY <2>1, <2>3 DEF findUnusedIP
  <2>. HIDE DEF g
  <2>5. OnePacket' /\ Finds(g)'
    BY <1>1, <2>2, <2>4 DEF OnePacket, Finds
  <2>6. TablesAgree' /\ TimersOwned'
    BY <1>1 DEF LeaseInv, TablesAgree, TimersOwned, Armed, Owns, Refreshes
  <2>7. AllSettled'
    BY <1>1, <2>3 DEF LeaseInv, AllSettled, Settled, Acknowledging
  <2>8. EmptyBefore'
    BY <1>1, <1>3 DEF EmptyBefore
  <2>. QED
    BY <2>4, <2>5, <2>6, <2>7, <2>8 DEF LeaseInv
<1>. QED
  BY <1>2, <1>3

\* A client is acknowledged: a first request finds no lease timer yet.
LEMMA RequestIsSafe ==
  ASSUME DhcpConstants, Typed, LeaseInv, NEW mac \in DhcpMacs, NEW x \in DhcpXids, NEW ciaddr \in BOOLEAN,
         processDhcpRequest(mac, x, ciaddr), Ordinary'
  PROVE  LeaseInv'
<1>11. PICK ip \in DhcpIps \cup {None} : dhcpMacIp[mac] = ip
  BY TypedParts DEF AddressType
<1>. DEFINE what == Alone \cup (IF ~ciaddr /\ Ent(ip).state = "OFFERED" THEN {"requestAgain"} ELSE {})
            a == [op |-> "acked", mac |-> mac, ip |-> ip, xid |-> 0]
            l == [op |-> "lease", mac |-> mac, ip |-> ip, xid |-> 0]
<1>1. /\ dhcpL3.configured /\ ip # None /\ Happens(what) /\ sendDhcpAck(mac, ciaddr)
      /\ UNCHANGED <<dhcpL3, dhcpPool, dhcpMacIp>>
  BY <1>11 DEF processDhcpRequest, dhcpInfraVars
<1>2. what \in SUBSET Notes
  BY AloneIsNote DEF Notes
<1>3. what \subseteq dhcpEvents'.past
  BY <1>1, <1>2, EventFacts
<1>4. dhcpTodo = {}
  BY <1>3, AloneMeans
<1>5. ~ciaddr => Ent(ip).state # "OFFERED"
  BY <1>3 DEF Ordinary
<1>6. /\ dhcpHeld' = [dhcpHeld EXCEPT ![mac] = ip]
      /\ dhcpTodo' = {a} \cup (IF ciaddr THEN {} ELSE {l})
  BY <1>1, <1>4, <1>11 DEF sendDhcpAck
<1>7. Overtakes(ip)
  BY <1>1, <1>11, AckOvertakes
<1>8. ip \in DhcpIps /\ dhcpPool[ip] # Unused /\ dhcpPool[ip].mac = mac /\ Ent(ip) = dhcpPool[ip]
  BY <1>1, <1>11, EntFacts DEF LeaseInv, TablesAgree
<1>9. ~ciaddr => dhcpPool[ip].refresh = None
  BY <1>5, <1>8 DEF LeaseInv, TimersOwned
<1>10. a.op = "acked" /\ a.ip = ip /\ a.mac = mac /\ l.op = "lease" /\ l.ip = ip /\ l.mac = mac
  OBVIOUS
<1>. HIDE DEF a, l
<1>12. dhcpHeld'[mac] = ip /\ \A m \in DhcpMacs : m # mac => dhcpHeld'[m] = dhcpHeld[m]
  BY <1>6, TypedParts DEF AddressType
<1>13. TablesAgree'
  BY <1>1, <1>11, <1>12 DEF LeaseInv, TablesAgree
<1>14. \A j \in DhcpIps : dhcpPool[j] # Unused /\ dhcpPool[j].refresh # None =>
         Refreshes(dhcpPool[j].refresh, j) /\ dhcpPool[j].state = "OFFERED" /\ dhcpPool[j].refresh \in 1..MaxDhcpTimers
  BY EntryFacts DEF LeaseInv, TimersOwned
<1>15. TimersOwned'
  <2>1. ASSUME NEW i \in 1..MaxDhcpTimers, Armed(i)'
        PROVE  Owns(i, dhcpTimer[i].ip)'
    <3>1. Armed(i) /\ SameTimer(dhcpTimer[i], dhcpTimer'[i])
      BY <1>7, <2>1 DEF Overtakes, Armed, SameTimer
    <3>2. Owns(i, dhcpTimer[i].ip)
      BY <3>1 DEF LeaseInv, TimersOwned
    <3>3. /\ dhcpTimer'[i].kind = dhcpTimer[i].kind /\ dhcpTimer'[i].ip = dhcpTimer[i].ip
          /\ dhcpTimer'[i].mac = dhcpTimer[i].mac
      BY <3>1 DEF SameTimer, Armed
    <3>. QED
      BY <1>1, <3>2, <3>3 DEF Owns
  <2>2. ASSUME NEW j \in DhcpIps, dhcpPool'[j] # Unused, dhcpPool'[j].refresh # None
        PROVE  Refreshes(dhcpPool[j].refresh, j)' /\ dhcpPool'[j].state = "OFFERED"
    <3>1. Refreshes(dhcpPool[j].refresh, j) /\ dhcpPool[j].state = "OFFERED" /\ dhcpPool[j].refresh \in 1..MaxDhcpTimers
      BY <1>1, <1>14, <2>2
    <3>2. SameTimer(dhcpTimer[dhcpPool[j].refresh], dhcpTimer'[dhcpPool[j].refresh])
      BY <1>7, <3>1 DEF Overtakes
    <3>. QED
      BY <1>1, <3>1, <3>2 DEF Refreshes, SameTimer
  <2>. QED
    BY <2>1, <2>2 DEF TimersOwned
<1>16. Acknowledging(ip)'
  BY <1>6, <1>10 DEF Acknowledging
<1>17. AllSettled'
  <2>1. ASSUME NEW j \in DhcpIps, dhcpPool'[j] # Unused, j # ip
        PROVE  Settled(j)'
    <3>1. Settled(j) /\ dhcpPool[j].mac \in DhcpMacs /\ dhcpMacIp[dhcpPool[j].mac] = j
      BY <1>1, <1>4, <2>1 DEF LeaseInv, AllSettled, Acknowledging, TablesAgree
    <3>2. dhcpHeld'[dhcpPool[j].mac] = dhcpHeld[dhcpPool[j].mac]
      BY <1>11, <1>12, <2>1, <3>1
    <3>3. ASSUME dhcpPool[j].refresh # None
          PROVE  dhcpTimer'[dhcpPool[j].refresh].current = dhcpTimer[dhcpPool[j].refresh].current
      BY <1>1, <1>7, <1>14, <2>1, <3>3 DEF Refreshes, Overtakes
    <3>. QED
      BY <1>1, <3>1, <3>2, <3>3 DEF Settled
  <2>. QED
    BY <1>16, <2>1 DEF AllSettled
<1>18. ASSUME NEW h \in dhcpTodo'
       PROVE  Finds(h)'
  <2>1. CASE h = a
    BY <1>1, <1>10, <1>11, <2>1 DEF Finds
  <2>2. CASE ~ciaddr /\ h = l
    BY <1>1, <1>9, <1>10, <1>11, <1>16, <2>2 DEF Finds
  <2>. QED
    BY <1>6, <1>18, <2>1, <2>2
<1>19. OnePacket'
  BY <1>6, <1>10 DEF OnePacket
<1>20. EmptyBefore'
  BY <1>1 DEF EmptyBefore
<1>. QED
  BY <1>13, <1>15, <1>17, <1>18, <1>19, <1>20 DEF LeaseInv

\* A client that stops using its address.
LEMMA EndIsSafe ==
  ASSUME DhcpConstants, Typed, LeaseInv, NEW mac \in DhcpMacs, LeaseEnds(mac)
  PROVE  LeaseInv'
<1>1. dhcpHeld' = [dhcpHeld EXCEPT ![mac] = None] /\ UNCHANGED <<dhcpL3, dhcpPool, dhcpMacIp, dhcpTimer, dhcpTodo>>
  BY DEF LeaseEnds, dhcpInfraVars
<1>2. \A m \in DhcpMacs : dhcpHeld'[m] \in {None, dhcpHeld[m]}
  BY <1>1, TypedParts DEF AddressType
<1>3. OnePacket' /\ EmptyBefore' /\ TimersOwned'
  BY <1>1 DEF LeaseInv, OnePacket, EmptyBefore, TimersOwned, Armed, Owns, Refreshes
<1>4. TablesAgree'
  BY <1>1, <1>2 DEF LeaseInv, TablesAgree
<1>5. ASSUME NEW g \in dhcpTodo' PROVE Finds(g)'
  <2>1. Finds(g) /\ g.mac \in DhcpMacs /\ (Acknowledging(g.ip)' <=> Acknowledging(g.ip))
    BY <1>1, <1>5, TodoFacts DEF LeaseInv, Acknowledging
  <2>. QED
    BY <1>1, <1>2, <2>1 DEF Finds
<1>6. AllSettled'
  <2>1. ASSUME NEW ip \in DhcpIps, dhcpPool'[ip] # Unused, ~Acknowledging(ip)'
        PROVE  Settled(ip)'
    <3>1. Settled(ip) /\ dhcpPool[ip].mac \in DhcpMacs /\ ip # None
      BY <1>1, <2>1 DEF LeaseInv, AllSettled, Acknowledging, TablesAgree, DhcpConstants
    <3>. QED
      BY <1>1, <1>2, <3>1 DEF Settled
  <2>. QED
    BY <2>1 DEF AllSettled
<1>. QED
  BY <1>3, <1>4, <1>5, <1>6 DEF LeaseInv

-----------------------------------------------------------------------------
(* The theorems                                                            *)

\* What packets and timers do.
LEMMA LeaseStepIsSafe ==
  ASSUME DhcpConstants, IInv,
         \/ \E g \in dhcpTodo : \/ StartStaleEntryHandler(g) \/ StartLeaseEntryHandler(g)
                                \/ OfferEntered(g) \/ RequestSettled(g)
         \/ \E t \in 1..MaxDhcpTimers : removeStaleFunc(t) \/ removeLeaseExpireFunc(t)
         \/ \E m \in DhcpMacs : \/ processDhcpRelease(m) \/ LeaseEnds(m)
                                \/ \E x \in DhcpXids : \/ sendDhcpOffer(m, x)
                                                       \/ \E ciaddr \in BOOLEAN : processDhcpRequest(m, x, ciaddr)
  PROVE  IInv'
<1>1. Typed /\ (Ordinary => LeaseInv)
  BY DEF IInv
<1>2. Typed' /\ EventsGo
  BY <1>1, LeaseStepsTyped
<1>3. UNCHANGED dhcpInfraVars
  BY DEF StartStaleEntryHandler, StartLeaseEntryHandler, OfferEntered, RequestSettled, removeStaleFunc,
         removeLeaseExpireFunc, processDhcpRelease, LeaseEnds, sendDhcpOffer, processDhcpRequest
<1>4. Ordinary' => LeaseInv'
  <2>1. SUFFICES ASSUME Ordinary' PROVE LeaseInv'
    OBVIOUS
  <2>2. LeaseInv
    BY <1>1, <1>2, <2>1, OrdinaryStays DEF EventsGo
  <2>3. ASSUME NEW g \in dhcpTodo,
               StartStaleEntryHandler(g) \/ StartLeaseEntryHandler(g) \/ OfferEntered(g) \/ RequestSettled(g)
        PROVE  LeaseInv'
    BY <1>1, <2>2, <2>3, StaleStartIsSafe, LeaseStartIsSafe, OfferIsSafe, SettledIsSafe
  <2>4. ASSUME NEW t \in 1..MaxDhcpTimers, removeStaleFunc(t) \/ removeLeaseExpireFunc(t)
        PROVE  LeaseInv'
    BY <1>1, <2>1, <2>2, <2>4, StaleExpiryIsSafe, LeaseExpiryIsSafe
  <2>5. ASSUME NEW m \in DhcpMacs, processDhcpRelease(m) \/ LeaseEnds(m)
        PROVE  LeaseInv'
    BY <1>1, <2>1, <2>2, <2>5, ReleaseIsSafe, EndIsSafe
  <2>6. ASSUME NEW m \in DhcpMacs, NEW x \in DhcpXids,
               sendDhcpOffer(m, x) \/ \E ciaddr \in BOOLEAN : processDhcpRequest(m, x, ciaddr)
        PROVE  LeaseInv'
    BY <1>1, <2>1, <2>2, <2>6, DiscoverIsSafe, RequestIsSafe
  <2>. QED
    BY <2>3, <2>4, <2>5, <2>6
<1>5. dhcpEvents'.past \cap {"removed", "left"} = {} => PortInv'
  <2>1. SUFFICES ASSUME dhcpEvents'.past \cap {"removed", "left"} = {} PROVE PortInv'
    OBVIOUS
  <2>2. dhcpEvents.past \cap {"removed", "left"} = {}
    BY <1>2, <2>1 DEF EventsGo
  <2>3. PortInv
    BY <2>2 DEF IInv
  <2>. QED
    BY <1>3, <2>3 DEF PortInv, dhcpInfraVars
<1>. QED
  BY <1>2, <1>4, <1>5 DEF IInv

\* The invariant starts...
LEMMA InvariantStarts ==
  ASSUME DhcpConstants, DhcpInit
  PROVE  IInv
<1>. USE DEF DhcpInit, DhcpConstants
<1>5. /\ dhcpL3 \in [exists: BOOLEAN, configured: BOOLEAN] /\ ~dhcpL3.configured
      /\ dhcpConf \in [global: BOOLEAN, enable: BOOLEAN, msg: BOOLEAN]
  OBVIOUS
<1>6. dhcpPort \in [DhcpPorts -> [l3: BOOLEAN, rx: 0..MaxDhcpEvents, hdl: BOOLEAN]]
      /\ \A q \in DhcpPorts : dhcpPort[q].rx = 0 /\ ~dhcpPort[q].hdl
  BY <1>5
<1>1. DhcpTypeOK
  BY <1>5, <1>6 DEF DhcpTypeOK
<1>7. dhcpEvents \in [left: 0..MaxDhcpEvents, past: SUBSET Notes, crash: BOOLEAN] /\ dhcpEvents.left = MaxDhcpEvents
  OBVIOUS
<1>2. MoreTypes
  BY <1>5, <1>6, <1>7 DEF MoreTypes
<1>3. LeaseInv
  BY DEF DhcpInit, LeaseInv, OnePacket, Finds, TablesAgree, TimersOwned, AllSettled, EmptyBefore, Armed
<1>4. PortInv
  BY DEF DhcpInit, PortInv
<1>. QED
  BY <1>1, <1>2, <1>3, <1>4 DEF IInv, Typed

\* ... and stays.
THEOREM InductiveInvariant ==
  ASSUME DhcpConstants
  PROVE  DhcpSpec => []IInv
<1>1. ASSUME IInv, [DhcpNext]_dhcpVars
      PROVE  IInv'
  <2>1. CASE DhcpNext
    BY <1>1, <2>1, LeaseStepIsSafe, ConfigurationIsSafe DEF DhcpNext
  <2>2. CASE UNCHANGED dhcpVars
    <3>1. UNCHANGED dhcpLeases /\ UNCHANGED dhcpInfraVars /\ UNCHANGED dhcpEvents
      BY <2>2 DEF dhcpVars, dhcpLeases, dhcpInfraVars
    <3>2. Typed'
      BY <1>1, <2>2 DEF IInv, Typed, DhcpTypeOK, MoreTypes, dhcpVars
    <3>3. LeaseInv => LeaseInv'
      BY <3>1, LeasesUntouched DEF dhcpInfraVars
    <3>4. PortInv => PortInv'
      BY <3>1 DEF PortInv, dhcpInfraVars
    <3>5. (Ordinary' => LeaseInv') /\ (dhcpEvents'.past \cap {"removed", "left"} = {} => PortInv')
      BY <1>1, <3>1, <3>3, <3>4 DEF IInv, Ordinary
    <3>. QED
      BY <3>2, <3>5 DEF IInv
  <2>. QED
    BY <1>1, <2>1, <2>2
<1>2. DhcpInit => IInv
  BY InvariantStarts
<1>. QED
  BY <1>1, <1>2, PTL DEF DhcpSpec

(* Over every sequence of packets, timers, configuration and notifications  *)
(* in which packets are handled one after the other: two clients never use  *)
(* one address, an address in use is in the tables under its client, and a  *)
(* timer that runs has the entry it will look for; and whatever overlaps,   *)
(* nothing is received once the server is disabled, unless ports or the     *)
(* address went away under it.                                              *)
THEOREM DhcpServerIsSafe ==
  ASSUME DhcpConstants
  PROVE  DhcpSpec => []DhcpLeasesSafe
<1>1. ASSUME IInv PROVE DhcpLeasesSafe
  <2>1. DhcpTypeOK
    BY <1>1 DEF IInv, Typed
  <2>2. ASSUME Ordinary PROVE TablesAgree /\ TimersOwned /\ Typed
    BY <1>1, <2>2 DEF IInv, LeaseInv
  <2>3. AddressUsedOnce
    BY <2>2, TypedParts DEF AddressUsedOnce, TablesAgree, AddressType
  <2>4. LeaseIsRecorded
    BY <2>2 DEF LeaseIsRecorded, TablesAgree
  <2>5. TimersHaveEntry
    <3>1. SUFFICES ASSUME Ordinary, NEW t \in 1..MaxDhcpTimers, Armed(t)
                   PROVE  IF dhcpTimer[t].kind = "stale" THEN Ent(dhcpTimer[t].ip).stale # None ELSE Ent(dhcpTimer[t].ip).refresh # None
      BY DEF TimersHaveEntry
    <3>2. Owns(t, dhcpTimer[t].ip) /\ t # None
      BY <2>2, <3>1 DEF TimersOwned
    <3>. QED
      BY <3>2 DEF Owns, Ent
  <2>6. DisabledIsDeaf
    BY <1>1 DEF IInv, PortInv, DisabledIsDeaf
  <2>. QED
    BY <2>1, <2>3, <2>4, <2>5, <2>6 DEF DhcpLeasesSafe
<1>2. IInv => DhcpLeasesSafe
  BY <1>1
<1>. QED
  BY <1>2, InductiveInvariant, PTL

-----------------------------------------------------------------------------
(* The DHCP relay agent                                                    *)


\* The interfaces that relay.
Enables(e) == e # NoGbl /\ e.enable
EnabledIntfs == {i \in RelayIntfs : Enables(relayGbl[i])}

\* A place on the way from the reader to the sender: empty, or one announcement.
Place == {<<>>} \cup {<<i>> : i \in RelayIntfs \cup {"uplink"}}

Entries == [RelayIntfs -> Gbl \cup {NoGbl}]

\* Of the tables.  Every change of the reference count is an event.
TableInv ==
  /\ relayGbl \in Entries /\ relayLinux \subseteq RelayIntfs
  /\ relayOn \in BOOLEAN /\ relayConn \in BOOLEAN
  /\ relayDb \in [global: BOOLEAN, intf: Entries]
  /\ relayEvents.left \in 0..MaxRelayEvents
  /\ relayRef \in Int
  /\ relayRef = NoMutex \/ (relayEvents.left - MaxRelayEvents =< relayRef /\ relayRef =< MaxRelayEvents - relayEvents.left)

\* Of the packets: whoever has an announcement finds a packet in the buffer,
\* and, if no packet was read too early, there is one announcement at most and
\* it belongs to that packet.
Announces(p) == relayBuf.type \in FromClient => p[1] = RelayHome[relayBuf.host]
PacketInv ==
  /\ relayRead \in Place /\ relayCh \in Place /\ relayProc \in Place
  /\ relayBuf \in RelayPkt \cup {NoPkt}
  /\ relayRead # <<>> \/ relayCh # <<>> \/ relayProc # <<>> => relayBuf \in RelayPkt
  /\ relayRev \in [RelayHosts -> RelayIntfs \cup {Nowhere}]
  /\ "overrun" \notin relayEvents.past =>
       /\ relayRead # <<>> => relayCh = <<>> /\ relayProc = <<>> /\ Announces(relayRead)
       /\ relayCh # <<>> => relayProc = <<>> /\ Announces(relayCh)
       /\ relayProc # <<>> => Announces(relayProc)
       /\ relaySent # NothingSent => relaySent.gw = RelayHome[relaySent.host]
       /\ \A h \in RelayHosts : relayRev[h] \in {Nowhere, RelayHome[h]}

\* Of the reference count: an enabled interface is in the configuration, so one
\* that is created was not counted before; before the counter is there, no
\* interface is enabled.
CountInv ==
  /\ \A i \in RelayIntfs : Enables(relayGbl[i]) => relayDb.intf[i] # NoGbl
  /\ relayEvents.past \cap {"switched", "restart"} = {} =>
       IF relayRef = NoMutex THEN EnabledIntfs = {} ELSE relayRef = Cardinality(EnabledIntfs)

RelayIInv == TableInv /\ PacketInv /\ CountInv

-----------------------------------------------------------------------------
(* Entries, events and counting                                             *)

LEMMA NoGblIsNoEntry == NoGbl \notin Gbl
BY DEF NoGbl, Gbl

\* An event is counted and remembered.
LEMMA OccursCounts ==
  ASSUME RelayConstants, TableInv, NEW what, Occurs(what)
  PROVE  /\ relayEvents'.left \in 0..MaxRelayEvents
         /\ relayEvents'.left = relayEvents.left - 1
         /\ relayEvents'.past = relayEvents.past \cup what
BY DEF RelayConstants, TableInv, Occurs

\* The invariant of the tables does not mind the count of events going down.
LEMMA EnabledIsFinite ==
  ASSUME RelayConstants
  PROVE  IsFiniteSet(EnabledIntfs) /\ Cardinality(EnabledIntfs) \in Nat
<1>1. EnabledIntfs \subseteq RelayIntfs
  BY DEF EnabledIntfs
<1>2. IsFiniteSet(EnabledIntfs)
  BY <1>1, FS_Subset DEF RelayConstants
<1>3. QED
  BY <1>2, FS_CardinalityType

\* One entry is replaced.
LEMMA EntryReplaced ==
  ASSUME relayGbl \in Entries, NEW i \in RelayIntfs, NEW e \in Gbl \cup {NoGbl}, relayGbl' = [relayGbl EXCEPT ![i] = e]
  PROVE  /\ relayGbl' \in Entries
         /\ relayGbl'[i] = e
         /\ \A j \in RelayIntfs : j # i => relayGbl'[j] = relayGbl[j]
         /\ Enables(e) => EnabledIntfs' = EnabledIntfs \cup {i}
         /\ ~Enables(e) => EnabledIntfs' = EnabledIntfs \ {i}
<1>1. relayGbl' \in Entries /\ relayGbl'[i] = e /\ \A j \in RelayIntfs : j # i => relayGbl'[j] = relayGbl[j]
  BY DEF Entries
<1>2. EnabledIntfs' = {j \in RelayIntfs : Enables(relayGbl'[j])}
  BY DEF EnabledIntfs, Enables
<1>3. /\ Enables(e) => EnabledIntfs' = EnabledIntfs \cup {i}
      /\ ~Enables(e) => EnabledIntfs' = EnabledIntfs \ {i}
  BY <1>1, <1>2 DEF EnabledIntfs
<1>4. QED
  BY <1>1, <1>3

\* What does not touch the packets leaves their invariant.
LEMMA PacketsUntouched ==
  ASSUME PacketInv, UNCHANGED rest, relayEvents.past \subseteq relayEvents'.past
  PROVE  PacketInv'
BY DEF PacketInv, rest, Announces

\* What does not touch the entries, the configuration and the counter leaves the count.
LEMMA CountUntouched ==
  ASSUME CountInv, UNCHANGED <<relayGbl, relayDb, relayRef>>, relayEvents.past \subseteq relayEvents'.past
  PROVE  CountInv'
<1>1. EnabledIntfs' = EnabledIntfs
  BY DEF EnabledIntfs, Enables
<1>2. QED
  BY <1>1 DEF CountInv, Enables

-----------------------------------------------------------------------------
(* The packets                                                              *)

LEMMA RelayInitInv == RelayConstants /\ RelayInit => RelayIInv
<1>1. SUFFICES ASSUME RelayConstants, RelayInit PROVE RelayIInv
  OBVIOUS
<1>2. TableInv
  <2>1. relayOn \in BOOLEAN /\ relayConn \in BOOLEAN /\ relayDb.global \in BOOLEAN
    BY <1>1, Zenon DEF RelayInit
  <2>2. relayDb \in [global: BOOLEAN, intf: Entries]
    BY <1>1, <2>1 DEF RelayInit, Entries
  <2>3. QED
    BY <1>1, <2>1, <2>2 DEF RelayConstants, RelayInit, TableInv, Entries, NoMutex
<1>3. PacketInv
  BY <1>1 DEF RelayInit, PacketInv, Place
<1>4. EnabledIntfs = {} /\ relayRef = NoMutex
  BY <1>1 DEF RelayInit, EnabledIntfs, Enables
<1>5. CountInv
  BY <1>1, <1>4 DEF RelayInit, CountInv, Enables
<1>6. QED
  BY <1>2, <1>3, <1>5 DEF RelayIInv

LEMMA PacketReceived ==
  ASSUME RelayConstants, RelayIInv, NEW pkt \in RelayPkt, DhcpRelayAgentReceiveDhcpPkt(pkt)
  PROVE  RelayIInv'
<1> DEFINE what == IF relayCh = <<>> /\ relayProc = <<>> THEN {} ELSE {"overrun"}
           p == <<IF pkt.type \in FromClient THEN RelayHome[pkt.host] ELSE "uplink">>
<1>1. /\ relayRead = <<>> /\ Occurs(what) /\ relayBuf' = pkt /\ relayRead' = p
      /\ UNCHANGED <<relayTables, relayCh, relayProc, relayRev, relaySent>>
  BY DEF DhcpRelayAgentReceiveDhcpPkt
<1>2. /\ relayEvents'.left \in 0..MaxRelayEvents /\ relayEvents'.left = relayEvents.left - 1
      /\ relayEvents'.past = relayEvents.past \cup what
  BY <1>1, OccursCounts DEF RelayIInv
<1>3. pkt.host \in RelayHosts /\ RelayHome[pkt.host] \in RelayIntfs
  BY DEF RelayPkt, RelayConstants
<1>4. p \in Place /\ p # <<>> /\ (pkt.type \in FromClient => p[1] = RelayHome[pkt.host])
  BY <1>3 DEF Place
<1>5. what = {} => relayCh = <<>> /\ relayProc = <<>>
  OBVIOUS
<1>6. what = {} \/ what = {"overrun"}
  OBVIOUS
<1> HIDE DEF what, p
<1>7. PacketInv'
  <2>1. "overrun" \notin relayEvents'.past => "overrun" \notin relayEvents.past /\ relayCh = <<>> /\ relayProc = <<>>
    BY <1>2, <1>5, <1>6
  <2>2. QED
    BY <1>1, <1>4, <2>1 DEF RelayIInv, PacketInv, Announces
<1>8. TableInv'
  BY <1>1, <1>2 DEF RelayIInv, TableInv, relayTables, RelayConstants
<1>9. CountInv'
  BY <1>1, <1>2, CountUntouched DEF RelayIInv, relayTables
<1>10. QED
  BY <1>7, <1>8, <1>9 DEF RelayIInv

LEMMA AnnouncementMoves ==
  ASSUME RelayConstants, RelayIInv, Announce \/ DhcpRelayProcessReceivedBuf
  PROVE  RelayIInv'
<1>1. UNCHANGED <<relayTables, relayBuf, relayRev, relaySent, relayEvents>>
  BY DEF Announce, DhcpRelayProcessReceivedBuf
<1>2. PacketInv'
  <2>1. CASE Announce
    BY <2>1 DEF Announce, RelayIInv, PacketInv, Place, Announces
  <2>2. CASE DhcpRelayProcessReceivedBuf
    BY <2>2 DEF DhcpRelayProcessReceivedBuf, RelayIInv, PacketInv, Place, Announces
  <2>3. QED
    BY <2>1, <2>2
<1>3. TableInv'
  BY <1>1 DEF RelayIInv, TableInv, relayTables
<1>4. CountInv'
  BY <1>1, CountUntouched DEF RelayIInv, relayTables
<1>5. QED
  BY <1>2, <1>3, <1>4 DEF RelayIInv

\* What is sent, and what is learnt, is for the client's own interface.
LEMMA SentForTheRightInterface ==
  ASSUME RelayConstants, PacketInv, relayProc # <<>>, DhcpRelayAgentSendPacket(relayProc[1], relayBuf),
         UNCHANGED relayEvents
  PROVE  /\ relayRev' \in [RelayHosts -> RelayIntfs \cup {Nowhere}]
         /\ "overrun" \notin relayEvents'.past =>
              /\ relaySent' # NothingSent => relaySent'.gw = RelayHome[relaySent'.host]
              /\ \A h \in RelayHosts : relayRev'[h] \in {Nowhere, RelayHome[h]}
<1> DEFINE cm == relayProc[1]
<1>0. relayBuf \in RelayPkt /\ relayBuf.host \in RelayHosts
  BY DEF PacketInv, RelayPkt
<1>1. FromClient \cap FromServer = {}
  BY DEF FromClient, FromServer
<1>2. CASE /\ relayBuf.type \in FromClient /\ cm \in RelayIntfs
           /\ relayRev' = Learn(cm, relayBuf)
           /\ relaySent' = SendPacketToDhcpServer(cm, relayBuf)
  <2>1. relayRev' = [relayRev EXCEPT ![relayBuf.host] = cm]
    BY <1>2 DEF Learn
  <2>2. relaySent' = relaySent \/ (relaySent'.gw = cm /\ relaySent'.host = relayBuf.host)
    BY <1>2 DEF SendPacketToDhcpServer, SendDiscoverPacket, SendClientOptPacket
  <2>3. "overrun" \notin relayEvents.past => cm = RelayHome[relayBuf.host]
    BY <1>2 DEF PacketInv, Announces
  <2>4. relayRev' \in [RelayHosts -> RelayIntfs \cup {Nowhere}]
    BY <1>2, <2>1 DEF PacketInv
  <2>5. ASSUME "overrun" \notin relayEvents.past
        PROVE  \A h \in RelayHosts : relayRev'[h] \in {Nowhere, RelayHome[h]}
    BY <2>1, <2>3, <2>5, <1>0 DEF PacketInv
  <2>6. ASSUME "overrun" \notin relayEvents.past, relaySent' # NothingSent
        PROVE  relaySent'.gw = RelayHome[relaySent'.host]
    BY <2>2, <2>3, <2>6 DEF PacketInv
  <2>7. QED
    BY <2>4, <2>5, <2>6
<1>3. CASE /\ relayBuf.type \in FromServer /\ relayRev[relayBuf.host] # Nowhere
           /\ relaySent' = SendPacketToDhcpClient(relayRev[relayBuf.host], relayBuf)
           /\ relayRev' = Learn(cm, relayBuf)
  <2>1. relayRev' = relayRev
    BY <1>1, <1>3 DEF Learn
  <2>2. relaySent'.gw = relayRev[relayBuf.host] /\ relaySent'.host = relayBuf.host
    BY <1>3 DEF SendPacketToDhcpClient
  <2>3. QED
    BY <1>0, <1>3, <2>1, <2>2 DEF PacketInv
<1>4. CASE UNCHANGED <<relayRev, relaySent>>
  BY <1>4 DEF PacketInv
<1>5. QED
  BY <1>2, <1>3, <1>4 DEF DhcpRelayAgentSendPacket

LEMMA BufferRelayed ==
  ASSUME RelayConstants, RelayIInv, RelayFromBuffer
  PROVE  RelayIInv'
<1>1. /\ relayProc # <<>> /\ DhcpRelayAgentSendPacket(relayProc[1], relayBuf) /\ relayProc' = <<>>
      /\ relayBuf' = IF relayRead = <<>> /\ relayCh = <<>> THEN NoPkt ELSE relayBuf
      /\ UNCHANGED <<relayLinux, relayOn, relayConn, relayRef, relayDb, relayRead, relayCh, relayEvents>>
  BY DEF RelayFromBuffer
<1>2. PacketInv'
  <2>1. /\ relayRev' \in [RelayHosts -> RelayIntfs \cup {Nowhere}]
        /\ "overrun" \notin relayEvents'.past =>
              /\ relaySent' # NothingSent => relaySent'.gw = RelayHome[relaySent'.host]
              /\ \A h \in RelayHosts : relayRev'[h] \in {Nowhere, RelayHome[h]}
    BY <1>1, SentForTheRightInterface DEF RelayIInv
  <2>2. QED
    BY <1>1, <2>1 DEF RelayIInv, PacketInv, Place, Announces
<1>3. CASE UNCHANGED relayGbl
  <2>1. TableInv'
    BY <1>1, <1>3 DEF RelayIInv, TableInv
  <2>2. CountInv'
    BY <1>1, <1>3, CountUntouched DEF RelayIInv
  <2>3. QED
    BY <1>2, <2>1, <2>2 DEF RelayIInv
<1>4. CASE /\ relayRev[relayBuf.host] # Nowhere /\ Relays(relayRev[relayBuf.host])
           /\ relayGbl' = [relayGbl EXCEPT ![relayRev[relayBuf.host]].handle = "open"]
  <2> DEFINE i == relayRev[relayBuf.host]
             e == [relayGbl[i] EXCEPT !.handle = "open"]
  <2>1. i \in RelayIntfs
    BY <1>1, <1>4 DEF RelayIInv, PacketInv, RelayPkt
  <2>2. relayGbl[i] \in Gbl /\ relayGbl[i].enable
    BY <1>4, <2>1 DEF Relays, RelayIInv, TableInv, Entries
  <2>3. relayGbl' = [relayGbl EXCEPT ![i] = e]
    BY <1>4
  <2> HIDE DEF i
  <2>4. e \in Gbl /\ e.enable
    BY <2>2 DEF Gbl
  <2> HIDE DEF e
  <2>5. Enables(e) /\ i \in EnabledIntfs
    BY <2>1, <2>2, <2>4, NoGblIsNoEntry DEF Enables, EnabledIntfs
  <2>6. /\ relayGbl' \in Entries /\ relayGbl'[i] = e /\ \A j \in RelayIntfs : j # i => relayGbl'[j] = relayGbl[j]
        /\ EnabledIntfs' = EnabledIntfs
    <3>1. relayGbl \in Entries /\ e \in Gbl \cup {NoGbl}
      BY <2>4 DEF RelayIInv, TableInv
    <3>2. /\ relayGbl' \in Entries /\ relayGbl'[i] = e /\ \A j \in RelayIntfs : j # i => relayGbl'[j] = relayGbl[j]
          /\ Enables(e) => EnabledIntfs' = EnabledIntfs \cup {i}
      BY <2>1, <2>3, <3>1, EntryReplaced
    <3>3. QED
      BY <2>5, <3>2
  <2>7. TableInv'
    BY <1>1, <2>6 DEF RelayIInv, TableInv
  <2>8. \A j \in RelayIntfs : Enables(relayGbl'[j]) => relayDb.intf[j] # NoGbl
    BY <2>5, <2>6 DEF RelayIInv, CountInv, EnabledIntfs
  <2>9. CountInv'
    BY <1>1, <2>6, <2>8 DEF RelayIInv, CountInv, Enables
  <2>10. QED
    BY <1>2, <2>7, <2>9 DEF RelayIInv
<1>5. QED
  BY <1>1, <1>3, <1>4 DEF DhcpRelayAgentSendPacket

-----------------------------------------------------------------------------
(* The configuration                                                        *)

LEMMA GlobalConfigured ==
  ASSUME RelayConstants, RelayIInv, NEW enable \in BOOLEAN,
         DhcpRelayGlobalInit(enable) \/ UpdateDhcpRelayGlobal(enable)
  PROVE  RelayIInv'
<1>1. /\ Occurs({}) /\ relayOn' = enable /\ relayDb' = [relayDb EXCEPT !.global = enable]
      /\ UNCHANGED <<relayGbl, relayLinux, rest>>
      /\ relayConn' = relayConn \/ relayConn' = TRUE
      /\ relayRef' = relayRef \/ (relayRef = NoMutex /\ relayRef' = 0)
  BY DEF DhcpRelayGlobalInit, UpdateDhcpRelayGlobal
<1>2. /\ relayEvents'.left \in 0..MaxRelayEvents /\ relayEvents'.left = relayEvents.left - 1
      /\ relayEvents'.past = relayEvents.past
  <2>1. /\ relayEvents'.left \in 0..MaxRelayEvents /\ relayEvents'.left = relayEvents.left - 1
        /\ relayEvents'.past = relayEvents.past \cup {}
    BY <1>1, OccursCounts DEF RelayIInv
  <2>2. QED
    BY <2>1
<1>3. PacketInv'
  BY <1>1, <1>2, PacketsUntouched DEF RelayIInv
<1>4. relayDb' \in [global: BOOLEAN, intf: Entries] /\ relayDb'.intf = relayDb.intf
  BY <1>1 DEF RelayIInv, TableInv
<1>5. TableInv'
  <2>1. relayConn' \in BOOLEAN
    BY <1>1 DEF RelayIInv, TableInv
  <2>2. QED
    BY <1>1, <1>2, <1>4, <2>1 DEF RelayIInv, TableInv, RelayConstants
<1>6. EnabledIntfs' = EnabledIntfs
  BY <1>1 DEF EnabledIntfs, Enables
<1>7. CountInv'
  <2>1. relayRef' = 0 => relayRef' # NoMutex
    BY DEF NoMutex
  <2>2. EnabledIntfs = {} => Cardinality(EnabledIntfs) = 0
    BY FS_EmptySet
  <2>3. QED
    BY <1>1, <1>2, <1>4, <1>6, <2>1, <2>2 DEF RelayIInv, CountInv, Enables
<1>8. QED
  BY <1>3, <1>5, <1>7 DEF RelayIInv

LEMMA IntfCreated ==
  ASSUME RelayConstants, RelayIInv, NEW i \in RelayIntfs, NEW enable \in BOOLEAN, NEW S \in {{}, RelayServers},
         CreateDhcpRelayIntf(i, enable, S)
  PROVE  RelayIInv'
<1> DEFINE e == [relayGbl[i] EXCEPT !.enable = enable, !.servers = @ \cup S]
           d == [relayGbl[i] EXCEPT !.enable = enable, !.servers = S, !.handle = "nil", !.ip = FALSE]
<1>1. /\ relayGbl[i] # NoGbl /\ relayDb.intf[i] = NoGbl /\ Occurs({})
      /\ relayGbl' = [relayGbl EXCEPT ![i] = e]
      /\ relayRef' = CountEnabled(enable)
      /\ relayDb' = [relayDb EXCEPT !.intf[i] = d]
      /\ UNCHANGED <<relayLinux, relayOn, relayConn, rest>>
  BY DEF CreateDhcpRelayIntf, RelayIInv, TableInv, Entries
<1>2. /\ relayEvents'.left \in 0..MaxRelayEvents /\ relayEvents'.left = relayEvents.left - 1
      /\ relayEvents'.past = relayEvents.past
  <2>1. /\ relayEvents'.left \in 0..MaxRelayEvents /\ relayEvents'.left = relayEvents.left - 1
        /\ relayEvents'.past = relayEvents.past \cup {}
    BY <1>1, OccursCounts DEF RelayIInv
  <2>2. QED
    BY <2>1
<1>3. relayGbl \in Entries /\ relayGbl[i] \in Gbl
  BY <1>1 DEF RelayIInv, TableInv, Entries
<1>4. e \in Gbl \cup {NoGbl} /\ e \in Gbl /\ e.enable = enable
  BY <1>3 DEF Gbl
<1>5. d \in Gbl
  BY <1>3 DEF Gbl
<1> HIDE DEF e, d
<1>6. Enables(e) <=> enable
  BY <1>4, NoGblIsNoEntry DEF Enables
<1>7. /\ relayGbl' \in Entries /\ relayGbl'[i] = e /\ \A j \in RelayIntfs : j # i => relayGbl'[j] = relayGbl[j]
      /\ Enables(e) => EnabledIntfs' = EnabledIntfs \cup {i}
      /\ ~Enables(e) => EnabledIntfs' = EnabledIntfs \ {i}
  BY <1>1, <1>3, <1>4, EntryReplaced
<1>8. /\ relayDb' \in [global: BOOLEAN, intf: Entries] /\ relayDb'.intf[i] = d
      /\ \A j \in RelayIntfs : j # i => relayDb'.intf[j] = relayDb.intf[j]
  BY <1>1, <1>5 DEF RelayIInv, TableInv, Entries
<1>9. i \notin EnabledIntfs
  BY <1>1 DEF RelayIInv, CountInv, EnabledIntfs
<1>10. /\ relayRef' \in Int
       /\ relayRef' = NoMutex \/ (relayEvents'.left - MaxRelayEvents =< relayRef' /\ relayRef' =< MaxRelayEvents - relayEvents'.left)
  BY <1>1, <1>2 DEF CountEnabled, RelayIInv, TableInv, RelayConstants
<1>11. TableInv'
  BY <1>1, <1>2, <1>7, <1>8, <1>10 DEF RelayIInv, TableInv
<1>12. PacketInv'
  BY <1>1, <1>2, PacketsUntouched DEF RelayIInv
<1>13. CountInv'
  <2>1. \A j \in RelayIntfs : Enables(relayGbl'[j]) => relayDb'.intf[j] # NoGbl
    BY <1>5, <1>7, <1>8, NoGblIsNoEntry DEF RelayIInv, CountInv
  <2>2. ASSUME relayEvents.past \cap {"switched", "restart"} = {}
        PROVE  relayRef' # NoMutex /\ relayRef' = Cardinality(EnabledIntfs')
    <3>1. IsFiniteSet(EnabledIntfs) /\ Cardinality(EnabledIntfs) \in Nat
      BY EnabledIsFinite
    <3>2. relayRef' = Cardinality(EnabledIntfs) + (IF enable THEN 1 ELSE 0)
      <4>1. CASE relayRef = NoMutex
        BY <1>1, <2>2, <4>1, FS_EmptySet DEF RelayIInv, CountInv, CountEnabled
      <4>2. CASE relayRef # NoMutex
        BY <1>1, <2>2, <4>2 DEF RelayIInv, CountInv, CountEnabled
      <4>3. QED
        BY <4>1, <4>2
    <3>3. CASE enable
      <4>1. Cardinality(EnabledIntfs \cup {i}) = Cardinality(EnabledIntfs) + 1
        BY <1>9, <3>1, FS_AddElement
      <4>2. EnabledIntfs' = EnabledIntfs \cup {i}
        BY <1>6, <1>7, <3>3
      <4>3. relayRef' = Cardinality(EnabledIntfs) + 1
        BY <3>2, <3>3
      <4>4. QED
        BY <3>1, <4>1, <4>2, <4>3 DEF NoMutex
    <3>4. CASE ~enable
      <4>1. EnabledIntfs' = EnabledIntfs
        BY <1>6, <1>7, <1>9, <3>4
      <4>2. QED
        BY <3>1, <3>2, <3>4, <4>1 DEF NoMutex
    <3>5. QED
      BY <3>3, <3>4
  <2>3. QED
    BY <1>2, <2>1, <2>2 DEF CountInv, Enables
<1>14. QED
  BY <1>11, <1>12, <1>13 DEF RelayIInv

LEMMA IntfUpdated ==
  ASSUME RelayConstants, RelayIInv, NEW i \in RelayIntfs, NEW enable \in BOOLEAN, NEW S \in {{}, RelayServers},
         UpdateDhcpRelayIntf(i, enable, S)
  PROVE  RelayIInv'
<1> DEFINE e == [relayGbl[i] EXCEPT !.enable = enable, !.servers = S]
           d == [relayDb.intf[i] EXCEPT !.enable = enable, !.servers = S]
           what == IF enable # relayGbl[i].enable THEN {"switched"} ELSE {}
<1>1. /\ relayGbl[i] # NoGbl /\ relayDb.intf[i] # NoGbl /\ Occurs(what)
      /\ relayGbl' = [relayGbl EXCEPT ![i] = e]
      /\ relayDb' = [relayDb EXCEPT !.intf[i] = d]
      /\ UNCHANGED <<relayLinux, relayOn, relayConn, relayRef, rest>>
  BY DEF UpdateDhcpRelayIntf, RelayIInv, TableInv, Entries
<1>2. /\ relayEvents'.left \in 0..MaxRelayEvents /\ relayEvents'.left = relayEvents.left - 1
      /\ relayEvents'.past = relayEvents.past \cup what
  BY <1>1, OccursCounts DEF RelayIInv
<1>3. relayGbl \in Entries /\ relayGbl[i] \in Gbl /\ relayDb.intf[i] \in Gbl
  BY <1>1 DEF RelayIInv, TableInv, Entries
<1>4. e \in Gbl \cup {NoGbl} /\ e \in Gbl /\ e.enable = enable
  BY <1>3 DEF Gbl
<1>5. d \in Gbl
  BY <1>3 DEF Gbl
<1>6. "switched" \notin what => enable = relayGbl[i].enable
  OBVIOUS
<1> HIDE DEF e, d, what
<1>7. /\ relayGbl' \in Entries /\ relayGbl'[i] = e /\ \A j \in RelayIntfs : j # i => relayGbl'[j] = relayGbl[j]
      /\ Enables(e) => EnabledIntfs' = EnabledIntfs \cup {i}
      /\ ~Enables(e) => EnabledIntfs' = EnabledIntfs \ {i}
  BY <1>1, <1>3, <1>4, EntryReplaced
<1>8. /\ relayDb' \in [global: BOOLEAN, intf: Entries] /\ relayDb'.intf[i] = d
      /\ \A j \in RelayIntfs : j # i => relayDb'.intf[j] = relayDb.intf[j]
  BY <1>1, <1>5 DEF RelayIInv, TableInv, Entries
<1>9. TableInv'
  BY <1>1, <1>2, <1>7, <1>8 DEF RelayIInv, TableInv, RelayConstants
<1>10. PacketInv'
  BY <1>1, <1>2, PacketsUntouched DEF RelayIInv
<1>11. CountInv'
  <2>1. \A j \in RelayIntfs : Enables(relayGbl'[j]) => relayDb'.intf[j] # NoGbl
    BY <1>5, <1>7, <1>8, NoGblIsNoEntry DEF RelayIInv, CountInv
  <2>2. ASSUME relayEvents'.past \cap {"switched", "restart"} = {}
        PROVE  relayEvents.past \cap {"switched", "restart"} = {} /\ EnabledIntfs' = EnabledIntfs
    <3>1. relayEvents.past \cap {"switched", "restart"} = {} /\ "switched" \notin what
      BY <1>2, <2>2
    <3>2. Enables(e) <=> i \in EnabledIntfs
      BY <1>1, <1>4, <1>6, <3>1, NoGblIsNoEntry DEF Enables, EnabledIntfs
    <3>3. QED
      BY <1>7, <3>1, <3>2
  <2>3. QED
    BY <1>1, <2>1, <2>2 DEF RelayIInv, CountInv, Enables
<1>12. QED
  BY <1>9, <1>10, <1>11 DEF RelayIInv

LEMMA IntfDeleted ==
  ASSUME RelayConstants, RelayIInv, NEW i \in RelayIntfs, DeleteDhcpRelayIntf(i)
  PROVE  RelayIInv'
<1> DEFINE e == [relayGbl[i] EXCEPT !.enable = FALSE, !.handle = "nil"]
           what == IF relayGbl[i].enable THEN {} ELSE {"switched"}
<1>1. /\ relayGbl[i] # NoGbl /\ relayRef # NoMutex /\ Occurs(what)
      /\ relayGbl' = [relayGbl EXCEPT ![i] = e] /\ relayRef' = relayRef - 1
      /\ relayDb' = [relayDb EXCEPT !.intf[i] = NoGbl]
      /\ UNCHANGED <<relayLinux, relayOn, relayConn, rest>>
  BY DEF DeleteDhcpRelayIntf, RelayIInv, TableInv, Entries
<1>2. /\ relayEvents'.left \in 0..MaxRelayEvents /\ relayEvents'.left = relayEvents.left - 1
      /\ relayEvents'.past = relayEvents.past \cup what
  BY <1>1, OccursCounts DEF RelayIInv
<1>3. relayGbl \in Entries /\ relayGbl[i] \in Gbl
  BY <1>1 DEF RelayIInv, TableInv, Entries
<1>4. e \in Gbl \cup {NoGbl} /\ ~e.enable
  BY <1>3 DEF Gbl
<1>5. "switched" \notin what => relayGbl[i].enable
  OBVIOUS
<1> HIDE DEF e, what
<1>6. ~Enables(e)
  BY <1>4 DEF Enables
<1>7. /\ relayGbl' \in Entries /\ relayGbl'[i] = e /\ \A j \in RelayIntfs : j # i => relayGbl'[j] = relayGbl[j]
      /\ EnabledIntfs' = EnabledIntfs \ {i}
  BY <1>1, <1>3, <1>4, <1>6, EntryReplaced
<1>8. /\ relayDb' \in [global: BOOLEAN, intf: Entries]
      /\ \A j \in RelayIntfs : j # i => relayDb'.intf[j] = relayDb.intf[j]
  BY <1>1 DEF RelayIInv, TableInv, Entries
<1>9. TableInv'
  BY <1>1, <1>2, <1>7, <1>8 DEF RelayIInv, TableInv, RelayConstants
<1>10. PacketInv'
  BY <1>1, <1>2, PacketsUntouched DEF RelayIInv
<1>11. CountInv'
  <2>1. \A j \in RelayIntfs : Enables(relayGbl'[j]) => relayDb'.intf[j] # NoGbl
    BY <1>6, <1>7, <1>8 DEF RelayIInv, CountInv
  <2>2. ASSUME relayEvents'.past \cap {"switched", "restart"} = {}
        PROVE  relayRef' # NoMutex /\ relayRef' = Cardinality(EnabledIntfs')
    <3>1. relayEvents.past \cap {"switched", "restart"} = {} /\ "switched" \notin what
      BY <1>2, <2>2
    <3>2. i \in EnabledIntfs
      BY <1>1, <1>5, <3>1 DEF Enables, EnabledIntfs
    <3>3. relayRef = Cardinality(EnabledIntfs)
      BY <1>1, <3>1 DEF RelayIInv, CountInv
    <3>4. IsFiniteSet(EnabledIntfs) /\ Cardinality(EnabledIntfs) \in Nat
      BY EnabledIsFinite
    <3>5. Cardinality(EnabledIntfs \ {i}) = Cardinality(EnabledIntfs) - 1 /\ Cardinality(EnabledIntfs \ {i}) \in Nat
      BY <3>2, <3>4, FS_RemoveElement, FS_CardinalityType
    <3>6. QED
      BY <1>1, <1>7, <3>3, <3>5 DEF NoMutex
  <2>3. QED
    BY <2>1, <2>2 DEF CountInv, Enables
<1>12. QED
  BY <1>9, <1>10, <1>11 DEF RelayIInv

LEMMA AddressChanged ==
  ASSUME RelayConstants, RelayIInv, NEW i \in RelayIntfs, NEW create \in BOOLEAN,
         DhcpRelayAgentUpdateIntfPortMap(i, create)
  PROVE  RelayIInv'
<1> DEFINE e == IF create THEN [InitGblHandling(relayGbl[i], FALSE) EXCEPT !.ip = TRUE] ELSE NoGbl
           what == IF relayGbl[i] # NoGbl /\ relayGbl[i].enable THEN {"switched"} ELSE {}
<1>1. /\ Occurs(what) /\ relayGbl' = [relayGbl EXCEPT ![i] = e]
      /\ relayLinux' \in {relayLinux, relayLinux \cup {i}}
      /\ UNCHANGED <<relayOn, relayConn, relayRef, relayDb, rest>>
  BY DEF DhcpRelayAgentUpdateIntfPortMap, RelayIInv, TableInv, Entries
<1>2. /\ relayEvents'.left \in 0..MaxRelayEvents /\ relayEvents'.left = relayEvents.left - 1
      /\ relayEvents'.past = relayEvents.past \cup what
  BY <1>1, OccursCounts DEF RelayIInv
<1>3. relayGbl \in Entries /\ relayGbl[i] \in Gbl \cup {NoGbl}
  BY DEF RelayIInv, TableInv, Entries
<1>4. e \in Gbl \cup {NoGbl} /\ (e # NoGbl => ~e.enable)
  BY <1>3 DEF Gbl, InitGblHandling
<1>5. "switched" \notin what => ~Enables(relayGbl[i])
  BY DEF Enables
<1> HIDE DEF e, what
<1>6. ~Enables(e)
  BY <1>4 DEF Enables
<1>7. /\ relayGbl' \in Entries /\ relayGbl'[i] = e /\ \A j \in RelayIntfs : j # i => relayGbl'[j] = relayGbl[j]
      /\ EnabledIntfs' = EnabledIntfs \ {i}
  BY <1>1, <1>3, <1>4, <1>6, EntryReplaced
<1>8. TableInv'
  BY <1>1, <1>2, <1>7 DEF RelayIInv, TableInv, RelayConstants
<1>9. PacketInv'
  BY <1>1, <1>2, PacketsUntouched DEF RelayIInv
<1>10. CountInv'
  <2>1. \A j \in RelayIntfs : Enables(relayGbl'[j]) => relayDb'.intf[j] # NoGbl
    BY <1>1, <1>6, <1>7 DEF RelayIInv, CountInv
  <2>2. ASSUME relayEvents'.past \cap {"switched", "restart"} = {}
        PROVE  relayEvents.past \cap {"switched", "restart"} = {} /\ EnabledIntfs' = EnabledIntfs
    <3>1. relayEvents.past \cap {"switched", "restart"} = {} /\ "switched" \notin what
      BY <1>2, <2>2
    <3>2. i \notin EnabledIntfs
      BY <1>5, <3>1 DEF EnabledIntfs
    <3>3. QED
      BY <1>7, <3>1, <3>2
  <2>3. QED
    BY <1>1, <2>1, <2>2 DEF RelayIInv, CountInv, Enables
<1>11. QED
  BY <1>8, <1>9, <1>10 DEF RelayIInv

LEMMA Restarted ==
  ASSUME RelayConstants, RelayIInv, RestartRelay
  PROVE  RelayIInv'
<1>1. /\ relayEvents'.left \in 0..MaxRelayEvents /\ relayEvents'.left = relayEvents.left - 1
      /\ relayEvents'.past = relayEvents.past \cup {"restart"}
  BY OccursCounts DEF RelayIInv, RestartRelay
<1>2. TableInv'
  <2>1. relayDb.global \in BOOLEAN /\ relayDb.intf \in Entries
    BY DEF RelayIInv, TableInv
  <2>2. relayOn' \in BOOLEAN /\ relayConn' \in BOOLEAN
    BY <2>1 DEF RestartRelay
  <2>3. relayRef' \in Int /\ (relayRef' = NoMutex \/ relayRef' = 0)
    BY DEF RestartRelay, NoMutex
  <2>4. relayGbl' \in Entries /\ relayLinux' \subseteq RelayIntfs /\ relayDb' = relayDb
    BY <2>1 DEF RestartRelay
  <2>5. QED
    BY <1>1, <2>2, <2>3, <2>4 DEF RelayIInv, TableInv, RelayConstants
<1>3. PacketInv'
  BY <1>1 DEF RelayIInv, PacketInv, RestartRelay, Place
<1>4. CountInv'
  BY <1>1 DEF RelayIInv, CountInv, RestartRelay, Enables
<1>5. QED
  BY <1>2, <1>3, <1>4 DEF RelayIInv

-----------------------------------------------------------------------------
(* Theorems                                                                 *)

LEMMA RelayNextInv == RelayConstants /\ RelayIInv /\ [RelayNext]_relayVars => RelayIInv'
<1>1. SUFFICES ASSUME RelayConstants, RelayIInv, [RelayNext]_relayVars PROVE RelayIInv'
  OBVIOUS
<1>2. CASE UNCHANGED relayVars
  <2>1. TableInv'
    BY <1>1, <1>2 DEF relayVars, RelayIInv, TableInv
  <2>2. PacketInv'
    BY <1>1, <1>2, PacketsUntouched DEF relayVars, RelayIInv, rest
  <2>3. CountInv'
    BY <1>1, <1>2, CountUntouched DEF relayVars, RelayIInv
  <2>4. QED
    BY <2>1, <2>2, <2>3 DEF RelayIInv
<1>3. ASSUME NEW pkt \in RelayPkt, DhcpRelayAgentReceiveDhcpPkt(pkt)
      PROVE  RelayIInv'
  BY <1>1, <1>3, PacketReceived
<1>4. CASE Announce \/ DhcpRelayProcessReceivedBuf \/ RelayFromBuffer \/ RestartRelay
  BY <1>1, <1>4, AnnouncementMoves, BufferRelayed, Restarted
<1>5. ASSUME NEW enable \in BOOLEAN, DhcpRelayGlobalInit(enable) \/ UpdateDhcpRelayGlobal(enable)
      PROVE  RelayIInv'
  BY <1>1, <1>5, GlobalConfigured
<1>6. ASSUME NEW i \in RelayIntfs, DeleteDhcpRelayIntf(i)
      PROVE  RelayIInv'
  BY <1>1, <1>6, IntfDeleted
<1>7. ASSUME NEW i \in RelayIntfs, NEW b \in BOOLEAN, DhcpRelayAgentUpdateIntfPortMap(i, b)
      PROVE  RelayIInv'
  BY <1>1, <1>7, AddressChanged
<1>8. ASSUME NEW i \in RelayIntfs, NEW b \in BOOLEAN, NEW S \in {{}, RelayServers},
             CreateDhcpRelayIntf(i, b, S) \/ UpdateDhcpRelayIntf(i, b, S)
      PROVE  RelayIInv'
  BY <1>1, <1>8, IntfCreated, IntfUpdated
<1>9. QED
  BY <1>1, <1>2, <1>3, <1>4, <1>5, <1>6, <1>7, <1>8 DEF RelayNext

\* The inductive invariant holds in every reachable state.
THEOREM RelayInductiveInvariant ==
  ASSUME RelayConstants
  PROVE  RelaySpec => []RelayIInv
<1>1. RelayInit => RelayIInv
  BY RelayInitInv
<1>2. RelayIInv /\ [RelayNext]_relayVars => RelayIInv'
  BY RelayNextInv
<1>3. QED
  BY <1>1, <1>2, PTL DEF RelaySpec

\* A client's requests carry the gateway address of its own interface and its
\* answers leave there, as long as no packet is read while another is still to
\* be relayed out of the same buffer (dhcprelaydProtocol.go:759), and the
\* reference count that lets the reader run is the number of enabled
\* interfaces, as long as none was switched, deleted while disabled or restored
\* (dhcprelaydRPC.go:77): with any number of interfaces, clients and servers.
THEOREM RelayIsSafe ==
  ASSUME RelayConstants
  PROVE  RelaySpec => []RelaySafe
<1>1. RelayIInv => RelaySafe
  <2>1. SUFFICES ASSUME RelayIInv PROVE RelaySafe
    OBVIOUS
  <2>2. RelayTypeOK
    <3>1. relayRef = NoMutex \/ relayRef \in -MaxRelayEvents..MaxRelayEvents
      BY <2>1 DEF RelayIInv, TableInv, RelayConstants
    <3>2. Len(relayCh) =< 1
      <4>1. relayCh = <<>> \/ \E i \in RelayIntfs \cup {"uplink"} : relayCh = <<i>>
        BY <2>1 DEF RelayIInv, PacketInv, Place
      <4>2. CASE relayCh = <<>>
        BY <4>2
      <4>3. ASSUME NEW i \in RelayIntfs \cup {"uplink"}, relayCh = <<i>>
            PROVE  Len(relayCh) =< 1
        <5>1. Len(<<i>>) = 1
          OBVIOUS
        <5>2. QED
          BY <4>3, <5>1
      <4>4. QED
        BY <4>1, <4>2, <4>3
    <3>3. QED
      BY <2>1, <3>1, <3>2 DEF RelayIInv, TableInv, PacketInv, RelayTypeOK, Entries
  <2>3. RelaysForTheRightInterface
    BY <2>1 DEF RelayIInv, PacketInv, RelaysForTheRightInterface
  <2>4. CountsEnabledInterfaces
    BY <2>1 DEF RelayIInv, CountInv, CountsEnabledInterfaces, EnabledIntfs, Enables
  <2>5. QED
    BY <2>2, <2>3, <2>4 DEF RelaySafe
<1>2. QED
  BY <1>1, RelayInductiveInvariant, PTL

==============================================================================
