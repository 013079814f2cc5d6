------------------------------ MODULE OspfProofs ------------------------------
(***************************************************************************)
(* Proofs about the interfaces and the neighbours of ospfd.                *)
(*                                                                         *)
(* The interface state machines of the routers of one network, for any     *)
(* number of routers, any priorities and any number of disturbances:       *)
(* whatever order Hello goroutines, timers and reconfigurations come in,   *)
(* the state of an interface is its place in its last election, and a      *)
(* router that is not eligible elects itself neither DR nor BDR.  That all *)
(* routers agree once nothing is under way (AgreementWithoutTies) is       *)
(* checked by TLC only.                                                    *)
(*                                                                         *)
(* Two neighbours, for any databases and any number of packets and events: *)
(* the ends agree on who is the master, no thread stops and every entry    *)
(* has its timer, with the exceptions NeighborsSafe names.  That nothing   *)
(* is missing when a neighbour is Full (FullMissesNothing) is checked by   *)
(* TLC only.                                                               *)
(***************************************************************************)
EXTENDS OspfInterface, OspfNeighbor, FiniteSetTheorems, TLAPS

\* The state of an interface is what the last election, or the last
\* configuration, has made of it (NewState, Configured).
PlaceInElection(r, i) ==
    /\ i.state = IF ~i.on THEN "Down" ELSE IF i.state = "Waiting" THEN "Waiting" ELSE NewState(r, i)
    /\ ~PastWaiting(i) => i.dr = None /\ i.bdr = None

\* A router of priority 0 has made itself neither DR nor BDR: ElectBDR and
\* ElectDR both pass it over, also in the second round.
Willing(r, i) == i.prio = 0 => i.dr # r /\ i.bdr # r

NeverElectsUnwilling == \A r \in Router : Willing(r, intf[r])

\* What is inductive.  A goroutine remembers which WaitTimer it has seen: each
\* reconfiguration, which makes a new one, is a disturbance.
IInv ==
    /\ TypeOK
    /\ rx \in [Router -> SUBSET HelloGoroutine]
    /\ \A r \in Router : intf[r].gen =< disturbances
    /\ NeverElectsUnwilling

-----------------------------------------------------------------------------
(* The election                                                             *)

\* Only a candidate, or nobody, is the best.
LEMMA BestIsCandidate ==
    ASSUME NEW r, NEW i, NEW S, NEW c \in Best(r, i, S)
    PROVE  c \in S \cup {None}
BY DEF Best

\* A round elects eligible routers, or nobody, and changes nothing else of the
\* interface.
LEMMA RoundElects ==
    ASSUME NEW r \in Router, NEW i \in IntfConf, NEW j \in Round(r, i)
    PROVE  /\ j \in IntfConf
           /\ j.on = i.on /\ j.state = i.state /\ j.prio = i.prio /\ j.gen = i.gen
           /\ j.dr \in Eligible(r, i) \cup {None}
           /\ j.bdr \in Eligible(r, i) \cup {None}
<1>0. PICK b \in ElectBDR(r, i) : j \in {[i EXCEPT !.bdr = b, !.dr = d] : d \in ElectDR(r, i, b)}
  BY DEF Round
<1>1. PICK d \in ElectDR(r, i, b) : j = [i EXCEPT !.bdr = b, !.dr = d]
  BY <1>0
<1>2. b \in Eligible(r, i) \cup {None}
  BY BestIsCandidate DEF ElectBDR
<1>3. d \in Eligible(r, i) \cup {None}
  <2>1. CASE {s \in Eligible(r, i) : ClaimsDR(r, i, s)} # {}
    <3>1. d \in Best(r, i, {s \in Eligible(r, i) : ClaimsDR(r, i, s)})
      BY <2>1 DEF ElectDR
    <3>2. QED
      BY <3>1, BestIsCandidate
  <2>2. CASE {s \in Eligible(r, i) : ClaimsDR(r, i, s)} = {}
    BY <2>2, <1>2 DEF ElectDR
  <2>3. QED
    BY <2>1, <2>2
<1>4. Eligible(r, i) \subseteq Router
  BY DEF Eligible
<1>5. b \in Address /\ d \in Address
  BY <1>2, <1>3, <1>4 DEF Address
<1>6. QED
  BY <1>1, <1>2, <1>3, <1>5 DEF IntfConf

\* A router of priority 0 is not eligible in its own eyes.
LEMMA UnwillingIsNotEligible ==
    ASSUME NEW r \in Router, NEW i \in IntfConf, i.prio = 0
    PROVE  r \notin Eligible(r, i)
BY DEF Eligible, Prio

LEMMA NewStateIsElected ==
    ASSUME NEW r, NEW i
    PROVE  /\ NewState(r, i) \in IfState
           /\ NewState(r, i) \notin {"Down", "Waiting"}
BY DEF NewState, IfState

\* After an election the state is the place in it, whichever round was the last.
LEMMA ElectionSettles ==
    ASSUME NEW r \in Router, NEW i \in IntfConf, i.on, NEW e \in ElectBDRAndDR(r, i)
    PROVE  /\ e \in IntfConf
           /\ e.on /\ e.prio = i.prio /\ e.gen = i.gen
           /\ PlaceInElection(r, e)
           /\ Willing(r, e)
<1>1. PICK j \in Round(r, i), k \in IntfConf :
         /\ e = Settle(r, k)
         /\ k = j \/ k \in Round(r, j)
  <2>1. PICK j \in Round(r, i) :
          e \in IF /\ NewState(r, j) # i.state
                   /\ ~(NewState(r, j) = "OtherDesignatedRouter" /\ i.state \in {"Down", "Waiting"})
                THEN {Settle(r, k) : k \in Round(r, j)}
                ELSE {Settle(r, j)}
    BY DEF ElectBDRAndDR
  <2>2. j \in IntfConf
    BY RoundElects
  <2>3. \A k \in Round(r, j) : k \in IntfConf
    BY <2>2, RoundElects
  <2>4. QED
    BY <2>1, <2>2, <2>3
<1>2. /\ j \in IntfConf /\ j.on = i.on /\ j.prio = i.prio /\ j.gen = i.gen
      /\ j.dr \in Eligible(r, i) \cup {None} /\ j.bdr \in Eligible(r, i) \cup {None}
  BY RoundElects
<1>3. /\ k.on = i.on /\ k.prio = i.prio /\ k.gen = i.gen
      /\ \/ k.dr \in Eligible(r, i) \cup {None} /\ k.bdr \in Eligible(r, i) \cup {None}
         \/ k.dr \in Eligible(r, j) \cup {None} /\ k.bdr \in Eligible(r, j) \cup {None}
  <2>1. CASE k = j
    BY <2>1, <1>2
  <2>2. CASE k \in Round(r, j)
    BY <2>2, <1>2, RoundElects
  <2>3. QED
    BY <1>1, <2>1, <2>2
<1>4. r # None
  BY RouterAssumption DEF None
<1>5. Willing(r, k)
  <2>1. SUFFICES ASSUME k.prio = 0 PROVE k.dr # r /\ k.bdr # r
    BY DEF Willing
  <2>2. r \notin Eligible(r, i) /\ r \notin Eligible(r, j)
    BY <2>1, <1>2, <1>3, UnwillingIsNotEligible
  <2>3. QED
    BY <2>2, <1>3, <1>4
<1>6. NewState(r, k) \in IfState /\ NewState(r, k) \notin {"Down", "Waiting"}
  BY NewStateIsElected
<1>7. /\ e \in IntfConf /\ e.state = NewState(r, k)
      /\ e.on = k.on /\ e.prio = k.prio /\ e.gen = k.gen /\ e.dr = k.dr /\ e.bdr = k.bdr
  BY <1>1, <1>6 DEF Settle, IntfConf
<1>8. NewState(r, e) = NewState(r, k)
  BY <1>7 DEF NewState
<1>9. PlaceInElection(r, e)
  BY <1>3, <1>6, <1>7, <1>8 DEF PlaceInElection, PastWaiting
<1>10. Willing(r, e)
  BY <1>5, <1>7 DEF Willing
<1>11. QED
  BY <1>3, <1>7, <1>9, <1>10

\* What a message or a callback may leave of an interface that is on: the data
\* of a neighbour is replaced, and an election follows if the interface is past
\* its waiting and the condition of the handler holds.
LEMMA ElectSettles ==
    ASSUME NEW r \in Router, NEW i \in IntfConf, i.on, PlaceInElection(r, i), Willing(r, i),
           NEW n \in [Router -> NeighborData], NEW e,
           e = [i EXCEPT !.nbrs = n] \/ e \in ElectBDRAndDR(r, [i EXCEPT !.nbrs = n])
    PROVE  /\ e \in IntfConf
           /\ e.on /\ e.gen = i.gen
           /\ PlaceInElection(r, e)
           /\ Willing(r, e)
<1> DEFINE m == [i EXCEPT !.nbrs = n]
<1>1. /\ m \in IntfConf /\ m.on /\ m.gen = i.gen /\ m.state = i.state
      /\ m.prio = i.prio /\ m.dr = i.dr /\ m.bdr = i.bdr
  BY DEF IntfConf
<1>2. e = m \/ e \in ElectBDRAndDR(r, m)
  OBVIOUS
<1> HIDE DEF m
<1>3. CASE e \in ElectBDRAndDR(r, m)
  BY <1>3, <1>1, ElectionSettles
<1>4. CASE e = m
  <2>1. NewState(r, m) = NewState(r, i)
    BY <1>1 DEF NewState
  <2>2. PlaceInElection(r, m)
    BY <1>1, <2>1 DEF PlaceInElection, PastWaiting
  <2>3. Willing(r, m)
    BY <1>1 DEF Willing
  <2>4. QED
    BY <1>4, <1>1, <2>2, <2>3
<1>5. QED
  BY <1>2, <1>3, <1>4

-----------------------------------------------------------------------------
(* The inductive invariant, in two halves                                   *)

IntfInv ==
    /\ intf \in [Router -> IntfConf]
    /\ \A r \in Router : PlaceInElection(r, intf[r]) /\ Willing(r, intf[r]) /\ intf[r].gen =< disturbances

RestInv ==
    /\ known \in [Router -> SUBSET Router]
    /\ nsm \in [Router -> Address]
    /\ rx \in [Router -> SUBSET HelloGoroutine]
    /\ dead \in [Router -> [Router -> {"no", "tell", "delete"}]]
    /\ disturbances \in 0..MaxDisturbances

LEMMA Halves == IInv <=> IntfInv /\ RestInv
BY DEF IInv, TypeOK, IntfInv, RestInv, NeverElectsUnwilling, PlaceInElection

\* One interface is replaced.
LEMMA IntfReplaced ==
    ASSUME IntfInv, RestInv, NEW r \in Router, NEW e \in IntfConf,
           PlaceInElection(r, e), Willing(r, e),
           disturbances' \in 0..MaxDisturbances, disturbances =< disturbances', e.gen =< disturbances',
           intf' = [intf EXCEPT ![r] = e]
    PROVE  IntfInv'
<1>1. intf' \in [Router -> IntfConf] /\ intf'[r] = e
  BY DEF IntfInv
<1>2. ASSUME NEW q \in Router, q # r
      PROVE  intf'[q] = intf[q] /\ intf[q].gen \in Nat /\ disturbances \in Nat /\ disturbances' \in Nat
  BY <1>2, BoundAssumption DEF IntfInv, RestInv, IntfConf
<1>3. ASSUME NEW q \in Router
      PROVE  PlaceInElection(q, intf'[q]) /\ Willing(q, intf'[q]) /\ intf'[q].gen =< disturbances'
  <2>1. CASE q = r
    BY <2>1, <1>1
  <2>2. CASE q # r
    <3>1. PlaceInElection(q, intf[q]) /\ Willing(q, intf[q]) /\ intf[q].gen =< disturbances
      BY DEF IntfInv
    <3>2. QED
      BY <3>1, <2>2, <1>2
  <2>3. QED
    BY <2>1, <2>2
<1>4. (\A q \in Router : PlaceInElection(q, intf[q]) /\ Willing(q, intf[q]) /\ intf[q].gen =< disturbances)'
  BY <1>3 DEF PlaceInElection, Willing, NewState, PastWaiting
<1>5. QED
  BY <1>1, <1>4 DEF IntfInv

\* The interfaces, and the disturbances so far, stay as they are.
LEMMA IntfUnchanged ==
    ASSUME IntfInv, UNCHANGED <<intf, disturbances>>
    PROVE  IntfInv'
BY DEF IntfInv, PlaceInElection, Willing, NewState, PastWaiting

\* Only a disturbance more.
LEMMA IntfDisturbed ==
    ASSUME IntfInv, RestInv, UNCHANGED intf, disturbances' \in Nat, disturbances =< disturbances'
    PROVE  IntfInv'
<1>1. \A r \in Router : intf[r].gen \in Nat
  BY BoundAssumption DEF IntfInv, IntfConf
<1>2. disturbances \in Nat
  BY BoundAssumption DEF RestInv
<1>3. \A r \in Router : intf[r].gen =< disturbances'
  BY <1>1, <1>2 DEF IntfInv
<1>4. QED
  BY <1>3 DEF IntfInv, PlaceInElection, Willing, NewState, PastWaiting

LEMMA DisturbCounts ==
    ASSUME RestInv, NEW b, Disturb(b)
    PROVE  disturbances' \in 0..MaxDisturbances /\ disturbances =< disturbances'
BY BoundAssumption DEF RestInv, Disturb

LEMMA HelloIsTyped ==
    ASSUME IntfInv, NEW r \in Router, NEW s \in Router
    PROVE  BuildHelloPkt(s, r) \in NeighborData
BY DEF IntfInv, IntfConf, BuildHelloPkt, NeighborData

\* A goroutine of a Hello goes on, or ends.
LEMMA GoroutineGoesOn ==
    ASSUME RestInv, NEW r \in Router, NEW g \in rx[r], NEW pc \in {"create", "change", "nbr", "seen", "backup"},
           Advance(r, g, pc) \/ Finish(r, g)
    PROVE  rx' \in [Router -> SUBSET HelloGoroutine]
<1>1. g \in HelloGoroutine
  BY DEF RestInv
<1>2. [g EXCEPT !.pc = pc] \in HelloGoroutine
  BY <1>1 DEF HelloGoroutine
<1>3. (rx[r] \ {g}) \cup {[g EXCEPT !.pc = pc]} \in SUBSET HelloGoroutine /\ rx[r] \ {g} \in SUBSET HelloGoroutine
  BY <1>2 DEF RestInv
<1>4. rx \in [Router -> SUBSET HelloGoroutine]
  BY DEF RestInv
<1>5. PICK S \in SUBSET HelloGoroutine : rx' = [rx EXCEPT ![r] = S]
  BY <1>3 DEF Advance, Finish
<1>6. QED
  BY <1>4, <1>5

LEMMA GoroutineIsTyped ==
    ASSUME RestInv, NEW r \in Router, NEW g \in rx[r]
    PROVE  g.from \in Router /\ g.nbr \in NeighborData /\ g.gen \in 0..MaxDisturbances
BY DEF RestInv, HelloGoroutine

LEMMA NoNeighborIsTyped == NoNeighbor \in NeighborData
BY DEF NoNeighbor, NeighborData, Address

-----------------------------------------------------------------------------
(* The actions                                                              *)

LEMMA InitInv == Init => IInv
<1>1. SUFFICES ASSUME Init PROVE IntfInv /\ RestInv
  BY Halves
<1>2. ASSUME NEW r \in Router
      PROVE  /\ Configured(Priority[r], 0) \in IntfConf
             /\ PlaceInElection(r, Configured(Priority[r], 0))
             /\ Willing(r, Configured(Priority[r], 0))
             /\ Configured(Priority[r], 0).gen = 0
  BY NoNeighborIsTyped, RouterAssumption, PriorityAssumption, BoundAssumption
  DEF Configured, IntfConf, IfState, Address, None, PlaceInElection, PastWaiting, Willing
<1>3. IntfInv
  BY <1>1, <1>2 DEF Init, IntfInv
<1>4. RestInv
  BY <1>1, BoundAssumption DEF Init, RestInv, Address
<1>5. QED
  BY <1>3, <1>4

\* A message or a callback changes what is known of one neighbour.
LEMMA NeighborReplaced ==
    ASSUME IntfInv, RestInv, NEW r \in Router, NEW s \in Router, NEW d \in NeighborData, intf[r].on,
           UNCHANGED disturbances, NEW e, intf' = [intf EXCEPT ![r] = e],
           NEW m, m = [intf[r] EXCEPT !.nbrs[s] = d], e = m \/ e \in ElectBDRAndDR(r, m)
    PROVE  IntfInv'
<1> DEFINE n == [intf[r].nbrs EXCEPT ![s] = d]
<1>1. m = [intf[r] EXCEPT !.nbrs = n]
  OBVIOUS
<1>2. intf[r] \in IntfConf /\ PlaceInElection(r, intf[r]) /\ Willing(r, intf[r]) /\ intf[r].gen =< disturbances
  BY DEF IntfInv
<1>3. n \in [Router -> NeighborData]
  BY <1>2 DEF IntfConf
<1> HIDE DEF n
<1>5. e \in IntfConf /\ e.gen = intf[r].gen /\ PlaceInElection(r, e) /\ Willing(r, e)
  BY <1>1, <1>2, <1>3, ElectSettles
<1>6. disturbances' \in 0..MaxDisturbances /\ disturbances =< disturbances'
  BY BoundAssumption DEF RestInv
<1>7. e.gen =< disturbances'
  BY <1>2, <1>5
<1>8. QED
  BY <1>5, <1>6, <1>7, IntfReplaced

\* An interface whose timer is stopped elects.
LEMMA ElectionHeld ==
    ASSUME IntfInv, RestInv, NEW r \in Router, NEW w \in BOOLEAN, intf[r].on, UNCHANGED disturbances,
           \E i \in ElectBDRAndDR(r, [intf[r] EXCEPT !.wait = w]) : intf' = [intf EXCEPT ![r] = i]
    PROVE  IntfInv'
<1> DEFINE m == [intf[r] EXCEPT !.wait = w]
<1>1. PICK e \in ElectBDRAndDR(r, m) : intf' = [intf EXCEPT ![r] = e]
  OBVIOUS
<1>2. intf[r] \in IntfConf /\ intf[r].gen =< disturbances
  BY DEF IntfInv
<1>3. m \in IntfConf /\ m.on /\ m.gen = intf[r].gen
  BY <1>2 DEF IntfConf
<1> HIDE DEF m
<1>4. e \in IntfConf /\ e.gen = m.gen /\ PlaceInElection(r, e) /\ Willing(r, e)
  BY <1>1, <1>3, ElectionSettles
<1>5. disturbances' \in 0..MaxDisturbances /\ disturbances =< disturbances'
  BY BoundAssumption DEF RestInv
<1>6. e.gen =< disturbances'
  BY <1>2, <1>3, <1>4
<1>7. QED
  BY <1>1, <1>4, <1>5, <1>6, IntfReplaced

LEMMA HelloReceived ==
    ASSUME IntfInv, RestInv, NEW r \in Router, NEW s \in Router, processRxHelloPkt(r, s)
    PROVE  IntfInv' /\ RestInv'
<1> DEFINE nbr == BuildHelloPkt(s, r)
           old == intf[r].nbrs[s]
           g == [from |-> s, nbr |-> nbr,
                 pc |-> IF ~old.found THEN "create" ELSE IF old # nbr THEN "change" ELSE "nbr",
                 seen |-> intf[r].state = "Waiting" /\ BackupSeen(s, nbr),
                 gen |-> intf[r].gen]
<1>1. nbr \in NeighborData
  BY HelloIsTyped
<1>2. intf[r].gen \in 0..MaxDisturbances
  BY DEF IntfInv, IntfConf
<1>3. Disturb(rx[r] # {}) /\ rx' = [rx EXCEPT ![r] = @ \cup {g}] /\ UNCHANGED <<intf, known, nsm, dead>>
  BY DEF processRxHelloPkt
<1>4. disturbances' \in 0..MaxDisturbances /\ disturbances =< disturbances'
  BY <1>3, DisturbCounts
<1>5. g \in HelloGoroutine
  BY <1>1, <1>2 DEF HelloGoroutine
<1> HIDE DEF g
<1>6. rx' \in [Router -> SUBSET HelloGoroutine]
  BY <1>3, <1>5 DEF RestInv
<1>7. IntfInv'
  BY <1>3, <1>4, BoundAssumption, IntfDisturbed
<1>8. RestInv'
  BY <1>3, <1>4, <1>6 DEF RestInv
<1>9. QED
  BY <1>7, <1>8

LEMMA HelloProcessed ==
    ASSUME IntfInv, RestInv, NEW r \in Router, NEW g \in rx[r], HelloStep(r, g)
    PROVE  IntfInv' /\ RestInv'
<1>0. g.from \in Router /\ g.nbr \in NeighborData
  BY GoroutineIsTyped
<1>1. CASE NeighCreate(r, g)
  <2>1. IntfInv'
    <3>1. CASE intf[r].nbrs[g.from].found
      BY <1>1, <3>1, IntfUnchanged DEF NeighCreate
    <3>2. CASE ~intf[r].nbrs[g.from].found
      <4> DEFINE m == [intf[r] EXCEPT !.nbrs[g.from] = g.nbr]
      <4>1. intf[r].on /\ UNCHANGED disturbances
        BY <1>1, <3>2 DEF NeighCreate
      <4>2. PICK e \in {m} \cup ElectBDRAndDR(r, m) : intf' = [intf EXCEPT ![r] = e]
        BY <1>1, <3>2 DEF NeighCreate, Elect
      <4>3. m = [intf[r] EXCEPT !.nbrs[g.from] = g.nbr]
        OBVIOUS
      <4> HIDE DEF m
      <4>4. QED
        BY <4>1, <4>2, <4>3, <1>0, NeighborReplaced
    <3>3. QED
      BY <3>1, <3>2
  <2>2. rx' \in [Router -> SUBSET HelloGoroutine]
    BY <1>1, GoroutineGoesOn DEF NeighCreate
  <2>3. QED
    BY <1>1, <2>1, <2>2 DEF NeighCreate, RestInv
<1>2. CASE NeighChange(r, g)
  <2>1. IntfInv'
    <3>1. CASE ~intf[r].nbrs[g.from].found
      BY <1>2, <3>1, IntfUnchanged DEF NeighChange
    <3>2. CASE intf[r].nbrs[g.from].found
      <4> DEFINE m == [intf[r] EXCEPT !.nbrs[g.from] = g.nbr]
      <4>1. intf[r].on /\ UNCHANGED disturbances
        BY <1>2, <3>2 DEF NeighChange
      <4>2. PICK e \in {m} \cup ElectBDRAndDR(r, m) : intf' = [intf EXCEPT ![r] = e]
        BY <1>2, <3>2 DEF NeighChange, Elect
      <4>3. m = [intf[r] EXCEPT !.nbrs[g.from] = g.nbr]
        OBVIOUS
      <4> HIDE DEF m
      <4>4. QED
        BY <4>1, <4>2, <4>3, <1>0, NeighborReplaced
    <3>3. QED
      BY <3>1, <3>2
  <2>2. rx' \in [Router -> SUBSET HelloGoroutine]
    BY <1>2, GoroutineGoesOn DEF NeighChange
  <2>3. QED
    BY <1>2, <2>1, <2>2 DEF NeighChange, RestInv
<1>3. CASE NbrHello(r, g)
  <2>1. IntfInv'
    BY <1>3, IntfUnchanged DEF NbrHello
  <2>2. rx' \in [Router -> SUBSET HelloGoroutine]
    BY <1>3, GoroutineGoesOn DEF NbrHello
  <2>3. nsm' \in [Router -> Address]
    BY <1>0, <1>3 DEF NbrHello, RestInv, Address
  <2>4. QED
    BY <1>3, <2>1, <2>2, <2>3 DEF NbrHello, RestInv
<1>4. CASE StopWaitTimer(r, g)
  <2>1. rx' \in [Router -> SUBSET HelloGoroutine]
    BY <1>4, GoroutineGoesOn DEF StopWaitTimer
  <2>2. RestInv'
    BY <1>4, <2>1 DEF StopWaitTimer, RestInv
  <2>3. CASE UNCHANGED intf
    BY <1>4, <2>2, <2>3, IntfUnchanged DEF StopWaitTimer
  <2>4. CASE intf' = [intf EXCEPT ![r].wait = FALSE]
    <3> DEFINE e == [intf[r] EXCEPT !.wait = FALSE]
    <3>1. intf' = [intf EXCEPT ![r] = e]
      BY <2>4
    <3>2. intf[r] \in IntfConf /\ PlaceInElection(r, intf[r]) /\ Willing(r, intf[r]) /\ intf[r].gen =< disturbances
      BY DEF IntfInv
    <3>3. /\ e \in IntfConf /\ e.on = intf[r].on /\ e.state = intf[r].state /\ e.dr = intf[r].dr
          /\ e.bdr = intf[r].bdr /\ e.prio = intf[r].prio /\ e.gen = intf[r].gen
      BY <3>2 DEF IntfConf
    <3> HIDE DEF e
    <3>4. PlaceInElection(r, e) /\ Willing(r, e)
      BY <3>2, <3>3 DEF PlaceInElection, Willing, PastWaiting, NewState
    <3>5. disturbances' = disturbances /\ disturbances \in 0..MaxDisturbances
      BY <1>4 DEF StopWaitTimer, RestInv
    <3>6. disturbances =< disturbances'
      BY <3>5, BoundAssumption
    <3>7. QED
      BY <2>2, <3>1, <3>2, <3>3, <3>4, <3>5, <3>6, IntfReplaced
  <2>5. QED
    BY <1>4, <2>3, <2>4 DEF StopWaitTimer
<1>5. CASE TakeBackupSeen(r, g)
  <2>1. intf[r] = [intf[r] EXCEPT !.wait = intf[r].wait] /\ intf[r].wait \in BOOLEAN
    BY DEF IntfInv, IntfConf
  <2>2. IntfInv'
    BY <1>5, <2>1, ElectionHeld DEF TakeBackupSeen
  <2>3. rx' \in [Router -> SUBSET HelloGoroutine]
    BY <1>5, GoroutineGoesOn DEF TakeBackupSeen
  <2>4. QED
    BY <1>5, <2>2, <2>3 DEF TakeBackupSeen, RestInv
<1>6. QED
  BY <1>1, <1>2, <1>3, <1>4, <1>5 DEF HelloStep

LEMMA TimersExpire ==
    ASSUME IntfInv, RestInv, NEW r \in Router, NEW s \in Router,
           WaitTimerExpires(r) \/ DeadTimerExpires(r, s) \/ DeadStep(r, s)
    PROVE  IntfInv' /\ RestInv'
<1>1. CASE WaitTimerExpires(r)
  <2>1. IntfInv'
    BY <1>1, ElectionHeld DEF WaitTimerExpires
  <2>2. QED
    BY <1>1, <2>1 DEF WaitTimerExpires, RestInv
<1>2. CASE DeadTimerExpires(r, s)
  <2>1. disturbances' \in 0..MaxDisturbances /\ disturbances =< disturbances'
    BY <1>2, DisturbCounts DEF DeadTimerExpires
  <2>2. IntfInv'
    BY <1>2, <2>1, BoundAssumption, IntfDisturbed DEF DeadTimerExpires
  <2>3. dead' \in [Router -> [Router -> {"no", "tell", "delete"}]]
    BY <1>2 DEF DeadTimerExpires, RestInv
  <2>4. QED
    BY <1>2, <2>1, <2>2, <2>3 DEF DeadTimerExpires, RestInv
<1>3. CASE processNbrDownEvent(r, s)
  <2> DEFINE m == [intf[r] EXCEPT !.nbrs[s] = NoNeighbor]
  <2>1. intf[r].on /\ UNCHANGED disturbances
    BY <1>3 DEF processNbrDownEvent
  <2>2. PICK e \in {m} \cup ElectBDRAndDR(r, m) : intf' = [intf EXCEPT ![r] = e]
    BY <1>3 DEF processNbrDownEvent, Elect
  <2>3. m = [intf[r] EXCEPT !.nbrs[s] = NoNeighbor]
    OBVIOUS
  <2> HIDE DEF m
  <2>4. IntfInv'
    BY <2>1, <2>2, <2>3, NoNeighborIsTyped, NeighborReplaced
  <2>5. dead' \in [Router -> [Router -> {"no", "tell", "delete"}]]
    BY <1>3 DEF processNbrDownEvent, RestInv
  <2>6. QED
    BY <1>3, <2>4, <2>5 DEF processNbrDownEvent, RestInv
<1>4. CASE DeleteNeighbor(r, s)
  <2>1. IntfInv'
    BY <1>4, IntfUnchanged DEF DeleteNeighbor
  <2>2. dead' \in [Router -> [Router -> {"no", "tell", "delete"}]]
    BY <1>4 DEF DeleteNeighbor, RestInv
  <2>3. known' \in [Router -> SUBSET Router]
    BY <1>4 DEF DeleteNeighbor, RestInv
  <2>4. QED
    BY <1>4, <2>1, <2>2, <2>3 DEF DeleteNeighbor, RestInv
<1>5. QED
  BY <1>1, <1>2, <1>3, <1>4 DEF DeadStep

LEMMA NeighborStored ==
    ASSUME IntfInv, RestInv, NEW r \in Router, StoreNeighbor(r)
    PROVE  IntfInv' /\ RestInv'
<1>1. IntfInv'
  BY IntfUnchanged DEF StoreNeighbor
<1>2. nsm[r] \in Router
  BY DEF StoreNeighbor, RestInv, Address
<1>3. known' \in [Router -> SUBSET Router]
  BY <1>2 DEF StoreNeighbor, RestInv
<1>4. nsm' \in [Router -> Address]
  BY DEF StoreNeighbor, RestInv, Address
<1>5. QED
  BY <1>1, <1>3, <1>4 DEF StoreNeighbor, RestInv

\* A reconfiguration makes a new WaitTimer, and is a disturbance.
LEMMA Reconfigured ==
    ASSUME IntfInv, RestInv, NEW r \in Router, StopSendRecvPkts(r)
    PROVE  IntfInv' /\ RestInv'
<1>1. PICK p \in Priorities : intf' = [intf EXCEPT ![r] = Configured(p, @.gen + 1)]
  BY DEF StopSendRecvPkts
<1> DEFINE e == Configured(p, intf[r].gen + 1)
<1>2. disturbances' \in 0..MaxDisturbances /\ disturbances =< disturbances'
  BY DisturbCounts DEF StopSendRecvPkts
<1>3. disturbances' = disturbances + 1
  BY DEF StopSendRecvPkts, Disturb
<1>4. intf[r].gen \in Nat /\ intf[r].gen =< disturbances /\ disturbances \in Nat
  BY BoundAssumption DEF IntfInv, RestInv, IntfConf
<1>5. intf[r].gen + 1 \in 0..MaxDisturbances /\ intf[r].gen + 1 =< disturbances'
  BY <1>2, <1>3, <1>4, BoundAssumption
<1>6. p \in 0..255 /\ r # None
  BY PriorityAssumption, RouterAssumption DEF None
<1>7. e \in IntfConf /\ e.gen = intf[r].gen + 1
  BY <1>5, <1>6, NoNeighborIsTyped DEF Configured, IntfConf, IfState, Address
<1>8. PlaceInElection(r, e) /\ Willing(r, e)
  BY <1>6 DEF Configured, PlaceInElection, PastWaiting, Willing
<1>9. intf' = [intf EXCEPT ![r] = e]
  BY <1>1
<1> HIDE DEF e
<1>10. IntfInv'
  BY <1>2, <1>5, <1>7, <1>8, <1>9, IntfReplaced
<1>11. QED
  BY <1>2, <1>10 DEF StopSendRecvPkts, RestInv

LEMMA Started ==
    ASSUME IntfInv, RestInv, NEW r \in Router, StartSendRecvPkts(r)
    PROVE  IntfInv' /\ RestInv'
<1> DEFINE e == [intf[r] EXCEPT !.on = TRUE, !.state = "Waiting", !.wait = TRUE]
<1>1. intf' = [intf EXCEPT ![r] = e]
  BY DEF StartSendRecvPkts, IntfInv
<1>2. intf[r] \in IntfConf /\ PlaceInElection(r, intf[r]) /\ Willing(r, intf[r]) /\ intf[r].gen =< disturbances
  BY DEF IntfInv
<1>3. intf[r].dr = None /\ intf[r].bdr = None
  BY <1>2 DEF StartSendRecvPkts, PlaceInElection, PastWaiting
<1>4. /\ e \in IntfConf /\ e.on /\ e.state = "Waiting" /\ e.prio = intf[r].prio /\ e.gen = intf[r].gen
      /\ e.dr = None /\ e.bdr = None
  BY <1>2, <1>3 DEF IntfConf, IfState
<1> HIDE DEF e
<1>5. PlaceInElection(r, e) /\ Willing(r, e)
  BY <1>4, RouterAssumption DEF PlaceInElection, PastWaiting, Willing, None
<1>6. disturbances' = disturbances /\ disturbances \in 0..MaxDisturbances
  BY DEF StartSendRecvPkts, RestInv
<1>7. disturbances =< disturbances'
  BY <1>6, BoundAssumption
<1>8. IntfInv'
  BY <1>1, <1>2, <1>4, <1>5, <1>6, <1>7, IntfReplaced
<1>9. QED
  BY <1>8 DEF StartSendRecvPkts, RestInv

-----------------------------------------------------------------------------
(* Theorems                                                                 *)

LEMMA NextInv == IInv /\ [Next]_vars => IInv'
<1>1. SUFFICES ASSUME IntfInv, RestInv, [Next]_vars PROVE IntfInv' /\ RestInv'
  BY Halves, PTL
<1>2. CASE UNCHANGED vars
  <2>1. IntfInv'
    BY <1>1, <1>2, IntfUnchanged DEF vars
  <2>2. RestInv'
    BY <1>1, <1>2 DEF vars, RestInv
  <2>3. QED
    BY <2>1, <2>2
<1>3. ASSUME NEW r \in Router,
             \/ WaitTimerExpires(r) \/ StoreNeighbor(r)
             \/ StopSendRecvPkts(r) \/ StartSendRecvPkts(r)
      PROVE  IntfInv' /\ RestInv'
  BY <1>1, <1>3, TimersExpire, NeighborStored, Reconfigured, Started
<1>4. ASSUME NEW r \in Router, NEW s \in Router,
             processRxHelloPkt(r, s) \/ DeadTimerExpires(r, s) \/ DeadStep(r, s)
      PROVE  IntfInv' /\ RestInv'
  BY <1>1, <1>4, HelloReceived, TimersExpire
<1>5. ASSUME NEW r \in Router, NEW g \in rx[r], HelloStep(r, g)
      PROVE  IntfInv' /\ RestInv'
  BY <1>1, <1>5, HelloProcessed
<1>6. QED
  BY <1>1, <1>2, <1>3, <1>4, <1>5 DEF Next

\* The inductive invariant holds in every reachable state.
THEOREM InductiveInvariant == Spec => []IInv
<1>1. QED
  BY InitInv, NextInv, PTL DEF Spec

\* The state of an interface is its place in its last election, however
\* Hello goroutines, timers and reconfigurations interleave: before the first
\* election it knows no DR and no BDR (StartOspfBroadcastIntfFSM,
\* ElectBDRAndDR, StopSendRecvPkts).
THEOREM TypeCorrect == Spec => []TypeOK
<1>1. IInv => TypeOK
  BY DEF IInv
<1>2. QED
  BY <1>1, InductiveInvariant, PTL

\* A router of priority 0 never makes itself DR or BDR (ElectBDR, ElectDR), not
\* even with a stale copy of its interface in a Hello goroutine.
THEOREM UnwillingIsNeverElected == Spec => []NeverElectsUnwilling
<1>1. IInv => NeverElectsUnwilling
  BY DEF IInv
<1>2. QED
  BY <1>1, InductiveInvariant, PTL

-----------------------------------------------------------------------------
(* Neighbours                                                               *)

\* Of the records: what a router may hold and send.
OnbrDbds == [i: BOOLEAN, m: BOOLEAN, ms: BOOLEAN, seq: Nat, hdrs: SUBSET OnbrKeys]
OnbrPkts == {p \in [t: {"dbd", "req", "upd"}, d: OnbrDbds, keys: SUBSET OnbrKeys] : p.t = "upd" => p.keys # {}}
OnbrMsgs == [kind: {"none", "upd", "add", "del"}, st: 0..Full, seq: Nat \cup {-1}, slave: SUBSET BOOLEAN,
             ev: {"none", "2way", "done"}]
OnbrLists == {l \in [all: SUBSET OnbrKeys, open: SUBSET OnbrKeys] : l.open \subseteq l.all}
OnbrRecs ==
  [there: BOOLEAN, st: 0..Full, seq: Nat, slave: BOOLEAN, ev: {"none", "2way", "done"},
   mutex: BOOLEAN, timer: BOOLEAN, stray: BOOLEAN, dying: BOOLEAN, sum: OnbrLists, req: OnbrLists,
   last: OnbrDbds, mdata: {"none", "empty", "listed"}, nbrMsg: OnbrMsgs, rxMsg: OnbrMsgs, upd: OnbrMsgs,
   flood: SUBSET {"any", "slave"}, lsdb: SUBSET OnbrKeys, ok: BOOLEAN, out: SUBSET OnbrPkts]

\* What the handlers leave alone until UpdateNeighborConf has the message: the
\* entry, its timers and what the threads wait with.
SameEntry(n, o) ==
  /\ n.there = o.there /\ n.st = o.st /\ n.slave = o.slave /\ n.mutex = o.mutex
  /\ n.timer = o.timer /\ n.stray = o.stray /\ n.dying = o.dying
Silent(n, o) ==
  /\ SameEntry(n, o) /\ n.nbrMsg = o.nbrMsg /\ n.rxMsg = o.rxMsg /\ n.upd = o.upd
\* The neighbour thread has told m.
Told(n, o, m) ==
  /\ SameEntry(n, o) /\ n.rxMsg = o.rxMsg
  /\ IF o.upd = NoUpd THEN n.upd = m /\ n.nbrMsg = o.nbrMsg ELSE n.nbrMsg = m /\ n.upd = o.upd

USE DEF Down, Init2, TwoWay, ExchangeStart, Exchange, Loading, Full

LEMMA PeerFacts == ASSUME NEW r \in Routers PROVE Peer(r) \in Routers /\ Peer(r) # r /\ r \in Nat /\ Peer(r) \in Nat
BY DEF Routers, Peer

LEMMA SomeSubset ==
  ASSUME NEW S, IsFiniteSet(S), NEW n \in 0..Cardinality(S)
  PROVE  \E T \in SUBSET S : Cardinality(T) = n
<1>. DEFINE c == Cardinality(S)
<1>1. c \in Nat /\ \E f : f \in Bijection(1..c, S)
  BY FS_CardinalityType DEF ExistsBijection
<1>2. PICK f : f \in Bijection(1..c, S)
  BY <1>1
<1>. DEFINE T == {f[i] : i \in 1..n}
             g == [i \in 1..n |-> f[i]]
<1>3. T \in SUBSET S /\ g \in Bijection(1..n, T)
  BY <1>1, <1>2 DEF Bijection, Injection, Surjection, IsInjective
<1>4. Cardinality(T) = n
  <2>. HIDE DEF T, g
  <2>1. n \in Nat
    BY <1>1
  <2>2. ExistsBijection(1..n, T)
    BY <1>3 DEF ExistsBijection
  <2>. QED  BY <2>1, <2>2, FS_CountingElements
<1>. QED  BY <1>3, <1>4

LEMMA VisitedSubset ==
  ASSUME OnbrConstants, NEW S \in SUBSET OnbrKeys
  PROVE  Visited(S) \subseteq S
<1>1. IsFiniteSet(OnbrKeys)
  <2>1. OnbrKeys = OnbrLsas[1] \cup OnbrLsas[2]
    BY DEF OnbrKeys, Routers
  <2>. QED  BY <2>1, FS_Union DEF OnbrConstants, Routers
<1>2. IsFiniteSet(S) /\ Cardinality(S) \in Nat
  BY <1>1, FS_Subset, FS_CardinalityType
<1>3. Cardinality(S) % OnbrWrap \in 0..Cardinality(S)
  BY <1>2 DEF OnbrConstants
<1>4. \E T \in SUBSET S : Cardinality(T) = Cardinality(S) % OnbrWrap
  BY <1>2, <1>3, SomeSubset
<1>. QED  BY <1>4 DEF Visited

\* The silent operators.
LEMMA SendIs ==
  ASSUME NEW o \in OnbrRecs, NEW ps \in SUBSET OnbrPkts
  PROVE  Send(o, ps) \in OnbrRecs /\ Silent(Send(o, ps), o) /\ Send(o, ps).ok = o.ok
BY DEF Send, OnbrRecs, Silent, SameEntry

LEMMA CrashIs ==
  ASSUME NEW o \in OnbrRecs
  PROVE  Crash(o) \in OnbrRecs /\ Silent(Crash(o), o)
BY DEF Crash, OnbrRecs, Silent, SameEntry

LEMMA SendDbdIs ==
  ASSUME NEW o \in OnbrRecs, NEW d \in OnbrDbds
  PROVE  SendDbd(o, d) \in OnbrRecs /\ Silent(SendDbd(o, d), o) /\ SendDbd(o, d).ok = o.ok
<1>0. NoDbd \in OnbrDbds
  BY DEF NoDbd, OnbrDbds
<1>1. {DbdPkt(d)} \in SUBSET OnbrPkts
  BY DEF DbdPkt, OnbrPkts
<1>. DEFINE s == Send(o, {DbdPkt(d)})
<1>2. s \in OnbrRecs /\ Silent(s, o) /\ s.ok = o.ok
  BY <1>1, SendIs
<1>3. SendDbd(o, d) = [s EXCEPT !.flood = IF d.i \/ d.m THEN @ ELSE @ \cup {"slave"}]
  BY DEF SendDbd
<1>. HIDE DEF s
<1>. QED  BY <1>2, <1>3 DEF OnbrRecs, Silent, SameEntry

LEMMA SilentIsTransitive ==
  ASSUME NEW a, NEW b, NEW c, Silent(a, b), Silent(b, c)
  PROVE  Silent(a, c)
BY DEF Silent, SameEntry

LEMMA SilentIsReflexive == ASSUME NEW a PROVE Silent(a, a)
BY DEF Silent, SameEntry

LEMMA ConstructIs ==
  ASSUME OnbrConstants, NEW o \in OnbrRecs, NEW i \in BOOLEAN, NEW m \in BOOLEAN, NEW ms \in BOOLEAN,
         NEW seq \in Nat, NEW attach \in BOOLEAN
  PROVE  LET c == ConstructAndSendDbdPacket(o, i, m, ms, seq, attach)
         IN  c.o \in OnbrRecs /\ c.d \in OnbrDbds /\ Silent(c.o, o) /\ (~attach => c.o.ok = o.ok)
<1>. DEFINE c == ConstructAndSendDbdPacket(o, i, m, ms, seq, attach)
<1>0. NoDbd \in OnbrDbds
  BY DEF NoDbd, OnbrDbds
<1>1. CASE ~o.there
  <2>1. c = [o |-> o, d |-> NoDbd]
    BY <1>1 DEF ConstructAndSendDbdPacket
  <2>. QED  BY <2>1, <1>0, SilentIsReflexive
<1>2. CASE o.there /\ attach /\ ~o.mutex
  <2>1. c = [o |-> Crash(o), d |-> NoDbd]
    BY <1>2 DEF ConstructAndSendDbdPacket
  <2>. QED  BY <2>1, <1>0, <1>2, CrashIs
<1>3. CASE o.there /\ ~(attach /\ ~o.mutex)
  <2>. DEFINE seen == Visited(o.sum.all)
              d == [i |-> i, m |-> m /\ ~(attach /\ seen = o.sum.all), ms |-> ms,
                    seq |-> seq, hdrs |-> IF attach THEN seen \cap o.sum.open ELSE {}]
              s == IF attach THEN [o EXCEPT !.sum.open = @ \ seen] ELSE o
  <2>1. c = [o |-> SendDbd(s, d), d |-> d]
    BY <1>3 DEF ConstructAndSendDbdPacket
  <2>2. o.sum \in OnbrLists
    BY DEF OnbrRecs
  <2>3. d \in OnbrDbds
    BY <2>2 DEF OnbrDbds, OnbrLists
  <2>4. s \in OnbrRecs /\ Silent(s, o) /\ s.ok = o.ok
    BY <2>2 DEF OnbrRecs, OnbrLists, Silent, SameEntry
  <2>. HIDE DEF s, d
  <2>. QED  BY <2>1, <2>3, <2>4, SendDbdIs, SilentIsTransitive
<1>. QED  BY <1>1, <1>2, <1>3

LEMMA SummaryListIs ==
  ASSUME NEW o \in OnbrRecs, NEW r \in Routers
  PROVE  generateDbSummaryList(o, r) \in OnbrRecs /\ Silent(generateDbSummaryList(o, r), o)
<1>. DEFINE l == {k \in o.lsdb : describesExternal(r, k) /\ describesSummary(r, k)}
<1>1. l \in SUBSET OnbrKeys
  BY DEF OnbrRecs
<1>2. [o EXCEPT !.sum = [all |-> l, open |-> l]] \in OnbrRecs
  <2>1. [all |-> l, open |-> l] \in OnbrLists
    BY <1>1 DEF OnbrLists
  <2>. HIDE DEF l
  <2>. QED  BY <2>1 DEF OnbrRecs
<1>3. Silent([o EXCEPT !.sum = [all |-> l, open |-> l]], o)
  <2>. HIDE DEF l
  <2>. QED  BY DEF OnbrRecs, Silent, SameEntry
<1>4. CASE o.there /\ o.mutex
  BY <1>2, <1>3, <1>4 DEF generateDbSummaryList
<1>5. CASE ~o.there
  BY <1>5, SilentIsReflexive DEF generateDbSummaryList
<1>6. CASE o.there /\ ~o.mutex
  BY <1>6, CrashIs DEF generateDbSummaryList
<1>. QED  BY <1>4, <1>5, <1>6

LEMMA RequestListIs ==
  ASSUME NEW o \in OnbrRecs, NEW r \in Routers, NEW d \in OnbrDbds
  PROVE  generateRequestList(o, r, d) \in OnbrRecs /\ Silent(generateRequestList(o, r, d), o)
<1>. DEFINE new == {k \in d.hdrs : lsaAddCheck(r, k)}
            q == [all |-> o.req.all \cup new, open |-> o.req.open \cup new]
            n == [o EXCEPT !.req = q]
<1>1. q \in OnbrLists
  <2>1. new \in SUBSET OnbrKeys /\ o.req \in OnbrLists
    BY DEF OnbrDbds, OnbrRecs
  <2>. HIDE DEF new
  <2>. QED  BY <2>1 DEF OnbrLists
<1>2. n \in OnbrRecs /\ Silent(n, o)
  <2>. HIDE DEF q
  <2>. QED  BY <1>1 DEF OnbrRecs, Silent, SameEntry
<1>3. generateRequestList(o, r, d) = IF new # {} /\ ~o.mutex THEN Crash(o) ELSE n
  BY DEF generateRequestList
<1>. HIDE DEF n, new
<1>. QED  BY <1>2, <1>3, CrashIs

LEMMA LSAReqIs ==
  ASSUME OnbrConstants, NEW o \in OnbrRecs
  PROVE  BuildAndSendLSAReq(o) \in OnbrRecs /\ Silent(BuildAndSendLSAReq(o), o)
<1>. DEFINE seen == Visited(o.req.all)
            n == [o EXCEPT !.req.open = @ \ seen]
<1>1. o.req \in OnbrLists /\ seen \in SUBSET OnbrKeys
  BY VisitedSubset DEF OnbrRecs, OnbrLists
<1>2. n \in OnbrRecs /\ Silent(n, o)
  BY <1>1 DEF OnbrRecs, OnbrLists, Silent, SameEntry
<1>3. {LsaReqPkt(seen)} \in SUBSET OnbrPkts
  BY <1>1 DEF LsaReqPkt, OnbrPkts, NoDbd, OnbrDbds
<1>4. BuildAndSendLSAReq(o) = IF seen = {} THEN o ELSE IF ~o.mutex THEN Crash(o) ELSE Send(n, {LsaReqPkt(seen)})
  BY DEF BuildAndSendLSAReq
<1>. HIDE DEF n, seen
<1>. QED  BY <1>2, <1>3, <1>4, CrashIs, SendIs, SilentIsTransitive, SilentIsReflexive

LEMMA TellIs ==
  ASSUME NEW o \in OnbrRecs, NEW m \in OnbrMsgs
  PROVE  Tell(o, m) \in OnbrRecs /\ Told(Tell(o, m), o, m) /\ Tell(o, m).ok = o.ok
BY DEF Tell, OnbrRecs, Told, SameEntry

LEMMA SmallStepsAreSilent ==
  ASSUME NEW o \in OnbrRecs
  PROVE  /\ updateNeighborMdata(o) \in OnbrRecs /\ Silent(updateNeighborMdata(o), o)
         /\ updateNeighborMdata(o).ok = o.ok
         /\ CreateNetworkLSA(o) \in OnbrRecs /\ Silent(CreateNetworkLSA(o), o)
         /\ updateLSALists(o) \in OnbrRecs /\ Silent(updateLSALists(o), o)
         /\ updateLSALists(o).ok = o.ok
         /\ resetNeighborLists(o) \in OnbrRecs /\ Silent(resetNeighborLists(o), o)
         /\ resetNeighborLists(o).ok = o.ok
<1>0. NoList \in OnbrLists
  BY DEF NoList, OnbrLists
<1>1. /\ updateNeighborMdata(o) \in OnbrRecs /\ Silent(updateNeighborMdata(o), o)
      /\ updateNeighborMdata(o).ok = o.ok
  BY DEF updateNeighborMdata, OnbrRecs, Silent, SameEntry
<1>2. CreateNetworkLSA(o) \in OnbrRecs /\ Silent(CreateNetworkLSA(o), o)
  BY DEF CreateNetworkLSA, OnbrRecs, Silent, SameEntry
<1>3. updateLSALists(o) \in OnbrRecs /\ Silent(updateLSALists(o), o) /\ updateLSALists(o).ok = o.ok
  BY <1>0 DEF updateLSALists, OnbrRecs, Silent, SameEntry
<1>4. /\ resetNeighborLists(o) \in OnbrRecs /\ Silent(resetNeighborLists(o), o)
      /\ resetNeighborLists(o).ok = o.ok
  BY <1>3 DEF resetNeighborLists, OnbrRecs, Silent, SameEntry
<1>. QED  BY <1>1, <1>2, <1>3, <1>4

\* OspfNeighborLastDbd is set.
WithLast(o, d) == [o EXCEPT !.last = d]
LEMMA WithLastIs ==
  ASSUME NEW o \in OnbrRecs, NEW d \in OnbrDbds
  PROVE  WithLast(o, d) \in OnbrRecs /\ Silent(WithLast(o, d), o)
BY DEF WithLast, OnbrRecs, Silent, SameEntry

LEMMA ToldAfterSilence ==
  ASSUME NEW n, NEW a, NEW o, NEW m, Silent(a, o), Told(n, a, m)
  PROVE  Told(n, o, m)
BY DEF Silent, Told, SameEntry

LEMMA SilenceAfterTold ==
  ASSUME NEW n, NEW a, NEW o, NEW m, Silent(n, a), Told(a, o, m)
  PROVE  Told(n, o, m)
BY DEF Silent, Told, SameEntry

\* What the neighbour thread tells when it has handled a hello or a description
\* for an entry: the right role, or nothing of the role and then no state beyond
\* Exchange for an entry that is not there yet.
Fits(o, r, m) ==
  /\ m \in OnbrMsgs /\ m.kind = "upd" /\ o.there
  /\ m.slave = {Peer(r) > r} \/ (m.slave = {} /\ (m.st >= Exchange => o.st >= Exchange))

LEMMA ExstartIs ==
  ASSUME OnbrConstants, NEW o \in OnbrRecs, NEW r \in Routers, NEW d \in OnbrDbds, o.there
  PROVE  LET n == processNeighborExstart(o, r, d)
         IN  n \in OnbrRecs /\ \E m : Fits(o, r, m) /\ Told(n, o, m)
<1>. DEFINE slave == Peer(r) > r
            done == NegotiationDone(o, r, d)
            g == IF done THEN generateDbSummaryList(o, r) ELSE o
            c == CASE done /\ ~slave -> ConstructAndSendDbdPacket(g, FALSE, TRUE, TRUE, d.seq + 1, TRUE)
                   [] done /\ slave -> ConstructAndSendDbdPacket(g, FALSE, TRUE, FALSE, d.seq, TRUE)
                   [] OTHER -> ConstructAndSendDbdPacket(g, TRUE, TRUE, TRUE, d.seq, FALSE)
            sent == [c.d EXCEPT !.seq = IF slave THEN @ + 1 ELSE @]
            q == IF done THEN generateRequestList(c.o, r, d) ELSE c.o
            l == [q EXCEPT !.last = sent]
            m == [kind |-> "upd", st |-> IF done THEN Exchange ELSE ExchangeStart,
                  seq |-> sent.seq, slave |-> {slave}, ev |-> IF done THEN "done" ELSE o.ev]
<1>0. processNeighborExstart(o, r, d) = Tell(l, m)
  BY DEF processNeighborExstart
<1>1. slave \in BOOLEAN /\ done \in BOOLEAN /\ d.seq \in Nat /\ d.seq + 1 \in Nat
  BY PeerFacts DEF NegotiationDone, OnbrDbds
<1>2. g \in OnbrRecs /\ Silent(g, o)
  BY SummaryListIs, SilentIsReflexive
<1>3. c.o \in OnbrRecs /\ c.d \in OnbrDbds /\ Silent(c.o, g)
  <2>. HIDE DEF g, done, slave
  <2>1. CASE done /\ ~slave
    <3>1. c = ConstructAndSendDbdPacket(g, FALSE, TRUE, TRUE, d.seq + 1, TRUE)
      BY <2>1
    <3>. QED  BY <3>1, <1>1, <1>2, ConstructIs
  <2>2. CASE done /\ slave
    <3>1. c = ConstructAndSendDbdPacket(g, FALSE, TRUE, FALSE, d.seq, TRUE)
      BY <2>2
    <3>. QED  BY <3>1, <1>1, <1>2, ConstructIs
  <2>3. CASE ~done
    <3>1. c = ConstructAndSendDbdPacket(g, TRUE, TRUE, TRUE, d.seq, FALSE)
      BY <2>3
    <3>. QED  BY <3>1, <1>1, <1>2, ConstructIs
  <2>. QED  BY <1>1, <2>1, <2>2, <2>3
<1>. HIDE DEF c, g
<1>4. sent \in OnbrDbds
  BY <1>3, <1>1 DEF OnbrDbds
<1>5. q \in OnbrRecs /\ Silent(q, o)
  BY <1>2, <1>3, RequestListIs, SilentIsTransitive
<1>6. m \in OnbrMsgs /\ Fits(o, r, m)
  <2>. HIDE DEF sent, done
  <2>1. sent.seq \in Nat /\ o.ev \in {"none", "2way", "done"}
    BY <1>4 DEF OnbrDbds, OnbrRecs
  <2>2. m \in OnbrMsgs
    BY <2>1, <1>1 DEF OnbrMsgs
  <2>. QED  BY <2>2 DEF Fits
<1>. HIDE DEF sent, q, m
<1>7. l \in OnbrRecs /\ Silent(l, o)
  <2>1. l = WithLast(q, sent)
    BY DEF WithLast
  <2>. QED  BY <2>1, <1>4, <1>5, WithLastIs, SilentIsTransitive
<1>. HIDE DEF l
<1>8. Tell(l, m) \in OnbrRecs /\ Told(Tell(l, m), o, m)
  BY <1>6, <1>7, TellIs, ToldAfterSilence
<1>. QED  BY <1>0, <1>6, <1>8

LEMMA SlaveExchangeIs ==
  ASSUME OnbrConstants, NEW o \in OnbrRecs, NEW r \in Routers, NEW d \in OnbrDbds
  PROVE  LET x == SlaveExchange(o, r, d) IN x.o \in OnbrRecs /\ Silent(x.o, o) /\ x.seq \in Nat
<1>. DEFINE q == generateRequestList(o, r, d)
            c == ConstructAndSendDbdPacket(q, FALSE, d.m, FALSE, d.seq, TRUE)
            l == [c.o EXCEPT !.last = c.d]
<1>1. d.m \in BOOLEAN /\ d.seq \in Nat /\ o.last \in OnbrDbds /\ o.last.seq \in Nat
  BY DEF OnbrDbds, OnbrRecs
<1>2. q \in OnbrRecs /\ Silent(q, o)
  BY RequestListIs
<1>3. c.o \in OnbrRecs /\ c.d \in OnbrDbds /\ Silent(c.o, q)
  <2>. HIDE DEF q
  <2>. QED  BY <1>1, <1>2, ConstructIs
<1>4. SlaveExchange(o, r, d) = IF d.seq = o.seq THEN [o |-> l, seq |-> c.d.seq + 1]
                               ELSE [o |-> SendDbd(o, o.last), seq |-> o.last.seq]
  BY DEF SlaveExchange
<1>. HIDE DEF c, q
<1>5. c.d.seq + 1 \in Nat
  BY <1>3 DEF OnbrDbds
<1>6. l \in OnbrRecs /\ Silent(l, o)
  <2>1. l = WithLast(c.o, c.d)
    BY DEF WithLast
  <2>. QED  BY <2>1, <1>2, <1>3, WithLastIs, SilentIsTransitive
<1>. HIDE DEF l
<1>. QED  BY <1>1, <1>4, <1>5, <1>6, SendDbdIs

LEMMA MasterExchangeIs ==
  ASSUME OnbrConstants, NEW o \in OnbrRecs, NEW r \in Routers, NEW d \in OnbrDbds
  PROVE  LET x == MasterExchange(o, r, d) IN x.o \in OnbrRecs /\ Silent(x.o, o) /\ x.seq \in Nat
<1>. DEFINE go == o.ev # "done" \/ d.m
            c == IF go THEN ConstructAndSendDbdPacket(o, FALSE, FALSE, TRUE, d.seq + 1, TRUE)
                 ELSE [o |-> o, d |-> NoDbd]
            s == IF go THEN [c.o EXCEPT !.last = c.d] ELSE c.o
<1>1. d.seq + 1 \in Nat /\ NoDbd \in OnbrDbds
  BY DEF OnbrDbds, NoDbd
<1>2. c.o \in OnbrRecs /\ c.d \in OnbrDbds /\ Silent(c.o, o)
  BY <1>1, ConstructIs, SilentIsReflexive
<1>3. MasterExchange(o, r, d) = [o |-> generateRequestList(s, r, d), seq |-> c.d.seq]
  BY DEF MasterExchange
<1>. HIDE DEF c, go
<1>4. s \in OnbrRecs /\ Silent(s, o)
  <2>1. s = IF go THEN WithLast(c.o, c.d) ELSE c.o
    BY DEF WithLast
  <2>. QED  BY <2>1, <1>2, WithLastIs, SilentIsTransitive
<1>5. c.d.seq \in Nat
  BY <1>2 DEF OnbrDbds
<1>. HIDE DEF s
<1>. QED  BY <1>3, <1>4, <1>5, RequestListIs, SilentIsTransitive

LEMMA ExchangeIs ==
  ASSUME OnbrConstants, NEW o \in OnbrRecs, NEW r \in Routers, NEW d \in OnbrDbds, o.there, o.st = Exchange
  PROVE  LET n == ExchangeEvent(o, r, d)
         IN  n \in OnbrRecs /\ \E m : Fits(o, r, m) /\ Told(n, o, m)
<1>. DEFINE x == IF o.slave THEN SlaveExchange(o, r, d) ELSE MasterExchange(o, r, d)
            f == IF o.slave THEN x.o ELSE CreateNetworkLSA(updateNeighborMdata(x.o))
            q == IF d.m THEN f ELSE updateNeighborMdata(BuildAndSendLSAReq(f))
            m == [kind |-> "upd", st |-> Loading, seq |-> x.seq, slave |-> {},
                  ev |-> IF o.slave /\ ~d.m THEN "done" ELSE o.ev]
<1>0. ExchangeEvent(o, r, d) = Tell(q, m)
  BY DEF ExchangeEvent
<1>1. x.o \in OnbrRecs /\ Silent(x.o, o) /\ x.seq \in Nat
  BY SlaveExchangeIs, MasterExchangeIs
<1>. HIDE DEF x
<1>2. f \in OnbrRecs /\ Silent(f, o)
  <2>1. updateNeighborMdata(x.o) \in OnbrRecs /\ Silent(updateNeighborMdata(x.o), o)
    BY <1>1, SmallStepsAreSilent, SilentIsTransitive
  <2>2. /\ CreateNetworkLSA(updateNeighborMdata(x.o)) \in OnbrRecs
        /\ Silent(CreateNetworkLSA(updateNeighborMdata(x.o)), o)
    BY <2>1, SmallStepsAreSilent, SilentIsTransitive
  <2>. QED  BY <1>1, <2>2
<1>. HIDE DEF f
<1>3. q \in OnbrRecs /\ Silent(q, o)
  <2>1. BuildAndSendLSAReq(f) \in OnbrRecs /\ Silent(BuildAndSendLSAReq(f), o)
    BY <1>2, LSAReqIs, SilentIsTransitive
  <2>2. /\ updateNeighborMdata(BuildAndSendLSAReq(f)) \in OnbrRecs
        /\ Silent(updateNeighborMdata(BuildAndSendLSAReq(f)), o)
    BY <2>1, SmallStepsAreSilent, SilentIsTransitive
  <2>. QED  BY <1>2, <2>2
<1>. HIDE DEF q
<1>4. Fits(o, r, m)
  <2>1. o.ev \in {"none", "2way", "done"}
    BY DEF OnbrRecs
  <2>2. m \in OnbrMsgs
    BY <2>1, <1>1 DEF OnbrMsgs
  <2>. QED  BY <2>2 DEF Fits
<1>5. m \in OnbrMsgs
  BY <1>4 DEF Fits
<1>. HIDE DEF m
<1>6. Tell(q, m) \in OnbrRecs /\ Told(Tell(q, m), o, m)
  BY <1>3, <1>5, TellIs, ToldAfterSilence
<1>. QED  BY <1>0, <1>4, <1>6

LEMMA LoadedIs ==
  ASSUME OnbrConstants, NEW o \in OnbrRecs, NEW r \in Routers, NEW d \in OnbrDbds, o.there, o.st >= Loading
  PROVE  LET n == LoadedEvent(o, r, d)
         IN  n \in OnbrRecs /\ \E m : Fits(o, r, m) /\ Told(n, o, m)
<1>. DEFINE dup == verifyDuplicatePacket(o, d)
            again == ConstructAndSendDbdPacket(o, TRUE, TRUE, TRUE, o.seq + 1, FALSE)
            ans == ConstructAndSendDbdPacket(o, FALSE, d.m, FALSE, d.seq, FALSE)
            answer == IF o.slave /\ ~dup THEN ans.o ELSE o
            asked == BuildAndSendLSAReq(answer)
            told == IF dup THEN CreateNetworkLSA(updateNeighborMdata(asked)) ELSE asked
            m1 == [kind |-> "upd", st |-> ExchangeStart, seq |-> again.d.seq, slave |-> {}, ev |-> "none"]
            m2 == [kind |-> "upd", st |-> Full, seq |-> o.last.seq, slave |-> {}, ev |-> "none"]
            disc == exchangePacketDiscardCheck(o, d)
<1>0. LoadedEvent(o, r, d) = updateNeighborMdata(IF disc THEN Tell(again.o, m1) ELSE Tell(told, m2))
  BY DEF LoadedEvent
<1>1. o.seq + 1 \in Nat /\ d.m \in BOOLEAN /\ d.seq \in Nat /\ o.last.seq \in Nat
  BY DEF OnbrRecs, OnbrDbds
<1>2. again.o \in OnbrRecs /\ again.d \in OnbrDbds /\ Silent(again.o, o)
  BY <1>1, ConstructIs
<1>3. ans.o \in OnbrRecs /\ Silent(ans.o, o)
  BY <1>1, ConstructIs
<1>. HIDE DEF again, ans, disc, dup
<1>4. answer \in OnbrRecs /\ Silent(answer, o)
  BY <1>3, SilentIsReflexive
<1>. HIDE DEF answer
<1>5. asked \in OnbrRecs /\ Silent(asked, o)
  BY <1>4, LSAReqIs, SilentIsTransitive
<1>. HIDE DEF asked
<1>6. told \in OnbrRecs /\ Silent(told, o)
  <2>1. updateNeighborMdata(asked) \in OnbrRecs /\ Silent(updateNeighborMdata(asked), o)
    BY <1>5, SmallStepsAreSilent, SilentIsTransitive
  <2>2. /\ CreateNetworkLSA(updateNeighborMdata(asked)) \in OnbrRecs
        /\ Silent(CreateNetworkLSA(updateNeighborMdata(asked)), o)
    BY <2>1, SmallStepsAreSilent, SilentIsTransitive
  <2>. QED  BY <1>5, <2>2
<1>7. Fits(o, r, m1) /\ Fits(o, r, m2)
  <2>1. again.d.seq \in Nat
    BY <1>2 DEF OnbrDbds
  <2>2. m1 \in OnbrMsgs /\ m2 \in OnbrMsgs
    BY <2>1, <1>1 DEF OnbrMsgs
  <2>3. o.st \in Nat
    BY DEF OnbrRecs
  <2>. QED  BY <2>2, <2>3 DEF Fits
<1>8. m1 \in OnbrMsgs /\ m2 \in OnbrMsgs
  BY <1>7 DEF Fits
<1>. HIDE DEF told, m1, m2
<1>9. /\ Tell(again.o, m1) \in OnbrRecs /\ Told(Tell(again.o, m1), o, m1)
      /\ Tell(told, m2) \in OnbrRecs /\ Told(Tell(told, m2), o, m2)
  BY <1>2, <1>6, <1>8, TellIs, ToldAfterSilence
<1>10. CASE disc
  BY <1>0, <1>7, <1>9, <1>10, SmallStepsAreSilent, SilenceAfterTold
<1>11. CASE ~disc
  BY <1>0, <1>7, <1>9, <1>11, SmallStepsAreSilent, SilenceAfterTold
<1>. QED  BY <1>10, <1>11

LEMMA DbdIs ==
  ASSUME OnbrConstants, NEW o \in OnbrRecs, NEW r \in Routers, NEW d \in OnbrDbds
  PROVE  LET n == processDBDEvent(o, r, d)
         IN  n = o \/ (n \in OnbrRecs /\ \E m : Fits(o, r, m) /\ Told(n, o, m))
<1>. DEFINE n == processDBDEvent(o, r, d)
<1>1. CASE ~o.there
  <2>1. n = o
    BY <1>1 DEF processDBDEvent
  <2>. QED  BY <2>1
<1>2. CASE o.there /\ (o.st \in {Init2, ExchangeStart} \/ (o.st = Exchange /\ exchangePacketDiscardCheck(o, d)))
  <2>1. n = processNeighborExstart(o, r, d)
    BY <1>2 DEF processDBDEvent
  <2>. QED  BY <2>1, <1>2, ExstartIs
<1>3. CASE o.there /\ o.st = Exchange /\ ~exchangePacketDiscardCheck(o, d)
  <2>1. n = ExchangeEvent(o, r, d)
    BY <1>3 DEF processDBDEvent
  <2>. QED  BY <2>1, <1>3, ExchangeIs
<1>4. CASE o.there /\ o.st \in {Loading, Full}
  <2>1. n = LoadedEvent(o, r, d)
    BY <1>4 DEF processDBDEvent
  <2>2. o.st >= Loading
    BY <1>4
  <2>. QED  BY <2>1, <2>2, <1>4, LoadedIs
<1>5. CASE o.there /\ o.st \notin {Init2, ExchangeStart, Exchange, Loading, Full}
  <2>1. n = o
    BY <1>5 DEF processDBDEvent
  <2>. QED  BY <2>1
<1>. QED  BY <1>1, <1>2, <1>3, <1>4, <1>5


\* A message that is not there is NoUpd.
BlankOrReal(m) == m.kind = "none" => m = NoUpd

\* An update either names the role that the router ids give or leaves alone a
\* role that is already right when it carries the entry to Exchange.
KeepsRole(o, r, m) ==
  m.kind = "upd" =>
    m.slave = {Peer(r) > r} \/ (m.slave = {} /\ (m.st >= Exchange => o.slave = (Peer(r) > r)))

\* A router that lives and has lost no entry.  An entry whose NBRADD is still
\* to be applied is a stub below Exchange, so the only message that can wait
\* behind it either names the role or stays below Exchange.
Undisturbed(o, r) ==
  /\ ~o.dying
  /\ o.upd.kind \in {"none", "upd", "add"}
  /\ o.nbrMsg.kind \in {"none", "upd"} /\ o.rxMsg.kind \in {"none", "upd"}
  /\ ~o.there => o.upd = NoUpd /\ o.nbrMsg = NoUpd /\ o.rxMsg = NoUpd
  /\ o.there /\ ~o.mutex => o.upd.kind = "add"
  /\ o.upd.kind = "add" =>
        /\ o.st < Exchange /\ ~o.mutex /\ o.rxMsg = NoUpd
        /\ o.nbrMsg.slave # {} \/ o.nbrMsg.st < Exchange
  /\ KeepsRole(o, r, o.upd) /\ KeepsRole(o, r, o.nbrMsg) /\ KeepsRole(o, r, o.rxMsg)
  /\ o.st >= Exchange => o.slave = (Peer(r) > r)

\* What holds of one router's record whatever has happened.
EntryOK(o) ==
  /\ o \in OnbrRecs
  /\ BlankOrReal(o.upd) /\ BlankOrReal(o.nbrMsg) /\ BlankOrReal(o.rxMsg)
  /\ o.ok /\ o.there /\ o.mutex => o.timer \/ o.dying \/ o.upd.kind = "del"

\* The inductive invariant.
OnbrInv ==
  /\ onbrEvents \in 0..MaxOnbrEvents
  /\ onbrPast \subseteq {"early", "ignored", "overtaken", "deleted", "lost"}
  /\ DOMAIN onbr = Routers /\ DOMAIN onbrNet = Routers
  /\ \A r \in Routers : EntryOK(onbr[r]) /\ onbr[r].out = {} /\ BagToSet(onbrNet[r]) \subseteq OnbrPkts
  /\ NeighborThreadsLive
  /\ "deleted" \notin onbrPast => \A r \in Routers : onbr[r].ok => Undisturbed(onbr[r], r)

LEMMA NoUpdIs == NoUpd \in OnbrMsgs /\ NoUpd.kind = "none" /\ NoUpd.slave = {} /\ NoUpd.st = 0
BY DEF NoUpd, OnbrMsgs

\* What a router keeps once its packets are on their way.
Shipped(o) == [o EXCEPT !.out = {}]
LEMMA ShippedIs ==
  ASSUME NEW o, NEW r \in Routers, EntryOK(o)
  PROVE  /\ EntryOK(Shipped(o)) /\ Shipped(o).out = {} /\ Shipped(o).ok = o.ok
         /\ Undisturbed(o, r) => Undisturbed(Shipped(o), r)
<1>. DEFINE s == Shipped(o)
<1>1. o \in OnbrRecs
  BY DEF EntryOK
<1>2. /\ s \in OnbrRecs /\ s.out = {} /\ s.ok = o.ok /\ Silent(s, o)
  BY <1>1 DEF Shipped, OnbrRecs, Silent, SameEntry
<1>. HIDE DEF s
<1>3. EntryOK(s)
  BY <1>2 DEF EntryOK, Silent, SameEntry
<1>4. Undisturbed(o, r) => Undisturbed(s, r)
  BY <1>2 DEF Undisturbed, Silent, SameEntry, KeepsRole
<1>. QED  BY <1>2, <1>3, <1>4 DEF s

LEMMA SilentKeeps ==
  ASSUME NEW o, NEW n \in OnbrRecs, NEW r \in Routers, EntryOK(o), Silent(n, o), n.ok => o.ok
  PROVE  EntryOK(n) /\ (Undisturbed(o, r) => Undisturbed(n, r))
<1>1. EntryOK(n)
  BY DEF EntryOK, Silent, SameEntry
<1>2. Undisturbed(o, r) => Undisturbed(n, r)
  BY DEF Undisturbed, Silent, SameEntry, KeepsRole
<1>. QED  BY <1>1, <1>2

LEMMA ToldKeepsEntry ==
  ASSUME NEW o, NEW n \in OnbrRecs, NEW m, EntryOK(o), Told(n, o, m), m.kind # "none",
         n.ok => o.ok
  PROVE  EntryOK(n)
<1>1. CASE o.upd = NoUpd
  BY <1>1, NoUpdIs DEF EntryOK, Told, SameEntry, BlankOrReal
<1>2. CASE o.upd # NoUpd
  BY <1>2, NoUpdIs DEF EntryOK, Told, SameEntry, BlankOrReal
<1>. QED  BY <1>1, <1>2

LEMMA FittingKeepsRole ==
  ASSUME NEW o \in OnbrRecs, NEW r \in Routers, NEW m, Fits(o, r, m), o.st >= Exchange => o.slave = (Peer(r) > r)
  PROVE  KeepsRole(o, r, m)
BY DEF Fits, KeepsRole

LEMMA ToldKeepsOrder ==
  ASSUME NEW o, NEW n, NEW r \in Routers, NEW m, EntryOK(o), Undisturbed(o, r), o.nbrMsg = NoUpd,
         Fits(o, r, m), Told(n, o, m)
  PROVE  Undisturbed(n, r)
<1>1. KeepsRole(o, r, m) /\ o \in OnbrRecs
  BY FittingKeepsRole DEF EntryOK, Undisturbed
<1>2. SameEntry(n, o) /\ n.rxMsg = o.rxMsg /\ m.kind = "upd" /\ o.there
  BY DEF Told, Fits
<1>3. CASE o.upd = NoUpd
  <2>1. n.upd = m /\ n.nbrMsg = NoUpd
    BY <1>3 DEF Told
  <2>. QED  BY <1>1, <1>2, <1>3, <2>1, NoUpdIs DEF Undisturbed, SameEntry, KeepsRole
<1>4. CASE o.upd # NoUpd
  <2>1. n.upd = o.upd /\ n.nbrMsg = m
    BY <1>4 DEF Told
  <2>2. o.upd.kind = "add" => m.slave # {} \/ m.st < Exchange
    <3>1. m.st \in Nat /\ o.st \in Nat
      BY <1>1 DEF Fits, OnbrMsgs, OnbrRecs
    <3>. QED  BY <3>1 DEF Fits, Undisturbed
  <2>. QED  BY <1>1, <1>2, <1>4, <2>1, <2>2 DEF Undisturbed, SameEntry, KeepsRole
<1>. QED  BY <1>3, <1>4

LEMMA TellingKeeps ==
  ASSUME NEW o, NEW n \in OnbrRecs, NEW r \in Routers, EntryOK(o), o.nbrMsg = NoUpd, n.ok => o.ok,
         \E m : Fits(o, r, m) /\ Told(n, o, m)
  PROVE  EntryOK(n) /\ (Undisturbed(o, r) => Undisturbed(n, r))
<1>1. PICK m : Fits(o, r, m) /\ Told(n, o, m)
  OBVIOUS
<1>2. m.kind # "none"
  BY <1>1 DEF Fits
<1>. QED  BY <1>1, <1>2, ToldKeepsEntry, ToldKeepsOrder

-----------------------------------------------------------------------------
(* Hellos *)

LEMMA HelloKnownIs ==
  ASSUME OnbrConstants, NEW o \in OnbrRecs, NEW r \in Routers, NEW two \in BOOLEAN, NEW now \in Nat, o.there
  PROVE  LET n == HelloKnown(o, two, now)
         IN  n \in OnbrRecs /\ n.ok = o.ok /\ \E m : Fits(o, r, m) /\ Told(n, o, m)
<1>. DEFINE start == two /\ o.st = TwoWay
            st == IF ~two THEN Init2
                  ELSE IF o.st = TwoWay THEN ExchangeStart
                  ELSE IF o.st < TwoWay THEN TwoWay ELSE 0
            seq == IF start /\ o.seq = 0 THEN now ELSE o.seq
            m == [kind |-> "upd", st |-> st, seq |-> IF start /\ o.seq = 0 THEN seq ELSE -1,
                  slave |-> {}, ev |-> o.ev]
            t == Tell(o, m)
            c == ConstructAndSendDbdPacket(t, TRUE, TRUE, TRUE, seq, FALSE)
<1>0. HelloKnown(o, two, now) = IF start THEN c.o ELSE t
  BY DEF HelloKnown
<1>1. seq \in Nat /\ st \in {0, 3, 4, 5} /\ o.ev \in {"none", "2way", "done"}
  BY DEF OnbrRecs
<1>. HIDE DEF st, seq, start
<1>2. m \in OnbrMsgs
  BY <1>1 DEF OnbrMsgs
<1>3. Fits(o, r, m)
  BY <1>1, <1>2 DEF Fits
<1>. HIDE DEF m
<1>4. t \in OnbrRecs /\ Told(t, o, m) /\ t.ok = o.ok
  BY <1>2, TellIs
<1>. HIDE DEF t
<1>5. c.o \in OnbrRecs /\ Silent(c.o, t) /\ c.o.ok = t.ok
  BY <1>1, <1>4, ConstructIs
<1>. HIDE DEF c
<1>6. Told(c.o, o, m)
  BY <1>4, <1>5, SilenceAfterTold
<1>. QED  BY <1>0, <1>3, <1>4, <1>5, <1>6

LEMMA HelloNewIs ==
  ASSUME NEW o, NEW r \in Routers, NEW two \in BOOLEAN, EntryOK(o), o.nbrMsg = NoUpd, ~o.there
  PROVE  LET n == HelloNew(o, two)
         IN  EntryOK(n) /\ n.ok = o.ok /\ (Undisturbed(o, r) => Undisturbed(n, r))
<1>. DEFINE st == IF two THEN ExchangeStart ELSE Init2
            a == [o EXCEPT !.there = TRUE, !.st = st, !.seq = 0,
                           !.slave = FALSE, !.ev = "none", !.mutex = FALSE]
            b == initNeighborMdata(a)
            m == [kind |-> "add", st |-> st, seq |-> -1, slave |-> {}, ev |-> "none"]
            n == HelloNew(o, two)
<1>0. n = Tell(b, m)
  BY DEF HelloNew
<1>1. o \in OnbrRecs /\ st \in {3, 5} /\ st \in 0..Full
  BY DEF EntryOK
<1>. HIDE DEF st
<1>2. m \in OnbrMsgs
  BY <1>1 DEF OnbrMsgs
<1>3. /\ b \in OnbrRecs /\ b.there /\ b.st = st /\ ~b.mutex /\ b.ok = o.ok /\ b.dying = o.dying
      /\ b.upd = o.upd /\ b.nbrMsg = o.nbrMsg /\ b.rxMsg = o.rxMsg
  <2>1. a \in OnbrRecs
    BY <1>1 DEF OnbrRecs
  <2>2. /\ a.there /\ a.st = st /\ ~a.mutex /\ a.ok = o.ok /\ a.dying = o.dying
        /\ a.upd = o.upd /\ a.nbrMsg = o.nbrMsg /\ a.rxMsg = o.rxMsg
    BY <1>1 DEF OnbrRecs
  <2>. HIDE DEF a
  <2>. QED  BY <2>1, <2>2 DEF OnbrRecs, initNeighborMdata
<1>. HIDE DEF b
<1>4. EntryOK(b)
  BY <1>3 DEF EntryOK
<1>5. m.kind = "add"
  OBVIOUS
<1>. HIDE DEF m
<1>6. n \in OnbrRecs /\ Told(n, b, m) /\ n.ok = b.ok
  BY <1>0, <1>2, <1>3, TellIs
<1>. HIDE DEF n
<1>7. EntryOK(n)
  BY <1>4, <1>5, <1>6, ToldKeepsEntry
<1>8. ASSUME Undisturbed(o, r) PROVE Undisturbed(n, r)
  <2>1. o.upd = NoUpd /\ o.rxMsg = NoUpd /\ ~o.dying
    BY <1>8 DEF Undisturbed
  <2>2. /\ n.upd = m /\ n.nbrMsg = NoUpd /\ n.rxMsg = NoUpd /\ ~n.dying /\ n.there /\ ~n.mutex
        /\ n.st = st
    BY <2>1, <1>3, <1>6 DEF Told, SameEntry
  <2>. QED  BY <2>2, <1>1, <1>5, NoUpdIs DEF Undisturbed, KeepsRole
<1>. QED  BY <1>3, <1>6, <1>7, <1>8 DEF n

-----------------------------------------------------------------------------
(* Requests and updates, floods *)

LEMMA UpdPktsAre ==
  ASSUME NEW S \in SUBSET OnbrKeys
  PROVE  {LsaUpdPkt(k) : k \in S} \in SUBSET OnbrPkts
<1>1. NoDbd \in OnbrDbds
  BY DEF NoDbd, OnbrDbds
<1>2. ASSUME NEW k \in S PROVE LsaUpdPkt(k) \in OnbrPkts
  BY <1>1 DEF LsaUpdPkt, OnbrPkts
<1>. QED  BY <1>2

LEMMA FullEventIs ==
  ASSUME NEW o, NEW r \in Routers, EntryOK(o), o.rxMsg = NoUpd, o.there, o.st >= Exchange
  PROVE  LET n == CheckNeighborFullEvent(o)
         IN  EntryOK(n) /\ n.ok = o.ok /\ (Undisturbed(o, r) => Undisturbed(n, r))
<1>. DEFINE m == [kind |-> "upd", st |-> Full, seq |-> -1, slave |-> {}, ev |-> o.ev]
            n == RxTell(o, m)
<1>1. o \in OnbrRecs /\ o.ev \in {"none", "2way", "done"} /\ o.st \in Nat
  BY DEF EntryOK, OnbrRecs
<1>2. m \in OnbrMsgs /\ m.kind = "upd" /\ m.slave = {}
  BY <1>1 DEF OnbrMsgs
<1>. HIDE DEF m
<1>5. EntryOK(n) /\ n.ok = o.ok /\ (Undisturbed(o, r) => Undisturbed(n, r))
  <2>3. CASE o.upd = NoUpd
    <3>1. /\ n \in OnbrRecs /\ n.ok = o.ok /\ SameEntry(n, o)
          /\ n.upd = m /\ n.nbrMsg = o.nbrMsg /\ n.rxMsg = o.rxMsg
      BY <1>1, <1>2, <2>3 DEF RxTell, OnbrRecs, SameEntry
    <3>. HIDE DEF n
    <3>2. EntryOK(n)
      BY <3>1, <1>2, <2>3, NoUpdIs DEF EntryOK, SameEntry, BlankOrReal
    <3>3. Undisturbed(o, r) => Undisturbed(n, r)
      BY <3>1, <1>2, <2>3, NoUpdIs DEF Undisturbed, SameEntry, KeepsRole
    <3>. QED  BY <3>1, <3>2, <3>3
  <2>4. CASE o.upd # NoUpd
    <3>1. /\ n \in OnbrRecs /\ n.ok = o.ok /\ SameEntry(n, o)
          /\ n.upd = o.upd /\ n.nbrMsg = o.nbrMsg /\ n.rxMsg = m
      BY <1>1, <1>2, <2>4 DEF RxTell, OnbrRecs, SameEntry
    <3>. HIDE DEF n
    <3>2. EntryOK(n)
      BY <3>1, <1>2, <2>4 DEF EntryOK, SameEntry, BlankOrReal
    <3>3. Undisturbed(o, r) => Undisturbed(n, r)
      BY <3>1, <1>1, <1>2, <2>4 DEF Undisturbed, SameEntry, KeepsRole
    <3>. QED  BY <3>1, <3>2, <3>3
  <2>. QED  BY <2>3, <2>4
<1>6. CheckNeighborFullEvent(o) = IF o.st = Full \/ o.req.open # {} THEN o ELSE n
  BY DEF CheckNeighborFullEvent, m
<1>. HIDE DEF n
<1>. QED  BY <1>5, <1>6

LEMMA ReceivedIs ==
  ASSUME NEW o, NEW r \in Routers, NEW p \in OnbrPkts, EntryOK(o), o.rxMsg = NoUpd, p.t # "dbd"
  PROVE  LET n == ProcessRxNbrPkt(o, r, p)
         IN  EntryOK(n) /\ n.ok = o.ok /\ (Undisturbed(o, r) => Undisturbed(n, r))
<1>. DEFINE n == ProcessRxNbrPkt(o, r, p)
<1>1. o \in OnbrRecs /\ o.lsdb \in SUBSET OnbrKeys
  BY DEF EntryOK, OnbrRecs
<1>2. CASE ~(o.there /\ o.st >= Exchange)
  <2>1. n = o
    BY <1>2 DEF ProcessRxNbrPkt
  <2>. QED  BY <2>1
<1>3. CASE o.there /\ o.st >= Exchange /\ p.t = "req"
  <2>. DEFINE ps == {LsaUpdPkt(k) : k \in p.keys \cap o.lsdb}
  <2>1. n = Send(o, ps)
    BY <1>3 DEF ProcessRxNbrPkt, DecodeLSAReq
  <2>2. ps \in SUBSET OnbrPkts
    BY <1>1, UpdPktsAre
  <2>. HIDE DEF ps
  <2>. QED  BY <2>1, <2>2, <1>1, SendIs, SilentKeeps
<1>4. CASE o.there /\ o.st >= Exchange /\ p.t # "req"
  <2>. DEFINE k == CHOOSE k \in p.keys : TRUE
              l == IF lsaAddCheck(r, k) THEN o.lsdb \cup {k} ELSE o.lsdb
              b == [o EXCEPT !.lsdb = l]
  <2>1. k \in OnbrKeys
    <3>1. p.keys # {} /\ p.keys \in SUBSET OnbrKeys
      BY <1>4 DEF OnbrPkts
    <3>. QED  BY <3>1
  <2>2. n = CheckNeighborFullEvent(b)
    BY <1>4 DEF ProcessRxNbrPkt, DecodeLSAUpd
  <2>. HIDE DEF k
  <2>3. l \in SUBSET OnbrKeys
    BY <1>1, <2>1
  <2>. HIDE DEF l
  <2>4. b \in OnbrRecs /\ Silent(b, o) /\ b.ok = o.ok
    BY <1>1, <2>3 DEF OnbrRecs, Silent, SameEntry
  <2>. HIDE DEF b
  <2>5. /\ EntryOK(b) /\ (Undisturbed(o, r) => Undisturbed(b, r))
        /\ b.rxMsg = NoUpd /\ b.there /\ b.st >= Exchange
    BY <1>4, <2>4, SilentKeeps DEF Silent, SameEntry
  <2>. QED  BY <2>2, <2>4, <2>5, FullEventIs
<1>. QED  BY <1>2, <1>3, <1>4

-----------------------------------------------------------------------------
(* UpdateNeighborConf *)

\* An entry once UpdateNeighborConf has applied its message.
Applied(u, o) ==
  /\ u \in OnbrRecs /\ u.nbrMsg = o.nbrMsg /\ u.rxMsg = o.rxMsg
  /\ u.ok /\ u.there /\ u.mutex => u.timer

LEMMA NbrDelIs == ASSUME NEW o \in OnbrRecs PROVE Applied(NbrDel(o), o)
<1>. DEFINE a == [o EXCEPT !.there = FALSE, !.st = 0, !.seq = 0, !.slave = FALSE, !.ev = "none"]
<1>1. a \in OnbrRecs /\ ~a.there /\ a.nbrMsg = o.nbrMsg /\ a.rxMsg = o.rxMsg
  <2>1. 0 \in 0..Full /\ 0 \in Nat
    OBVIOUS
  <2>2. a \in OnbrRecs
    BY <2>1 DEF OnbrRecs
  <2>3. ~a.there /\ a.nbrMsg = o.nbrMsg /\ a.rxMsg = o.rxMsg
    BY DEF OnbrRecs
  <2>. QED  BY <2>2, <2>3
<1>2. NbrDel(o) = [a EXCEPT !.mutex = FALSE, !.timer = FALSE, !.stray = @ \/ o.timer]
  BY DEF NbrDel, OnbrRecs
<1>. HIDE DEF a
<1>3. NbrDel(o) \in OnbrRecs
  BY <1>1, <1>2 DEF OnbrRecs
<1>4. ~NbrDel(o).there /\ NbrDel(o).nbrMsg = o.nbrMsg /\ NbrDel(o).rxMsg = o.rxMsg
  BY <1>1, <1>2 DEF OnbrRecs
<1>. QED  BY <1>3, <1>4 DEF Applied

LEMMA NbrAddIs ==
  ASSUME OnbrConstants, NEW o \in OnbrRecs, NEW now \in Nat
  PROVE  LET u == NbrAdd(o, now)
         IN  /\ Applied(u, o) /\ u.ok = o.ok /\ u.there /\ u.mutex /\ u.dying = o.dying
             /\ u.st < Exchange
<1>. DEFINE m == o.upd
            two == m.st >= TwoWay
            l == updateLSALists(o)
            n == [l EXCEPT
                !.there = TRUE, !.st = IF two THEN ExchangeStart ELSE m.st,
                !.seq = IF two THEN now ELSE 0, !.slave = FALSE,
                !.ev = IF two THEN "2way" ELSE m.ev, !.mutex = TRUE, !.timer = TRUE]
            c == ConstructAndSendDbdPacket(n, TRUE, TRUE, TRUE, now, FALSE)
<1>0. NbrAdd(o, now) = IF two THEN c.o ELSE n
  BY DEF NbrAdd
<1>1. l \in OnbrRecs /\ Silent(l, o) /\ l.ok = o.ok
  BY SmallStepsAreSilent
<1>2. m \in OnbrMsgs /\ m.st \in 0..Full /\ m.ev \in {"none", "2way", "done"}
  BY DEF OnbrRecs, OnbrMsgs
<1>. HIDE DEF l, m
<1>3. /\ n \in OnbrRecs /\ n.there /\ n.mutex /\ n.timer /\ n.ok = l.ok /\ n.dying = l.dying
      /\ n.nbrMsg = l.nbrMsg /\ n.rxMsg = l.rxMsg
      /\ n.st < Exchange
  <2>. DEFINE st == IF two THEN ExchangeStart ELSE m.st
              seq == IF two THEN now ELSE 0
              ev == IF two THEN "2way" ELSE m.ev
              a == [l EXCEPT !.there = TRUE, !.st = st, !.seq = seq, !.slave = FALSE]
  <2>1. st \in 0..Full /\ seq \in Nat /\ ev \in {"none", "2way", "done"} /\ st < Exchange
    BY <1>2
  <2>. HIDE DEF st, seq, ev
  <2>2. /\ a \in OnbrRecs /\ a.there /\ a.ok = l.ok /\ a.dying = l.dying
        /\ a.nbrMsg = l.nbrMsg /\ a.rxMsg = l.rxMsg /\ a.st = st
    BY <1>1, <2>1 DEF OnbrRecs
  <2>3. n = [a EXCEPT !.ev = ev, !.mutex = TRUE, !.timer = TRUE]
    BY <1>1 DEF OnbrRecs, st, seq, ev
  <2>. HIDE DEF a, n
  <2>. QED  BY <2>1, <2>2, <2>3 DEF OnbrRecs
<1>. HIDE DEF n
<1>4. c.o \in OnbrRecs /\ Silent(c.o, n) /\ c.o.ok = n.ok
  BY <1>3, ConstructIs
<1>. HIDE DEF c
<1>5. Applied(n, o) /\ n.ok = o.ok /\ n.dying = o.dying
  BY <1>1, <1>3 DEF Applied, Silent, SameEntry
<1>6. /\ Applied(c.o, o) /\ c.o.ok = o.ok /\ c.o.there /\ c.o.mutex /\ c.o.dying = o.dying
      /\ c.o.st = n.st
  BY <1>3, <1>4, <1>5 DEF Applied, Silent, SameEntry
<1>. QED  BY <1>0, <1>3, <1>5, <1>6

LEMMA NbrUpdIs ==
  ASSUME NEW o \in OnbrRecs
  PROVE  LET u == NbrUpd(o) m == o.upd
         IN  /\ Applied(u, o) /\ u.there /\ u.mutex = o.mutex /\ u.dying = o.dying
             /\ o.mutex => u.ok = o.ok
             /\ u.st = IF m.st = 0 THEN o.st ELSE m.st
             /\ u.slave = IF m.slave = {} THEN o.slave ELSE TRUE \in m.slave
<1>. DEFINE m == o.upd
            st == IF m.st = 0 THEN o.st ELSE m.st
            seq == IF m.seq = -1 THEN o.seq ELSE m.seq
            slave == IF m.slave = {} THEN o.slave ELSE TRUE \in m.slave
            n == [o EXCEPT !.there = TRUE, !.st = st, !.seq = seq, !.slave = slave, !.ev = m.ev]
<1>0. NbrUpd(o) = IF o.mutex THEN [n EXCEPT !.timer = TRUE] ELSE Crash(n)
  BY DEF NbrUpd, OnbrRecs
<1>1. m \in OnbrMsgs /\ st \in 0..Full /\ seq \in Nat /\ slave \in BOOLEAN /\ m.ev \in {"none", "2way", "done"}
  <2>1. m \in OnbrMsgs /\ o.st \in 0..Full /\ o.seq \in Nat /\ o.slave \in BOOLEAN
    BY DEF OnbrRecs
  <2>. HIDE DEF m
  <2>2. m.st \in 0..Full /\ m.seq \in Nat \cup {-1} /\ m.ev \in {"none", "2way", "done"}
    BY <2>1 DEF OnbrMsgs
  <2>3. (TRUE \in m.slave) \in BOOLEAN
    OBVIOUS
  <2>. QED  BY <2>1, <2>2, <2>3
<1>. HIDE DEF st, seq, slave, m
<1>2. /\ n \in OnbrRecs /\ n.there /\ n.mutex = o.mutex /\ n.ok = o.ok /\ n.dying = o.dying
      /\ n.nbrMsg = o.nbrMsg /\ n.rxMsg = o.rxMsg /\ n.st = st /\ n.slave = slave
  BY <1>1 DEF OnbrRecs
<1>. HIDE DEF n
<1>3. CASE o.mutex
  <2>. DEFINE t == [n EXCEPT !.timer = TRUE]
  <2>1. /\ t \in OnbrRecs /\ t.there /\ t.mutex = n.mutex /\ t.ok = n.ok /\ t.timer /\ t.dying = n.dying
        /\ t.nbrMsg = n.nbrMsg /\ t.rxMsg = n.rxMsg /\ t.st = n.st /\ t.slave = n.slave
    BY <1>2 DEF OnbrRecs
  <2>. HIDE DEF t
  <2>2. NbrUpd(o) = t
    BY <1>0, <1>3 DEF t
  <2>. QED  BY <1>2, <1>3, <2>1, <2>2 DEF Applied, st, slave, m
<1>4. CASE ~o.mutex
  <2>. DEFINE t == Crash(n)
  <2>1. t \in OnbrRecs /\ Silent(t, n) /\ ~t.ok
    BY <1>2, CrashIs DEF Crash, OnbrRecs
  <2>. HIDE DEF t
  <2>2. NbrUpd(o) = t
    BY <1>0, <1>4 DEF t
  <2>. QED  BY <1>2, <1>4, <2>1, <2>2 DEF Applied, Silent, SameEntry, st, slave, m
<1>. QED  BY <1>3, <1>4

LEMMA NoUpdFieldIs ==
  ASSUME NEW a \in OnbrRecs
  PROVE  LET u == [a EXCEPT !.upd = NoUpd]
         IN  /\ u \in OnbrRecs /\ u.upd = NoUpd /\ u.nbrMsg = a.nbrMsg /\ u.rxMsg = a.rxMsg
             /\ u.ok = a.ok /\ SameEntry(u, a)
BY NoUpdIs DEF OnbrRecs, SameEntry

LEMMA NamedRole == ASSUME NEW b \in BOOLEAN PROVE (TRUE \in {b}) = b /\ {b} # {}
<1>0. TRUE # FALSE
  BY Zenon
<1>1. TRUE \notin {FALSE} /\ TRUE \in {TRUE}
  BY <1>0, Zenon
<1>2. {b} # {}
  BY Zenon
<1>3. CASE b = TRUE
  <2>1. (TRUE \in {b}) = TRUE
    BY <1>1, <1>3, Zenon
  <2>. QED  BY <2>1, <1>2, <1>3, Zenon
<1>4. CASE b = FALSE
  <2>0. ~(TRUE \in {b})
    BY <1>1, <1>4, Zenon
  <2>1. (TRUE \in {b}) = FALSE
    <3>. DEFINE P == TRUE \in {b}
    <3>1. P \in BOOLEAN
      OBVIOUS
    <3>2. ~P
      BY <2>0, Zenon
    <3>. HIDE DEF P
    <3>3. P = FALSE
      BY <3>1, <3>2
    <3>. QED  BY <3>3 DEF P
  <2>. QED  BY <2>1, <1>2, <1>4, Zenon
<1>. QED  BY <1>3, <1>4, Zenon

LEMMA ConfIs ==
  ASSUME OnbrConstants, NEW o, NEW r \in Routers, NEW now \in Nat, EntryOK(o), o.ok, o.upd # NoUpd
  PROVE  LET u == UpdateNeighborConf(o, now)
         IN  /\ u \in OnbrRecs /\ u.upd = NoUpd /\ u.nbrMsg = o.nbrMsg /\ u.rxMsg = o.rxMsg
             /\ u.ok /\ u.there /\ u.mutex => u.timer
             /\ Undisturbed(o, r) => u.ok /\ u.there /\ u.mutex /\ Undisturbed(u, r)
<1>. DEFINE a == CASE o.upd.kind = "del" -> NbrDel(o)
                   [] o.upd.kind = "add" -> NbrAdd(o, now)
                   [] OTHER -> NbrUpd(o)
            u == [a EXCEPT !.upd = NoUpd]
<1>0. UpdateNeighborConf(o, now) = u
  BY DEF UpdateNeighborConf
<1>1. o \in OnbrRecs /\ o.upd.kind # "none" /\ o.upd \in OnbrMsgs /\ o.slave \in BOOLEAN /\ o.st \in Nat
  BY DEF EntryOK, BlankOrReal, OnbrRecs
<1>2. Applied(a, o)
  BY <1>1, NbrDelIs, NbrAddIs, NbrUpdIs
<1>3. ASSUME Undisturbed(o, r)
      PROVE  /\ a.ok /\ a.there /\ a.mutex /\ ~a.dying
             /\ a.st >= Exchange => a.slave = (Peer(r) > r)
             /\ KeepsRole(a, r, o.nbrMsg) /\ KeepsRole(a, r, o.rxMsg)
  <2>0. o.there /\ ~o.dying
    BY <1>3 DEF Undisturbed
  <2>1. CASE o.upd.kind = "add"
    <3>1. a = NbrAdd(o, now)
      BY <2>1
    <3>2. o.upd.st \in Nat /\ o.nbrMsg \in OnbrMsgs /\ o.nbrMsg.st \in Nat
      BY <1>1 DEF OnbrMsgs, OnbrRecs
    <3>3. a.ok /\ a.there /\ a.mutex /\ ~a.dying /\ a.st < Exchange /\ a.st \in Nat
      BY <3>1, <3>2, <1>1, <2>0, <2>1, <1>2, NbrAddIs DEF Applied, OnbrRecs
    <3>. HIDE DEF a
    <3>4. KeepsRole(a, r, o.nbrMsg)
      BY <3>2, <1>3, <2>1 DEF KeepsRole, Undisturbed
    <3>5. KeepsRole(a, r, o.rxMsg)
      BY <1>3, <2>1, NoUpdIs DEF KeepsRole, Undisturbed
    <3>. QED  BY <3>3, <3>4, <3>5
  <2>2. CASE o.upd.kind = "upd"
    <3>1. a = NbrUpd(o) /\ o.mutex
      BY <2>2, <2>0, <1>3 DEF Undisturbed
    <3>2. /\ a.ok /\ a.there /\ a.mutex /\ ~a.dying
          /\ a.st = IF o.upd.st = 0 THEN o.st ELSE o.upd.st
          /\ a.slave = IF o.upd.slave = {} THEN o.slave ELSE TRUE \in o.upd.slave
      BY <3>1, <1>1, <2>0, NbrUpdIs
    <3>. HIDE DEF a
    <3>3. o.upd.slave = {Peer(r) > r} \/ (o.upd.slave = {} /\ (o.upd.st >= Exchange => o.slave = (Peer(r) > r)))
      BY <1>3, <2>2 DEF Undisturbed, KeepsRole
    <3>. DEFINE role == Peer(r) > r
    <3>9. role \in BOOLEAN
      BY PeerFacts
    <3>0. (TRUE \in {role}) = role /\ {role} # {}
      <4>. HIDE DEF role
      <4>. QED  BY <3>9, NamedRole, Zenon
    <3>7. o.upd.slave = {role} => a.slave = role
      BY <3>0, <3>2
    <3>8. o.upd.slave = {} => a.slave = o.slave
      BY <3>2
    <3>4. a.slave = o.slave \/ a.slave = (Peer(r) > r)
      BY <3>3, <3>7, <3>8
    <3>5. a.st >= Exchange => a.slave = (Peer(r) > r)
      <4>1. CASE o.upd.slave = {}
        BY <4>1, <3>2, <3>3, <1>3 DEF Undisturbed
      <4>2. CASE o.upd.slave # {}
        BY <4>2, <3>3, <3>7
      <4>. QED  BY <4>1, <4>2
    <3>6. KeepsRole(a, r, o.nbrMsg) /\ KeepsRole(a, r, o.rxMsg)
      BY <1>3, <3>4 DEF Undisturbed, KeepsRole
    <3>. QED  BY <3>2, <3>5, <3>6
  <2>. QED  BY <1>1, <1>3, <2>1, <2>2 DEF Undisturbed
<1>. HIDE DEF a
<1>4. /\ u \in OnbrRecs /\ u.upd = NoUpd /\ u.nbrMsg = a.nbrMsg /\ u.rxMsg = a.rxMsg
      /\ u.ok = a.ok /\ SameEntry(u, a)
  BY <1>2, NoUpdFieldIs DEF Applied
<1>. HIDE DEF u
<1>5. /\ u.nbrMsg = o.nbrMsg /\ u.rxMsg = o.rxMsg
      /\ u.ok /\ u.there /\ u.mutex => u.timer
  BY <1>2, <1>4 DEF Applied, SameEntry
<1>6. ASSUME Undisturbed(o, r) PROVE u.ok /\ u.there /\ u.mutex /\ Undisturbed(u, r)
  <2>1. u.ok /\ u.there /\ u.mutex /\ ~u.dying /\ (u.st >= Exchange => u.slave = (Peer(r) > r))
    BY <1>3, <1>4, <1>6 DEF SameEntry
  <2>2. KeepsRole(u, r, u.nbrMsg) /\ KeepsRole(u, r, u.rxMsg) /\ KeepsRole(u, r, u.upd)
    BY <1>3, <1>4, <1>5, <1>6, NoUpdIs DEF SameEntry, KeepsRole
  <2>3. u.nbrMsg.kind \in {"none", "upd"} /\ u.rxMsg.kind \in {"none", "upd"}
    BY <1>5, <1>6 DEF Undisturbed
  <2>. QED  BY <2>1, <2>2, <2>3, <1>4, NoUpdIs DEF Undisturbed
<1>. QED  BY <1>0, <1>4, <1>5, <1>6

LEMMA TakesNextIs ==
  ASSUME NEW u, NEW r \in Routers, NEW n \in TakesNext(u), u \in OnbrRecs, u.upd = NoUpd,
         BlankOrReal(u.nbrMsg), BlankOrReal(u.rxMsg), u.ok /\ u.there /\ u.mutex => u.timer
  PROVE  EntryOK(n) /\ n.ok = u.ok /\ (u.there /\ u.mutex /\ Undisturbed(u, r) => Undisturbed(n, r))
<1>0. BlankOrReal(NoUpd)
  BY DEF BlankOrReal
<1>1. CASE n = u
  <2>1. EntryOK(u)
    BY <1>0 DEF EntryOK
  <2>. QED  BY <2>1, <1>1
<1>2. CASE n = [u EXCEPT !.upd = u.nbrMsg, !.nbrMsg = NoUpd]
  <2>1. /\ n \in OnbrRecs /\ n.upd = u.nbrMsg /\ n.nbrMsg = NoUpd /\ n.rxMsg = u.rxMsg
        /\ n.ok = u.ok /\ SameEntry(n, u)
    <3>1. n \in OnbrRecs
      BY <1>2, NoUpdIs DEF OnbrRecs
    <3>2. /\ n.upd = u.nbrMsg /\ n.nbrMsg = NoUpd /\ n.rxMsg = u.rxMsg
          /\ n.ok = u.ok /\ SameEntry(n, u)
      BY <1>2 DEF OnbrRecs, SameEntry
    <3>. QED  BY <3>1, <3>2
  <2>2. EntryOK(n)
    BY <2>1, <1>0 DEF EntryOK, SameEntry
  <2>3. u.there /\ u.mutex /\ Undisturbed(u, r) => Undisturbed(n, r)
    BY <2>1, NoUpdIs DEF Undisturbed, SameEntry, KeepsRole
  <2>. QED  BY <2>1, <2>2, <2>3
<1>3. CASE n = [u EXCEPT !.upd = u.rxMsg, !.rxMsg = NoUpd]
  <2>1. /\ n \in OnbrRecs /\ n.upd = u.rxMsg /\ n.nbrMsg = u.nbrMsg /\ n.rxMsg = NoUpd
        /\ n.ok = u.ok /\ SameEntry(n, u)
    <3>1. n \in OnbrRecs
      BY <1>3, NoUpdIs DEF OnbrRecs
    <3>2. /\ n.upd = u.rxMsg /\ n.nbrMsg = u.nbrMsg /\ n.rxMsg = NoUpd
          /\ n.ok = u.ok /\ SameEntry(n, u)
      BY <1>3 DEF OnbrRecs, SameEntry
    <3>. QED  BY <3>1, <3>2
  <2>2. EntryOK(n)
    BY <2>1, <1>0 DEF EntryOK, SameEntry
  <2>3. u.there /\ u.mutex /\ Undisturbed(u, r) => Undisturbed(n, r)
    BY <2>1, NoUpdIs DEF Undisturbed, SameEntry, KeepsRole
  <2>. QED  BY <2>1, <2>2, <2>3
<1>4. n = u \/ n = [u EXCEPT !.upd = u.nbrMsg, !.nbrMsg = NoUpd] \/ n = [u EXCEPT !.upd = u.rxMsg, !.rxMsg = NoUpd]
  BY DEF TakesNext
<1>. QED  BY <1>1, <1>2, <1>3, <1>4

-----------------------------------------------------------------------------
(* Deletion *)

DelMsg == [NoUpd EXCEPT !.kind = "del"]
LEMMA DelMsgIs == DelMsg \in OnbrMsgs /\ DelMsg.kind = "del"
BY DEF DelMsg, NoUpd, OnbrMsgs

LEMMA DeadTimerIs ==
  ASSUME NEW o, EntryOK(o), NEW t \in {[o EXCEPT !.timer = FALSE], [o EXCEPT !.stray = FALSE]}
  PROVE  LET n == IF t.there THEN [resetNeighborLists(t) EXCEPT !.dying = TRUE] ELSE t
         IN  EntryOK(n) /\ n.ok = o.ok
<1>1. o \in OnbrRecs
  BY DEF EntryOK
<1>2. /\ t \in OnbrRecs /\ t.there = o.there /\ t.ok = o.ok
      /\ t.upd = o.upd /\ t.nbrMsg = o.nbrMsg /\ t.rxMsg = o.rxMsg
  <2>1. CASE t = [o EXCEPT !.timer = FALSE]
    BY <1>1, <2>1 DEF OnbrRecs
  <2>2. CASE t = [o EXCEPT !.stray = FALSE]
    BY <1>1, <2>2 DEF OnbrRecs
  <2>. QED  BY <2>1, <2>2
<1>3. CASE t.there
  <2>. DEFINE l == resetNeighborLists(t)
              n == [l EXCEPT !.dying = TRUE]
  <2>1. l \in OnbrRecs /\ Silent(l, t) /\ l.ok = t.ok
    BY <1>2, SmallStepsAreSilent
  <2>. HIDE DEF l
  <2>2. /\ n \in OnbrRecs /\ n.dying /\ n.ok = l.ok
        /\ n.upd = l.upd /\ n.nbrMsg = l.nbrMsg /\ n.rxMsg = l.rxMsg
    BY <2>1 DEF OnbrRecs
  <2>. HIDE DEF n
  <2>3. EntryOK(n) /\ n.ok = o.ok
    BY <1>2, <2>1, <2>2 DEF EntryOK, Silent
  <2>. QED  BY <1>3, <2>3 DEF n, l
<1>4. CASE ~t.there
  <2>1. EntryOK(t) /\ t.ok = o.ok
    BY <1>2, <1>4 DEF EntryOK
  <2>. QED  BY <1>4, <2>1
<1>. QED  BY <1>3, <1>4

LEMMA DeadDeletesIs ==
  ASSUME NEW o, EntryOK(o)
  PROVE  LET n == [o EXCEPT !.upd = DelMsg, !.dying = FALSE] IN EntryOK(n) /\ n.ok = o.ok
<1>. DEFINE n == [o EXCEPT !.upd = DelMsg, !.dying = FALSE]
<1>1. o \in OnbrRecs
  BY DEF EntryOK
<1>2. /\ n \in OnbrRecs /\ n.upd = DelMsg /\ n.ok = o.ok /\ n.nbrMsg = o.nbrMsg /\ n.rxMsg = o.rxMsg
  BY <1>1, DelMsgIs DEF OnbrRecs
<1>. HIDE DEF n
<1>3. EntryOK(n)
  BY <1>2, DelMsgIs DEF EntryOK, BlankOrReal
<1>. QED  BY <1>2, <1>3 DEF n

LEMMA IntfDownIs ==
  ASSUME NEW o, EntryOK(o)
  PROVE  LET b == [o EXCEPT !.mdata = "none"]
             n == IF o.mdata = "listed" THEN Tell(updateLSALists(b), DelMsg) ELSE b
         IN  EntryOK(n) /\ n.ok = o.ok
<1>. DEFINE b == [o EXCEPT !.mdata = "none"]
            l == updateLSALists(b)
<1>1. o \in OnbrRecs
  BY DEF EntryOK
<1>2. b \in OnbrRecs /\ b.ok = o.ok /\ Silent(b, o)
  BY <1>1 DEF OnbrRecs, Silent, SameEntry
<1>. HIDE DEF b
<1>3. EntryOK(b)
  BY <1>2 DEF EntryOK, Silent, SameEntry
<1>4. l \in OnbrRecs /\ l.ok = b.ok /\ Silent(l, b)
  BY <1>2, SmallStepsAreSilent
<1>. HIDE DEF l
<1>5. EntryOK(l)
  BY <1>3, <1>4 DEF EntryOK, Silent, SameEntry
<1>6. EntryOK(Tell(l, DelMsg)) /\ Tell(l, DelMsg).ok = o.ok
  BY <1>2, <1>4, <1>5, DelMsgIs, TellIs, ToldKeepsEntry
<1>. QED  BY <1>2, <1>3, <1>6 DEF b, l

LEMMA FloodIs ==
  ASSUME NEW o, NEW r \in Routers, NEW w \in o.flood, EntryOK(o)
  PROVE  LET b == [o EXCEPT !.flood = @ \ {w}]
             n == IF interfaceFloodCheck(b) /\ (w = "slave" => b.slave)
                  THEN Send(b, {LsaUpdPkt(k) : k \in SelfOrig(b, r)}) ELSE b
         IN  EntryOK(n) /\ n.ok = o.ok /\ (Undisturbed(o, r) => Undisturbed(n, r))
<1>. DEFINE b == [o EXCEPT !.flood = @ \ {w}]
            ps == {LsaUpdPkt(k) : k \in SelfOrig(b, r)}
<1>1. o \in OnbrRecs
  BY DEF EntryOK
<1>2. b \in OnbrRecs /\ b.ok = o.ok /\ Silent(b, o)
  BY <1>1 DEF OnbrRecs, Silent, SameEntry
<1>. HIDE DEF b
<1>3. ps \in SUBSET OnbrPkts
  <2>1. SelfOrig(b, r) \in SUBSET OnbrKeys
    BY <1>2 DEF SelfOrig, OnbrRecs
  <2>. QED  BY <2>1, UpdPktsAre
<1>. HIDE DEF ps
<1>4. EntryOK(b) /\ (Undisturbed(o, r) => Undisturbed(b, r))
  BY <1>2, SilentKeeps
<1>5. EntryOK(Send(b, ps)) /\ (Undisturbed(o, r) => Undisturbed(Send(b, ps), r)) /\ Send(b, ps).ok = o.ok
  BY <1>2, <1>3, <1>4, SendIs, SilentKeeps
<1>. QED  BY <1>2, <1>4, <1>5 DEF b, ps

-----------------------------------------------------------------------------
(* The steps *)

LEMMA BagFacts ==
  ASSUME NEW B, NEW S
  PROVE  /\ BagToSet(B (+) SetToBag(S)) = BagToSet(B) \cup S
         /\ BagToSet(B (-) SetToBag(S)) \subseteq BagToSet(B)
         /\ BagToSet(EmptyBag) = {}
<1>1. BagToSet(B (+) SetToBag(S)) = BagToSet(B) \cup S
  BY DEF BagToSet, SetToBag, (+)
<1>2. BagToSet(B (-) SetToBag(S)) \subseteq BagToSet(B)
  <2>. DEFINE C == [e \in DOMAIN B |-> IF e \in DOMAIN SetToBag(S) THEN B[e] - SetToBag(S)[e] ELSE B[e]]
  <2>1. B (-) SetToBag(S) = [e \in {d \in DOMAIN C : C[d] > 0} |-> C[e]]
    BY DEF (-)
  <2>2. DOMAIN C = DOMAIN B
    OBVIOUS
  <2>. HIDE DEF C
  <2>. QED  BY <2>1, <2>2 DEF BagToSet
<1>3. BagToSet(EmptyBag) = {}
  BY DEF BagToSet, EmptyBag, SetToBag
<1>. QED  BY <1>1, <1>2, <1>3

\* Router r becomes n and the invariant holds again if n is an entry, if a
\* thread that stops leaves its mark in the past, and if n is undisturbed as
\* long as nothing was deleted.
LEMMA BecomingKeeps ==
  ASSUME OnbrInv, NEW r \in Routers, NEW n, NEW taken, Becomes(r, n, taken),
         EntryOK(n),
         onbrEvents' \in 0..MaxOnbrEvents,
         onbrPast \subseteq onbrPast',
         onbrPast' \subseteq {"early", "ignored", "overtaken", "deleted", "lost"},
         ~n.ok => onbrPast' \cap {"deleted", "early"} # {},
         "deleted" \notin onbrPast' /\ n.ok => Undisturbed(n, r)
  PROVE  OnbrInv'
<1>1. /\ onbr' = [onbr EXCEPT ![r] = Shipped(n)]
      /\ onbrNet' = [onbrNet EXCEPT ![r] = @ (-) SetToBag(taken), ![Peer(r)] = @ (+) SetToBag(n.out)]
  BY DEF Becomes, Shipped
<1>2. DOMAIN onbr = Routers /\ DOMAIN onbrNet = Routers
  BY DEF OnbrInv
<1>3. DOMAIN onbr' = Routers /\ DOMAIN onbrNet' = Routers
  BY <1>1, <1>2
<1>4. onbr'[r] = Shipped(n) /\ \A q \in Routers : q # r => onbr'[q] = onbr[q]
  BY <1>1, <1>2
<1>5. /\ EntryOK(Shipped(n)) /\ Shipped(n).out = {} /\ Shipped(n).ok = n.ok
      /\ Undisturbed(n, r) => Undisturbed(Shipped(n), r)
  BY ShippedIs
<1>6. ASSUME NEW q \in Routers PROVE EntryOK(onbr'[q]) /\ onbr'[q].out = {}
  BY <1>4, <1>5 DEF OnbrInv
<1>7. ASSUME NEW q \in Routers PROVE BagToSet(onbrNet'[q]) \subseteq OnbrPkts
  <2>1. BagToSet(onbrNet[q]) \subseteq OnbrPkts /\ n.out \subseteq OnbrPkts
    BY DEF OnbrInv, EntryOK, OnbrRecs
  <2>2. CASE q = r
    <3>1. onbrNet'[q] = onbrNet[q] (-) SetToBag(taken)
      BY <1>1, <1>2, <2>2, PeerFacts
    <3>. QED  BY <2>1, <3>1, BagFacts
  <2>3. CASE q # r
    <3>1. q = Peer(r)
      BY <2>3 DEF Routers, Peer
    <3>2. onbrNet'[q] = onbrNet[q] (+) SetToBag(n.out)
      BY <1>1, <1>2, <3>1, PeerFacts
    <3>. QED  BY <2>1, <3>2, BagFacts
  <2>. QED  BY <2>2, <2>3
<1>8. NeighborThreadsLive'
  <2>1. ASSUME NEW q \in Routers, ~onbr'[q].ok PROVE onbrPast' \cap {"deleted", "early"} # {}
    BY <2>1, <1>4, <1>5 DEF OnbrInv, NeighborThreadsLive
  <2>. QED  BY <2>1 DEF NeighborThreadsLive
<1>9. ASSUME "deleted" \notin onbrPast', NEW q \in Routers, onbr'[q].ok PROVE Undisturbed(onbr'[q], q)
  <2>1. CASE q = r
    BY <2>1, <1>4, <1>5, <1>9
  <2>2. CASE q # r
    BY <2>2, <1>4, <1>9 DEF OnbrInv
  <2>. QED  BY <2>1, <2>2
<1>. QED  BY <1>3, <1>6, <1>7, <1>8, <1>9 DEF OnbrInv

\* A router in the invariant.
LEMMA RouterFacts ==
  ASSUME OnbrInv, NEW r \in Routers
  PROVE  /\ EntryOK(onbr[r]) /\ onbr[r] \in OnbrRecs
         /\ onbr[r].there \in BOOLEAN /\ onbr[Peer(r)].there \in BOOLEAN
         /\ onbr[r].ok /\ "deleted" \notin onbrPast => Undisturbed(onbr[r], r)
<1>1. Peer(r) \in Routers
  BY PeerFacts
<1>. QED  BY <1>1 DEF OnbrInv, EntryOK, OnbrRecs

LEMMA HappensIs ==
  ASSUME OnbrConstants, OnbrInv, NEW what \in SUBSET {"deleted", "lost"}, Happens(what)
  PROVE  /\ onbrEvents' \in 0..MaxOnbrEvents /\ onbrPast \subseteq onbrPast' /\ what \subseteq onbrPast'
         /\ onbrPast' \subseteq {"early", "ignored", "overtaken", "deleted", "lost"}
         /\ "deleted" \notin what => ("deleted" \in onbrPast' <=> "deleted" \in onbrPast)
<1>1. /\ onbrEvents < MaxOnbrEvents /\ onbrEvents' = onbrEvents + 1 /\ onbrPast' = onbrPast \cup what
  BY DEF Happens
<1>2. /\ onbrEvents \in 0..MaxOnbrEvents /\ MaxOnbrEvents \in Nat
      /\ onbrPast \subseteq {"early", "ignored", "overtaken", "deleted", "lost"}
  BY DEF OnbrInv, OnbrConstants
<1>3. onbrEvents' \in 0..MaxOnbrEvents
  BY <1>1, <1>2
<1>. QED  BY <1>1, <1>2, <1>3

LEMMA HelloKeeps ==
  ASSUME OnbrConstants, OnbrInv, NEW r \in Routers, HelloEvent(r)
  PROVE  OnbrInv'
<1>. DEFINE o == onbr[r]
            two == onbr[Peer(r)].there
<1>1. o.ok /\ o.nbrMsg = NoUpd /\ Happens({})
  BY DEF HelloEvent
<1>2. /\ EntryOK(o) /\ o \in OnbrRecs /\ o.there \in BOOLEAN /\ two \in BOOLEAN
      /\ "deleted" \notin onbrPast => Undisturbed(o, r)
  BY <1>1, RouterFacts
<1>3. PICK now \in OnbrSeqs : Becomes(r, IF o.there THEN HelloKnown(o, two, now) ELSE HelloNew(o, two), {})
  BY DEF HelloEvent
<1>4. now \in Nat
  BY DEF OnbrConstants
<1>. DEFINE n == IF o.there THEN HelloKnown(o, two, now) ELSE HelloNew(o, two)
<1>5. Becomes(r, n, {})
  BY <1>3
<1>. HIDE DEF o, two
<1>6. EntryOK(n) /\ n.ok = o.ok /\ (Undisturbed(o, r) => Undisturbed(n, r))
  <2>1. CASE o.there
    <3>. DEFINE k == HelloKnown(o, two, now)
    <3>1. k \in OnbrRecs /\ k.ok = o.ok /\ \E m : Fits(o, r, m) /\ Told(k, o, m)
      BY <2>1, <1>2, <1>4, HelloKnownIs
    <3>. HIDE DEF k
    <3>2. EntryOK(k) /\ (Undisturbed(o, r) => Undisturbed(k, r))
      BY <3>1, <1>1, <1>2, TellingKeeps
    <3>. QED  BY <2>1, <3>1, <3>2 DEF k
  <2>2. CASE ~o.there
    <3>. DEFINE k == HelloNew(o, two)
    <3>1. EntryOK(k) /\ k.ok = o.ok /\ (Undisturbed(o, r) => Undisturbed(k, r))
      BY <2>2, <1>1, <1>2, HelloNewIs
    <3>. HIDE DEF k
    <3>. QED  BY <2>2, <3>1 DEF k
  <2>. QED  BY <2>1, <2>2
<1>. HIDE DEF n
<1>7. /\ onbrEvents' \in 0..MaxOnbrEvents /\ onbrPast \subseteq onbrPast'
      /\ onbrPast' \subseteq {"early", "ignored", "overtaken", "deleted", "lost"}
      /\ "deleted" \in onbrPast' <=> "deleted" \in onbrPast
  BY <1>1, HappensIs
<1>. QED  BY <1>1, <1>2, <1>5, <1>6, <1>7, BecomingKeeps

LEMMA DecodeIs ==
  ASSUME NEW d \in OnbrDbds
  PROVE  DecodeDatabaseDescriptionData(d) \in OnbrDbds
BY DEF DecodeDatabaseDescriptionData, OnbrDbds

LEMMA DbdKeeps ==
  ASSUME OnbrConstants, OnbrInv, NEW r \in Routers, DbdEvent(r)
  PROVE  OnbrInv'
<1>. DEFINE o == onbr[r]
            N(p) == processDBDEvent(o, r, DecodeDatabaseDescriptionData(p.d))
<1>1. o.ok /\ o.nbrMsg = NoUpd /\ onbrEvents' = onbrEvents
  BY DEF DbdEvent
<1>2. EntryOK(o) /\ o \in OnbrRecs /\ ("deleted" \notin onbrPast => Undisturbed(o, r))
  BY <1>1, RouterFacts
<1>3. PICK p \in BagToSet(onbrNet[r]) :
        Becomes(r, N(p), {p}) /\ onbrPast' = IF N(p).ok THEN onbrPast ELSE onbrPast \cup {"early"}
  BY DEF DbdEvent
<1>. DEFINE n == N(p)
            d == DecodeDatabaseDescriptionData(p.d)
<1>4. d \in OnbrDbds
  <2>1. p \in OnbrPkts
    BY DEF OnbrInv
  <2>2. p.d \in OnbrDbds
    BY <2>1 DEF OnbrPkts
  <2>. QED  BY <2>2, DecodeIs
<1>5. n = processDBDEvent(o, r, d)
  OBVIOUS
<1>6. Becomes(r, n, {p}) /\ onbrPast' = IF n.ok THEN onbrPast ELSE onbrPast \cup {"early"}
  BY <1>3
<1>. HIDE DEF o, d, n, N
<1>7. EntryOK(n) /\ (Undisturbed(o, r) => Undisturbed(n, r))
  <2>1. n = o \/ (n \in OnbrRecs /\ \E m : Fits(o, r, m) /\ Told(n, o, m))
    BY <1>2, <1>4, <1>5, DbdIs
  <2>. QED  BY <2>1, <1>1, <1>2, TellingKeeps
<1>8. /\ onbrEvents' \in 0..MaxOnbrEvents
      /\ onbrPast \subseteq {"early", "ignored", "overtaken", "deleted", "lost"}
  BY <1>1 DEF OnbrInv
<1>9. /\ onbrPast \subseteq onbrPast' /\ onbrPast' \subseteq {"early", "ignored", "overtaken", "deleted", "lost"}
      /\ "deleted" \notin onbrPast' => "deleted" \notin onbrPast
      /\ ~n.ok => "early" \in onbrPast'
  BY <1>6, <1>8
<1>. QED  BY <1>2, <1>6, <1>7, <1>8, <1>9, BecomingKeeps

LEMMA LsaKeeps ==
  ASSUME OnbrConstants, OnbrInv, NEW r \in Routers, LsaEvent(r)
  PROVE  OnbrInv'
<1>. DEFINE o == onbr[r]
<1>1. o.ok /\ o.rxMsg = NoUpd /\ onbrEvents' = onbrEvents
  BY DEF LsaEvent
<1>2. EntryOK(o) /\ ("deleted" \notin onbrPast => Undisturbed(o, r))
  BY <1>1, RouterFacts
<1>3. PICK p \in BagToSet(onbrNet[r]) :
        /\ p.t # "dbd" /\ Becomes(r, ProcessRxNbrPkt(o, r, p), {p})
        /\ onbrPast \subseteq onbrPast' /\ onbrPast' \subseteq onbrPast \cup {"ignored", "overtaken"}
  BY DEF LsaEvent
<1>. DEFINE n == ProcessRxNbrPkt(o, r, p)
<1>4. p \in OnbrPkts /\ Becomes(r, n, {p})
  BY <1>3 DEF OnbrInv
<1>. HIDE DEF o
<1>5. EntryOK(n) /\ n.ok = o.ok /\ (Undisturbed(o, r) => Undisturbed(n, r))
  BY <1>1, <1>2, <1>3, <1>4, ReceivedIs
<1>. HIDE DEF n
<1>6. /\ onbrEvents' \in 0..MaxOnbrEvents
      /\ onbrPast' \subseteq {"early", "ignored", "overtaken", "deleted", "lost"}
      /\ "deleted" \notin onbrPast' => "deleted" \notin onbrPast
  BY <1>1, <1>3 DEF OnbrInv
<1>. QED  BY <1>1, <1>2, <1>3, <1>4, <1>5, <1>6, BecomingKeeps

LEMMA FloodKeeps ==
  ASSUME OnbrConstants, OnbrInv, NEW r \in Routers, FloodEvent(r)
  PROVE  OnbrInv'
<1>. DEFINE o == onbr[r]
            B(w) == [o EXCEPT !.flood = @ \ {w}]
            N(w) == IF interfaceFloodCheck(B(w)) /\ (w = "slave" => B(w).slave)
                    THEN Send(B(w), {LsaUpdPkt(k) : k \in SelfOrig(B(w), r)}) ELSE B(w)
<1>1. o.ok /\ onbrEvents' = onbrEvents /\ onbrPast' = onbrPast
  BY DEF FloodEvent
<1>2. EntryOK(o) /\ ("deleted" \notin onbrPast => Undisturbed(o, r))
  BY <1>1, RouterFacts
<1>3. PICK w \in o.flood : Becomes(r, N(w), {})
  BY Zenon DEF FloodEvent
<1>. DEFINE n == N(w)
<1>4. EntryOK(n) /\ n.ok = o.ok /\ (Undisturbed(o, r) => Undisturbed(n, r))
  <2>. HIDE DEF o
  <2>. QED  BY <1>2, FloodIs
<1>5. Becomes(r, n, {})
  BY <1>3
<1>. HIDE DEF n, o
<1>6. /\ onbrEvents' \in 0..MaxOnbrEvents
      /\ onbrPast' \subseteq {"early", "ignored", "overtaken", "deleted", "lost"}
  BY <1>1 DEF OnbrInv
<1>. QED  BY <1>1, <1>2, <1>4, <1>5, <1>6, BecomingKeeps

LEMMA ConfKeeps ==
  ASSUME OnbrConstants, OnbrInv, NEW r \in Routers, ConfEvent(r)
  PROVE  OnbrInv'
<1>. DEFINE o == onbr[r]
<1>1. o.ok /\ o.upd # NoUpd /\ onbrEvents' = onbrEvents /\ onbrPast' = onbrPast
  BY DEF ConfEvent
<1>2. EntryOK(o) /\ ("deleted" \notin onbrPast => Undisturbed(o, r))
  BY <1>1, RouterFacts
<1>3. PICK now \in OnbrSeqs : \E n \in TakesNext(UpdateNeighborConf(o, now)) : Becomes(r, n, {})
  BY DEF ConfEvent
<1>4. now \in Nat
  BY DEF OnbrConstants
<1>. DEFINE u == UpdateNeighborConf(o, now)
<1>5. PICK n \in TakesNext(u) : Becomes(r, n, {})
  BY <1>3
<1>. HIDE DEF o
<1>6. /\ u \in OnbrRecs /\ u.upd = NoUpd /\ u.nbrMsg = o.nbrMsg /\ u.rxMsg = o.rxMsg
      /\ u.ok /\ u.there /\ u.mutex => u.timer
      /\ Undisturbed(o, r) => u.ok /\ u.there /\ u.mutex /\ Undisturbed(u, r)
  BY <1>1, <1>2, <1>4, ConfIs
<1>. HIDE DEF u
<1>7. BlankOrReal(u.nbrMsg) /\ BlankOrReal(u.rxMsg)
  BY <1>2, <1>6 DEF EntryOK
<1>8. EntryOK(n) /\ n.ok = u.ok /\ (u.there /\ u.mutex /\ Undisturbed(u, r) => Undisturbed(n, r))
  BY <1>5, <1>6, <1>7, TakesNextIs
<1>9. ~n.ok => "deleted" \in onbrPast
  BY <1>2, <1>6, <1>8
<1>10. "deleted" \notin onbrPast => Undisturbed(n, r)
  BY <1>2, <1>6, <1>8
<1>11. /\ onbrEvents' \in 0..MaxOnbrEvents
       /\ onbrPast' \subseteq {"early", "ignored", "overtaken", "deleted", "lost"}
  BY <1>1 DEF OnbrInv
<1>. QED  BY <1>1, <1>5, <1>8, <1>9, <1>10, <1>11, BecomingKeeps

LEMMA DeadTimerKeeps ==
  ASSUME OnbrConstants, OnbrInv, NEW r \in Routers, DeadTimer(r)
  PROVE  OnbrInv'
<1>. DEFINE o == onbr[r]
            N(t) == IF t.there THEN [resetNeighborLists(t) EXCEPT !.dying = TRUE] ELSE t
<1>1. o.ok /\ Happens({"deleted"})
  BY DEF DeadTimer
<1>2. EntryOK(o)
  BY RouterFacts
<1>3. PICK t \in {[o EXCEPT !.timer = FALSE], [o EXCEPT !.stray = FALSE]} : Becomes(r, N(t), {})
  BY Zenon DEF DeadTimer
<1>. DEFINE n == N(t)
<1>4. EntryOK(n) /\ n.ok = o.ok
  <2>. HIDE DEF o
  <2>. QED  BY <1>2, DeadTimerIs
<1>5. Becomes(r, n, {})
  BY <1>3
<1>. HIDE DEF n, o
<1>6. /\ onbrEvents' \in 0..MaxOnbrEvents /\ onbrPast \subseteq onbrPast' /\ "deleted" \in onbrPast'
      /\ onbrPast' \subseteq {"early", "ignored", "overtaken", "deleted", "lost"}
  BY <1>1, HappensIs
<1>. QED  BY <1>1, <1>4, <1>5, <1>6, BecomingKeeps

LEMMA DeadDeletesKeeps ==
  ASSUME OnbrConstants, OnbrInv, NEW r \in Routers, DeadDeletes(r)
  PROVE  OnbrInv'
<1>. DEFINE o == onbr[r]
            n == [o EXCEPT !.upd = DelMsg, !.dying = FALSE]
<1>1. o.ok /\ o.dying /\ onbrEvents' = onbrEvents /\ onbrPast' = onbrPast /\ Becomes(r, n, {})
  BY DEF DeadDeletes, DelMsg
<1>2. EntryOK(o) /\ ("deleted" \notin onbrPast => Undisturbed(o, r))
  BY <1>1, RouterFacts
<1>3. "deleted" \in onbrPast
  BY <1>1, <1>2 DEF Undisturbed
<1>4. EntryOK(n) /\ n.ok = o.ok
  <2>. HIDE DEF o
  <2>. QED  BY <1>2, DeadDeletesIs
<1>. HIDE DEF n, o
<1>5. /\ onbrEvents' \in 0..MaxOnbrEvents
      /\ onbrPast' \subseteq {"early", "ignored", "overtaken", "deleted", "lost"}
  BY <1>1 DEF OnbrInv
<1>. QED  BY <1>1, <1>3, <1>4, <1>5, BecomingKeeps

LEMMA IntfDownKeeps ==
  ASSUME OnbrConstants, OnbrInv, NEW r \in Routers, IntfDownEvent(r)
  PROVE  OnbrInv'
<1>. DEFINE o == onbr[r]
            b == [o EXCEPT !.mdata = "none"]
            n == IF o.mdata = "listed" THEN Tell(updateLSALists(b), DelMsg) ELSE b
<1>1. o.ok /\ Happens({"deleted"}) /\ Becomes(r, n, {})
  BY DEF IntfDownEvent, DelMsg
<1>2. EntryOK(o)
  BY RouterFacts
<1>3. EntryOK(n) /\ n.ok = o.ok
  <2>. HIDE DEF o
  <2>. QED  BY <1>2, IntfDownIs
<1>. HIDE DEF n, o
<1>4. /\ onbrEvents' \in 0..MaxOnbrEvents /\ onbrPast \subseteq onbrPast' /\ "deleted" \in onbrPast'
      /\ onbrPast' \subseteq {"early", "ignored", "overtaken", "deleted", "lost"}
  BY <1>1, HappensIs
<1>. QED  BY <1>1, <1>3, <1>4, BecomingKeeps

LEMMA LoseKeeps ==
  ASSUME OnbrConstants, OnbrInv, NEW r \in Routers, Lose(r)
  PROVE  OnbrInv'
<1>1. onbr' = onbr /\ Happens({"lost"})
  BY DEF Lose
<1>2. PICK p : onbrNet' = [onbrNet EXCEPT ![r] = @ (-) SetToBag({p})]
  BY DEF Lose
<1>3. /\ onbrEvents' \in 0..MaxOnbrEvents /\ onbrPast \subseteq onbrPast'
      /\ onbrPast' \subseteq {"early", "ignored", "overtaken", "deleted", "lost"}
      /\ "deleted" \in onbrPast' <=> "deleted" \in onbrPast
  BY <1>1, HappensIs
<1>4. DOMAIN onbrNet' = Routers
  BY <1>2 DEF OnbrInv
<1>5. ASSUME NEW q \in Routers PROVE BagToSet(onbrNet'[q]) \subseteq OnbrPkts
  <2>1. BagToSet(onbrNet[q]) \subseteq OnbrPkts /\ DOMAIN onbrNet = Routers
    BY DEF OnbrInv
  <2>2. CASE q = r
    <3>1. onbrNet'[q] = onbrNet[q] (-) SetToBag({p})
      BY <1>2, <2>1, <2>2
    <3>. QED  BY <2>1, <3>1, BagFacts
  <2>3. CASE q # r
    BY <1>2, <2>1, <2>3
  <2>. QED  BY <2>2, <2>3
<1>6. NeighborThreadsLive'
  BY <1>1, <1>3 DEF OnbrInv, NeighborThreadsLive
<1>. QED  BY <1>1, <1>3, <1>4, <1>5, <1>6 DEF OnbrInv

LEMMA OnbrInitInv ==
  ASSUME OnbrConstants, OnbrInit
  PROVE  OnbrInv
<1>1. ASSUME NEW r \in Routers
      PROVE  EntryOK(NewRouter(r)) /\ NewRouter(r).out = {} /\ NewRouter(r).ok /\ Undisturbed(NewRouter(r), r)
  <2>. DEFINE o == NewRouter(r)
  <2>1. NoList \in OnbrLists /\ NoDbd \in OnbrDbds /\ OnbrLsas[r] \subseteq OnbrKeys
    BY DEF NoList, OnbrLists, NoDbd, OnbrDbds, OnbrKeys
  <2>2. o \in OnbrRecs
    BY <2>1, NoUpdIs DEF NewRouter, OnbrRecs
  <2>3. /\ o.out = {} /\ o.ok /\ ~o.there /\ ~o.mutex /\ ~o.dying /\ o.st = 0
        /\ o.upd = NoUpd /\ o.nbrMsg = NoUpd /\ o.rxMsg = NoUpd
    BY DEF NewRouter
  <2>. HIDE DEF o
  <2>4. EntryOK(o)
    BY <2>2, <2>3 DEF EntryOK, BlankOrReal
  <2>5. Undisturbed(o, r)
    BY <2>3, NoUpdIs DEF Undisturbed, KeepsRole
  <2>. QED  BY <2>3, <2>4, <2>5 DEF o
<1>2. /\ onbr = [r \in Routers |-> NewRouter(r)] /\ onbrNet = [r \in Routers |-> EmptyBag]
      /\ onbrPast = {} /\ onbrEvents = 0
  BY DEF OnbrInit, InitNeighborStateMachine
<1>3. \A r \in Routers : BagToSet(onbrNet[r]) \subseteq OnbrPkts
  BY <1>2, BagFacts
<1>4. NeighborThreadsLive
  BY <1>1, <1>2 DEF NeighborThreadsLive
<1>5. onbrEvents \in 0..MaxOnbrEvents
  BY <1>2 DEF OnbrConstants
<1>. QED  BY <1>1, <1>2, <1>3, <1>4, <1>5 DEF OnbrInv

LEMMA OnbrNextInv ==
  ASSUME OnbrConstants, OnbrInv, [OnbrNext]_onbrVars
  PROVE  OnbrInv'
<1>1. CASE UNCHANGED onbrVars
  BY <1>1 DEF OnbrInv, NeighborThreadsLive, onbrVars
<1>2. ASSUME NEW r \in Routers,
             \/ HelloEvent(r) \/ DbdEvent(r) \/ LsaEvent(r) \/ FloodEvent(r)
             \/ ConfEvent(r) \/ DeadTimer(r) \/ DeadDeletes(r) \/ IntfDownEvent(r) \/ Lose(r)
      PROVE  OnbrInv'
  BY <1>2, HelloKeeps, DbdKeeps, LsaKeeps, FloodKeeps, ConfKeeps, DeadTimerKeeps, DeadDeletesKeeps,
     IntfDownKeeps, LoseKeeps
<1>. QED  BY <1>1, <1>2 DEF OnbrNext

LEMMA OnbrInvIsSafe ==
  ASSUME OnbrInv
  PROVE  NeighborsSafe
<1>1. ASSUME NEW r \in Routers
      PROVE  LET o == onbr[r] IN
             /\ o.st \in 0..Full /\ o.seq \in Nat
             /\ {o.there, o.slave, o.mutex, o.timer, o.stray, o.dying, o.ok} \subseteq BOOLEAN
             /\ o.ev \in {"none", "2way", "done"}
             /\ o.mdata \in {"none", "empty", "listed"}
             /\ o.sum.open \subseteq o.sum.all /\ o.req.open \subseteq o.req.all
             /\ o.req.all \cup o.sum.all \cup o.lsdb \subseteq OnbrKeys
             /\ {o.nbrMsg.kind, o.rxMsg.kind, o.upd.kind} \subseteq {"none", "upd", "add", "del"}
             /\ o.flood \subseteq {"any", "slave"} /\ o.out = {}
  <2>. DEFINE o == onbr[r]
  <2>1. o \in OnbrRecs /\ o.out = {}
    BY DEF OnbrInv, EntryOK
  <2>. HIDE DEF o
  <2>2. /\ o.st \in 0..Full /\ o.seq \in Nat
        /\ o.there \in BOOLEAN /\ o.slave \in BOOLEAN /\ o.mutex \in BOOLEAN /\ o.timer \in BOOLEAN
        /\ o.stray \in BOOLEAN /\ o.dying \in BOOLEAN /\ o.ok \in BOOLEAN
        /\ o.ev \in {"none", "2way", "done"} /\ o.mdata \in {"none", "empty", "listed"}
        /\ o.sum \in OnbrLists /\ o.req \in OnbrLists /\ o.lsdb \subseteq OnbrKeys
        /\ o.nbrMsg \in OnbrMsgs /\ o.rxMsg \in OnbrMsgs /\ o.upd \in OnbrMsgs
        /\ o.flood \subseteq {"any", "slave"}
    BY <2>1 DEF OnbrRecs
  <2>3. /\ o.sum.open \subseteq o.sum.all /\ o.req.open \subseteq o.req.all
        /\ o.req.all \cup o.sum.all \subseteq OnbrKeys
    BY <2>2 DEF OnbrLists
  <2>4. {o.nbrMsg.kind, o.rxMsg.kind, o.upd.kind} \subseteq {"none", "upd", "add", "del"}
    BY <2>2 DEF OnbrMsgs
  <2>. QED  BY <2>1, <2>2, <2>3, <2>4 DEF o
<1>2. OnbrTypeOK
  BY <1>1 DEF OnbrTypeOK, OnbrInv
<1>3. RolesAgree
  BY DEF RolesAgree, OnbrInv, Undisturbed
<1>4. EntryHasTimer
  BY DEF EntryHasTimer, OnbrInv, EntryOK
<1>. QED  BY <1>2, <1>3, <1>4 DEF NeighborsSafe, OnbrInv

\* Two neighbours that run ospfNeighbor.go agree on their roles once they
\* exchange, stop no thread and keep a timer for every entry, with the
\* exceptions that NeighborsSafe names.
THEOREM NeighborsAreSafe ==
  ASSUME OnbrConstants PROVE OnbrSpec => []NeighborsSafe
<1>1. OnbrInit => OnbrInv
  BY OnbrInitInv
<1>2. OnbrInv /\ [OnbrNext]_onbrVars => OnbrInv'
  BY OnbrNextInv
<1>3. OnbrInv => NeighborsSafe
  BY OnbrInvIsSafe
<1>. QED  BY <1>1, <1>2, <1>3, PTL DEF OnbrSpec

==============================================================================
