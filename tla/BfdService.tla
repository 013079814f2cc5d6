----------------------------- MODULE BfdService -----------------------------
(***************************************************************************)
(* What a BFD session promises to the protocols that registered for it     *)
(* (BGP, OSPF, static routes), without packets, timers, poll sequences or  *)
(* demand mode.  Of each endpoint there is the link as the endpoint sees   *)
(* it, what its protocols were last told, whether the peer last said that  *)
(* it is administratively down, and whether the peer was ever heard; and   *)
(* there is the number of operations of the operators.                     *)
(*                                                                         *)
(* The promise: a link comes up only when the peer is being heard and has  *)
(* heard this end, and the protocols are told in the same step; a link     *)
(* that goes down without an operator is reported down in the same step,   *)
(* unless the peer has announced that it is administratively down; the     *)
(* protocols are told nothing else.                                        *)
(***************************************************************************)
EXTENDS Naturals

CONSTANT Node

VARIABLES link, told, peerOff, met, ops

serviceVars == <<link, told, peerOff, met, ops>>

\* What changes for the endpoint n.
Moves(n, l, t, off) ==
    /\ link' = [link EXCEPT ![n] = l]
    /\ told' = [told EXCEPT ![n] = t]
    /\ peerOff' = [peerOff EXCEPT ![n] = off]

ServiceInit ==
    /\ link = [n \in Node |-> "down"]
    /\ told = [n \in Node |-> FALSE]
    /\ peerOff = [n \in Node |-> FALSE]
    /\ met = [n \in Node |-> FALSE]
    /\ ops = 0

\* A packet of the peer says whether the peer is administratively down.
Establishes(n) ==
    /\ link[n] = "down"
    /\ \A m \in Node \ {n} : met[m]
    /\ Moves(n, "up", TRUE, FALSE)

Loses(n) == link[n] = "up" /\ Moves(n, "down", FALSE, FALSE)

\* The peer is off: the link is not reported down for that.
Excuses(n) == link[n] # "off" /\ Moves(n, link[n], TRUE, TRUE)

Continues(n) == \E off \in BOOLEAN : Moves(n, link[n], told[n], off)

Hears(n) ==
    /\ met' = [met EXCEPT ![n] = TRUE]
    /\ UNCHANGED ops
    /\ Establishes(n) \/ Loses(n) \/ Excuses(n) \/ Continues(n)

\* Nothing was heard for the detection time; after another one the peer is
\* forgotten.
TimesOut(n) ==
    /\ UNCHANGED <<met, ops>>
    /\ \E off \in {peerOff[n], FALSE} :
          \/ link[n] # "off" /\ Moves(n, "down", off, off)
          \/ link[n] # "up" /\ Moves(n, link[n], told[n], off)

\* An operator disables, enables, resets or reconfigures the session.  The
\* protocols are not told of a reset.
Administered(n) ==
    /\ ops' = ops + 1
    /\ UNCHANGED met
    /\ \/ link[n] # "off" /\ Moves(n, "off", TRUE, peerOff[n])
       \/ \E t \in {told[n], peerOff[n]} : Moves(n, "down", t, peerOff[n])
       \/ Moves(n, link[n], told[n], peerOff[n])

ServiceNext == \E n \in Node : Hears(n) \/ TimesOut(n) \/ Administered(n)

ServiceSpec == ServiceInit /\ [][ServiceNext]_serviceVars

=============================================================================
