------------------------------ MODULE BondSet ------------------------------
(***************************************************************************)
(* What a host may rely on about its bond: it comes from pairing on the    *)
(* connection of that very peer, and goes when its removal is asked for,   *)
(* at one instant and for good.  No power cut, failed write or start shows *)
(* a bond half removed, brings one back or takes another one away.         *)
(***************************************************************************)
CONSTANTS Peer

VARIABLES
    bonds,      \* the peers a start would find bonded
    connected,  \* the peer that is connected, or another value
    asked       \* the peer whose removal is under way, or another value

vars == <<bonds, connected, asked>>

Init == bonds = {} /\ connected \notin Peer /\ asked \notin Peer

\* Connections and requests come and go with these steps or between them.
Pair == connected \in Peer /\ bonds' = bonds \cup {connected}

Remove == asked \in Peer /\ bonds' = bonds \ {asked}

Environment == UNCHANGED bonds

Next == Pair \/ Remove \/ Environment

Spec == Init /\ [][Next]_vars
=============================================================================
