---------------------------- MODULE MCPresence ----------------------------
(* Small instances of Presence for TLC.                                    *)
EXTENDS Presence

CONSTANTS c1, c2, pA

\* Two connections of one peer_id, which is in the second of two rooms.
SamePeer == [c \in Conns |-> pA]
SecondRoom == [p \in PeerIds |-> 2]
============================================================================
