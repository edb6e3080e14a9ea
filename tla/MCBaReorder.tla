----------------------------- MODULE MCBaReorder ----------------------------
(* Instances of BaReorder for TLC. *)
EXTENDS BaReorder

Peer(e, d, b) == [eap |-> e, dups |-> d, blocks |-> b]

\* A peer that repeats frames, and two whose frames find no block: one sends
\* EAPOL frames, for the other the pool is too small.
OrderlyPeers == {Peer({}, TRUE, 3), Peer({2}, FALSE, 3), Peer({}, FALSE, 1)}

\* A peer that repeats frames and sends an EAPOL frame inside the session.
EapPeers == {Peer({2}, TRUE, 8)}

\* A well-behaved peer.
PlainPeers == {Peer({}, FALSE, 4)}
=============================================================================
