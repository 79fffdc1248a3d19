----------------------------- MODULE MCUdpPiece -----------------------------
(* Instances of UdpPiece for TLC.  With pieces of two units: frames of 4   *)
(* and 3 are two pieces, the last of 3 short; 2 is one piece, 1 a short    *)
(* one; 5 is three pieces.                                                 *)
EXTENDS UdpPiece

Mode(sizes, capacity, ring, split, kinds) ==
  [sizes |-> sizes, capacity |-> capacity, ring |-> ring, split |-> split,
   faults |-> kinds]

(* The demo as it stands, with a ring of exactly one piece; the same with  *)
(* a ring too small for a full piece; split pieces over a faulty network,  *)
(* with a ring that also takes a stray half; whole pieces over a faulty    *)
(* network, with and without the ring.                                     *)
AllModes ==
  { Mode(<<3, 4, 1, 2, 5>>, 8, TRUE, TRUE, {}),
    Mode(<<3, 4, 1, 2, 5>>, 7, TRUE, TRUE, {}),
    Mode(<<3, 2, 3>>, 12, TRUE, TRUE, FaultKinds),
    Mode(<<4, 4, 3>>, 8, TRUE, FALSE, FaultKinds),
    Mode(<<3, 3, 4>>, 8, FALSE, FALSE, FaultKinds) }

Twins == { Mode(<<3, 3>>, 8, TRUE, TRUE, {"lose"}) }
=============================================================================
