------------------------------- MODULE MCFmv -------------------------------
(***************************************************************************)
(* The movies played one after another, for TLC: one whose frames each     *)
(* bring their sound (Masher), one with sectors of sound between the       *)
(* frames and more sound than picture at its end (MOV), one not found.     *)
(***************************************************************************)
EXTENDS Fmv

Packet(v, a) == [video |-> v, audio |-> a]

MCStream ==
  [n \in {"ddv", "mov"} |->
     IF n = "ddv" THEN <<Packet(1, 2), Packet(1, 4), Packet(1, 6), Packet(1, 8)>>
     ELSE <<Packet(0, 1), Packet(1, 1), Packet(0, 4), Packet(1, 4), Packet(1, 4),
            Packet(0, 6), Packet(0, 7), Packet(1, 7), Packet(0, 10)>>]
=============================================================================
