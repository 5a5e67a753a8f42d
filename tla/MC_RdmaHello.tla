---------------------------- MODULE MC_RdmaHello ----------------------------
(* Instantiates RdmaHello for TLC: two PSNs the receiver may advertise, a  *)
(* fill of max_size = 512 bytes (eight words, the message's own length).   *)
EXTENDS RdmaHello

MC_Psns == {0, 1}
MC_FillWords == 8
=============================================================================
