----------------------------- MODULE MC_FpgaGup -----------------------------
(* Instantiates FpgaGup for TLC: one cpid, three pages, two buckets; the    *)
(* configurations choose one or two driver threads.                        *)
EXTENDS FpgaGup

(* A stand-in for hash_64 on two buckets: pages 0 and 2 collide.           *)
MC_Hash == [p \in Pages |-> (p % NBuckets) + 1]
=============================================================================
