----------------------------- MODULE MCChunking -----------------------------
(* Instance of Chunking: texts of up to three short pieces, empty ones among *)
(* them, and one longer piece.                                               *)
EXTENDS Chunking

MCTexts == UNION {[1..n -> 0..4] : n \in 0..3} \cup {<<n>> : n \in 5..12}
MCSizes == 1..9
MCOverlaps == 0..10
=============================================================================
