----------------------------- MODULE MCChunker -----------------------------
(* Small instances of Chunker for TLC: PDFs of one longer page or of up to *)
(* three short ones, among them PDFs without pages and pages without text. *)
EXTENDS Chunker

CONSTANTS LongPage, ShortPage

Texts(n) == UNION {[1..k -> Chars] : k \in 0..n}
MCPdfs == [1..1 -> Texts(LongPage)]
            \cup UNION {[1..k -> Texts(ShortPage)] : k \in {0, 2, 3}}
MCChunkSizes == 0..4
MCOverlaps == -1..4
=============================================================================
