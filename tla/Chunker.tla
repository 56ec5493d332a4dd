------------------------------ MODULE Chunker ------------------------------
(***************************************************************************)
(* From an uploaded PDF to its chunks: PdfExtractor.extract and            *)
(* TextChunker.chunk_pages, one step per page and per window of the loop   *)
(* of _chunk_text.  A character is blank or not; a chunk is the set of     *)
(* positions of the normalised page text that it holds, counted from 0.    *)
(***************************************************************************)
EXTENDS Integers, Sequences, FiniteSets

CONSTANTS
    Pdfs,        \* the texts of the pages of the PDFs, from PyMuPDF
    ChunkSizes,  \* arguments of TextChunker, legal or not
    Overlaps

Blank == " "
Chars == {"x", Blank}

ASSUME ChunkerAssumption ==
    /\ Pdfs \subseteq Seq(Seq(Chars))
    /\ ChunkSizes \subseteq Int
    /\ Overlaps \subseteq Int

VARIABLES
    pdf, chunk_size, overlap,  \* the input
    pc,
    page,         \* number of the page in work, or the next one
    text,         \* normalized_text
    start, end,   \* of the last window taken in text
    chunk_index,  \* index of the next chunk
    chunks

input == <<pdf, chunk_size, overlap>>
vars == <<pdf, chunk_size, overlap, pc, page, text, start, end, chunk_index, chunks>>

Stages == {"extract", "configure", "pages", "windows", "done",
           "extraction_error", "config_error"}
NormalizedText == [length : Nat, blanks : SUBSET Nat]
TextChunk == [page : Nat, chunk_index : Nat, text : SUBSET Nat]

\* Defect: the text is cut as it is.
KeptAll(raw) == 1..Len(raw)

\* " ".join(text.split()) keeps what is not blank, and of a run of blanks
\* between words the first.
Kept(raw) ==
    {i \in 1..Len(raw) :
       raw[i] = Blank =>
         /\ i > 1 /\ raw[i - 1] # Blank
         /\ \E j \in (i + 1)..Len(raw) : raw[j] # Blank}

\* where the i-th character goes
Position(raw, i) == Cardinality({j \in Kept(raw) : j < i})

Normalize(raw) ==
    [length |-> Cardinality(Kept(raw)),
     blanks |-> {Position(raw, i) : i \in {k \in Kept(raw) : raw[k] = Blank}}]

\* str.strip(): what lies between characters that are not blank
Strip(window, blanks) ==
    {i \in window : \E j, k \in window \ blanks : j <= i /\ i <= k}

HasText(p) == \E n \in 1..Len(p) : \E i \in 1..Len(p[n]) : p[n][i] # Blank

\* Defect: the overlap is not compared with the chunk size.
ConfigValidAnyOverlap == chunk_size > 0 /\ overlap >= 0

\* the three checks of TextChunker.__init__
ConfigValid == chunk_size > 0 /\ overlap >= 0 /\ overlap < chunk_size

MinOf(a, b) == IF a <= b THEN a ELSE b
-----------------------------------------------------------------------------
\* Defect: a PDF without text is not refused.
ExtractAnything ==
    /\ pc = "extract"
    /\ pc' = "configure"
    /\ UNCHANGED <<input, page, text, start, end, chunk_index, chunks>>

Extract ==
    /\ pc = "extract"
    /\ HasText(pdf)
    /\ pc' = "configure"
    /\ UNCHANGED <<input, page, text, start, end, chunk_index, chunks>>

\* EmptyPdfError, or InvalidPdfError of a file PyMuPDF cannot read
ExtractionError ==
    /\ pc = "extract"
    /\ pc' = "extraction_error"
    /\ UNCHANGED <<input, page, text, start, end, chunk_index, chunks>>

Configure ==
    /\ pc = "configure"
    /\ pc' = IF ConfigValid THEN "pages" ELSE "config_error"
    /\ UNCHANGED <<input, page, text, start, end, chunk_index, chunks>>

\* Defect: enumerate() per page instead of one counter.
BeginPageReset ==
    /\ pc = "pages"
    /\ page <= Len(pdf)
    /\ text' = Normalize(pdf[page])
    /\ start' = 0 /\ end' = 0 /\ chunk_index' = 0
    /\ pc' = "windows"
    /\ UNCHANGED <<input, page, chunks>>

BeginPage ==
    /\ pc = "pages"
    /\ page <= Len(pdf)
    /\ text' = Normalize(pdf[page])
    /\ start' = 0 /\ end' = 0
    /\ pc' = "windows"
    /\ UNCHANGED <<input, page, chunk_index, chunks>>

\* Defect: windows side by side.
NextStartWithoutOverlap(e) == e

\* where the window after the one that ends at e begins
NextStart(e) == e - overlap

\* One turn of the while loop; a window of blanks only makes no chunk.
TakeWindow ==
    /\ pc = "windows"
    /\ start < text.length
    /\ end' = MinOf(start + chunk_size, text.length)
    /\ LET chunk == Strip(start..(end' - 1), text.blanks)
       IN  IF chunk = {}
           THEN UNCHANGED <<chunk_index, chunks>>
           ELSE /\ chunks' = chunks \cup {[page |-> page,
                              chunk_index |-> chunk_index, text |-> chunk]}
                /\ chunk_index' = chunk_index + 1
    /\ IF end' = text.length
       THEN pc' = "pages" /\ page' = page + 1 /\ UNCHANGED start
       ELSE start' = NextStart(end') /\ UNCHANGED <<pc, page>>
    /\ UNCHANGED <<input, text>>

\* a page without text; the loop itself always ends in its break
SkipPage ==
    /\ pc = "windows"
    /\ start >= text.length
    /\ pc' = "pages" /\ page' = page + 1
    /\ UNCHANGED <<input, text, start, end, chunk_index, chunks>>

Finish ==
    /\ pc = "pages"
    /\ page > Len(pdf)
    /\ pc' = "done"
    /\ UNCHANGED <<input, page, text, start, end, chunk_index, chunks>>

Init ==
    /\ pdf \in Pdfs /\ chunk_size \in ChunkSizes /\ overlap \in Overlaps
    /\ pc = "extract" /\ page = 1
    /\ text = [length |-> 0, blanks |-> {}]
    /\ start = 0 /\ end = 0
    /\ chunk_index = 0 /\ chunks = {}

Next ==
    \/ Extract \/ ExtractionError \/ Configure
    \/ BeginPage \/ TakeWindow \/ SkipPage \/ Finish

Spec == Init /\ [][Next]_vars
-----------------------------------------------------------------------------
(* What chunking promises                                                  *)

\* The variables keep to their types (fields of TextChunk).
TypeOK ==
    /\ pdf \in Pdfs /\ chunk_size \in ChunkSizes /\ overlap \in Overlaps
    /\ pc \in Stages
    /\ page \in Nat \ {0}
    /\ text \in NormalizedText
    /\ start \in Nat /\ end \in Nat
    /\ chunk_index \in Nat
    /\ chunks \subseteq TextChunk

\* The positions a..b of page p are in one chunk of that page.
InOneChunk(p, a, b) == \E c \in chunks : c.page = p /\ a..b \subseteq c.text

\* A phrase of normalised text t no longer than the overlap plus one.
Phrase(t, a, b) ==
    /\ a <= b /\ b - a <= overlap
    /\ a \notin t.blanks /\ b \notin t.blanks

\* Nothing of a finished page is lost, and the overlap does what it is for: a
\* phrase of at most overlap + 1 characters is never cut by a border between
\* chunks, but stands in one chunk as a whole (_chunk_text).
PhrasesKept ==
    \A p \in 1..(page - 1) :
      LET t == Normalize(pdf[p])
      IN  \A a, b \in 0..(t.length - 1) : Phrase(t, a, b) => InOneChunk(p, a, b)

\* Chunk indexes number the chunks of a document through, without a gap or a
\* repetition across its pages: uq_document_chunks_document_index would
\* otherwise roll the upload back.
IndexesConsecutive ==
    /\ {c.chunk_index : c \in chunks} = 0..(chunk_index - 1)
    /\ \A c, d \in chunks : c.chunk_index = d.chunk_index => c = d

\* No chunk of a page repeats what another one already holds, as soon as the
\* windows advance by two characters: the normalised text has no two blanks in
\* a row, so what is new in a window is never blank, and the loop ends with
\* the window that reaches the end of the text.
NothingRepeated ==
    chunk_size - overlap >= 2 =>
      \A c, d \in chunks : c # d /\ c.page = d.page => ~(c.text \subseteq d.text)

\* A document that was not refused has a chunk: FAILED is the only way to
\* have none (PdfExtractor.extract and chunk_pages agree on what is blank).
ProcessedHasChunks == pc = "done" => chunks # {}

\* Every window of a page ends later than the one before and within the text,
\* so that the loop of _chunk_text ends.
Advances ==
    [][pc = "windows" /\ start < text.length
         => end < end' /\ end' <= text.length]_vars
-----------------------------------------------------------------------------
(* Why they hold                                                           *)

ConfigChecked == pc \in {"pages", "windows", "done"} => ConfigValid

\* pages without any text do not get past extract
TextFound ==
    /\ pc \notin {"extract", "extraction_error"} => HasText(pdf)
    /\ pc = "done" => page > Len(pdf)

\* In the loop, the next window begins at most overlap before the end of the
\* last one, so a phrase that is not in the windows so far is in the next.
LoopInv ==
    pc = "windows" =>
      /\ page <= Len(pdf)
      /\ text = Normalize(pdf[page])
      /\ \/ start = 0 /\ end = 0
         \/ 0 < end /\ end < text.length /\ start = end - overlap
      /\ \A a, b \in 0..(end - 1) :
           Phrase(text, a, b) => InOneChunk(page, a, b)

\* The inductive invariant: types, a checked configuration and the loop's own
\* invariant carry PhrasesKept and IndexesConsecutive (chunk_pages).
IInv ==
    /\ TypeOK
    /\ ConfigChecked
    /\ TextFound
    /\ LoopInv
    /\ PhrasesKept
    /\ IndexesConsecutive

\* Why nothing is repeated: a chunk of the page in work begins before the next
\* window and ends before what that window adds, and neither is only blanks.
WindowsApart ==
    chunk_size - overlap >= 2 =>
      \A c \in chunks :
        /\ c.page <= page
        /\ c.page = page =>
             /\ pc = "windows"
             /\ c.text \subseteq 0..(end - 1)
             /\ \E i \in c.text : i < start
=============================================================================
