--------------------------- MODULE ChunkerProofs ---------------------------
(***************************************************************************)
(* Chunking loses no phrase, repeats none, numbers its chunks through and  *)
(* ends, for all PDFs, chunk sizes and overlaps.  The proofs of the        *)
(* invariants look at one step at a time; only Extract, BeginPage and      *)
(* TakeWindow need thought.                                                *)
(***************************************************************************)
EXTENDS Chunker, FiniteSetTheorems, TLAPS

(* Normalisation                                                           *)

LEMMA KeptFinite ==
  ASSUME NEW raw \in Seq(Chars)
  PROVE  /\ IsFiniteSet(Kept(raw))
         /\ Kept(raw) \subseteq 1..Len(raw)
         /\ Cardinality(Kept(raw)) \in Nat
<1>1. Kept(raw) \subseteq 1..Len(raw)  BY DEF Kept
<1>2. IsFiniteSet(1..Len(raw))  BY FS_Interval
<1>3. IsFiniteSet(Kept(raw))  BY <1>1, <1>2, FS_Subset
<1> QED  BY <1>1, <1>3, FS_CardinalityType

LEMMA PositionType ==
  ASSUME NEW raw \in Seq(Chars), NEW i \in Int
  PROVE  /\ IsFiniteSet({j \in Kept(raw) : j < i})
         /\ Position(raw, i) \in Nat
<1>1. {j \in Kept(raw) : j < i} \subseteq Kept(raw)  OBVIOUS
<1>2. IsFiniteSet({j \in Kept(raw) : j < i})  BY <1>1, KeptFinite, FS_Subset
<1> QED  BY <1>2, FS_CardinalityType DEF Position

LEMMA NormalizeType ==
  ASSUME NEW raw \in Seq(Chars)
  PROVE  Normalize(raw) \in NormalizedText
<1>1. ASSUME NEW i \in Kept(raw)  PROVE Position(raw, i) \in Nat
  <2>1. i \in Int  BY KeptFinite
  <2> QED  BY <2>1, PositionType
<1> QED  BY <1>1, KeptFinite DEF Normalize, NormalizedText

\* Positions grow with the characters that are kept, and stay in the text.
LEMMA PositionGrows ==
  ASSUME NEW raw \in Seq(Chars), NEW i \in Kept(raw)
  PROVE  /\ Position(raw, i) < Cardinality(Kept(raw))
         /\ \A k \in Kept(raw) : i < k => Position(raw, i) < Position(raw, k)
<1> DEFINE Before(k) == {j \in Kept(raw) : j < k}
<1>1. Kept(raw) \subseteq Int /\ i \in Int  BY KeptFinite
<1>2. IsFiniteSet(Before(i)) /\ Position(raw, i) = Cardinality(Before(i))
      /\ Position(raw, i) \in Nat
  BY <1>1, PositionType DEF Position
<1>3. i \notin Before(i)  BY <1>1
<1>4. /\ IsFiniteSet(Before(i) \cup {i})
      /\ Cardinality(Before(i) \cup {i}) = Position(raw, i) + 1
  BY <1>2, <1>3, FS_AddElement
<1>5. Position(raw, i) < Cardinality(Kept(raw))
  <2>1. Before(i) \cup {i} \subseteq Kept(raw)  OBVIOUS
  <2>2. Cardinality(Before(i) \cup {i}) <= Cardinality(Kept(raw))
    BY <2>1, KeptFinite, FS_Subset
  <2> QED  BY <2>2, <1>4, <1>2, KeptFinite
<1>6. ASSUME NEW k \in Kept(raw), i < k
      PROVE  Position(raw, i) < Position(raw, k)
  <2>1. Before(i) \cup {i} \subseteq Before(k)  BY <1>1, <1>6
  <2>2. k \in Int  BY <1>1
  <2>3. IsFiniteSet(Before(k)) /\ Position(raw, k) = Cardinality(Before(k))
        /\ Position(raw, k) \in Nat
    BY <2>2, PositionType DEF Position
  <2>4. Cardinality(Before(i) \cup {i}) <= Cardinality(Before(k))
    BY <2>1, <2>3, FS_Subset
  <2> QED  BY <2>3, <2>4, <1>4, <1>2
<1> QED  BY <1>5, <1>6

\* A character that is not blank is one of the normalised text.
LEMMA TextIsKept ==
  ASSUME NEW raw \in Seq(Chars), NEW i \in 1..Len(raw), raw[i] # Blank
  PROVE  /\ Position(raw, i) \in 0..(Normalize(raw).length - 1)
         /\ Position(raw, i) \notin Normalize(raw).blanks
<1>1. i \in Kept(raw)  BY DEF Kept
<1>0. i \in Int  OBVIOUS
<1>2. Position(raw, i) \in Nat  BY <1>0, PositionType
<1>3. Position(raw, i) \in 0..(Normalize(raw).length - 1)
  BY <1>1, <1>2, PositionGrows, KeptFinite DEF Normalize
<1>4. ASSUME NEW k \in Kept(raw), raw[k] = Blank, Position(raw, i) = Position(raw, k)
      PROVE  FALSE
  <2>1. k \in Int /\ i # k  BY <1>4, KeptFinite
  <2>2. CASE i < k  BY <2>2, <1>1, <1>2, <1>4, PositionGrows
  <2>3. CASE k < i
    <3>1. Position(raw, k) < Position(raw, i)  BY <2>3, <1>1, PositionGrows
    <3> QED  BY <3>1, <1>2, <1>4
  <2> QED  BY <2>1, <2>2, <2>3
<1> QED  BY <1>3, <1>4 DEF Normalize

\* Of two neighbours in the normalised text one is no blank, and the text does
\* not end in a blank (" ".join(text.split())).
LEMMA BlanksApart ==
  ASSUME NEW raw \in Seq(Chars)
  PROVE  /\ \A a \in Normalize(raw).blanks : a + 1 \notin Normalize(raw).blanks
         /\ Normalize(raw).length - 1 \notin Normalize(raw).blanks
<1>1. Normalize(raw).length = Cardinality(Kept(raw))
  BY DEF Normalize
<1>2. ASSUME NEW a \in Normalize(raw).blanks
      PROVE  \E i \in Kept(raw) : raw[i] = Blank /\ a = Position(raw, i)
  BY DEF Normalize
<1>3. ASSUME NEW i \in Kept(raw)
      PROVE  i \in 1..Len(raw) /\ i \in Int /\ Position(raw, i) \in Nat
  <2>1. i \in 1..Len(raw) /\ i \in Int  BY KeptFinite
  <2> QED  BY <2>1, PositionType
<1>4. ASSUME NEW i \in Kept(raw), raw[i] = Blank,
             NEW k \in Kept(raw), raw[k] = Blank
      PROVE  Position(raw, k) # Position(raw, i) + 1
  <2>1. CASE i < k
    <3>1. k > 1 /\ raw[k - 1] # Blank  BY <1>4 DEF Kept
    <3>2. k - 1 \in Kept(raw)  BY <3>1, <1>3 DEF Kept
    <3>3. i < k - 1  BY <2>1, <3>1, <1>3, <1>4
    <3>4. Position(raw, i) < Position(raw, k - 1)  BY <3>2, <3>3, PositionGrows
    <3>5. Position(raw, k - 1) < Position(raw, k)
      <4>1. k - 1 < k  BY <1>3
      <4> QED  BY <3>2, <4>1, PositionGrows
    <3> QED  BY <3>2, <3>4, <3>5, <1>3
  <2>2. CASE k < i
    <3>1. Position(raw, k) < Position(raw, i)  BY <2>2, PositionGrows
    <3> QED  BY <3>1, <1>3
  <2>3. CASE k = i  BY <2>3, <1>3
  <2> QED  BY <2>1, <2>2, <2>3, <1>3
<1>5. ASSUME NEW i \in Kept(raw), raw[i] = Blank
      PROVE  Position(raw, i) # Cardinality(Kept(raw)) - 1
  <2>1. PICK j \in (i + 1)..Len(raw) : raw[j] # Blank  BY <1>5 DEF Kept
  <2>2. j \in Kept(raw) /\ i < j  BY <2>1, <1>3 DEF Kept
  <2>3. Position(raw, i) < Position(raw, j)  BY <2>2, PositionGrows
  <2>4. Position(raw, j) < Cardinality(Kept(raw))  BY <2>2, PositionGrows
  <2> QED  BY <2>2, <2>3, <2>4, <1>3, KeptFinite
<1> QED  BY <1>1, <1>2, <1>4, <1>5
-----------------------------------------------------------------------------
(* Every step preserves the invariant                                      *)

LEMMA PageText ==
  ASSUME TypeOK, page <= Len(pdf)
  PROVE  pdf[page] \in Seq(Chars) /\ Normalize(pdf[page]) \in NormalizedText
<1>1. pdf \in Seq(Seq(Chars))  BY ChunkerAssumption DEF TypeOK
<1>2. page \in 1..Len(pdf)  BY <1>1 DEF TypeOK
<1>3. pdf[page] \in Seq(Chars)  BY <1>1, <1>2
<1> QED  BY <1>3, NormalizeType

LEMMA ConfigNumbers ==
  ASSUME TypeOK, ConfigValid
  PROVE  chunk_size \in Nat \ {0} /\ overlap \in 0..(chunk_size - 1)
BY ChunkerAssumption DEF TypeOK, ConfigValid

\* A window that takes the loop from end to its own end, next: what it adds,
\* and why the phrases up to next are kept.
LEMMA WindowStep ==
  ASSUME IInv, TakeWindow
  PROVE  /\ end' \in Nat /\ end < end' /\ end' <= text.length
         /\ end' # text.length => /\ start' \in Nat /\ 0 < end'
                                  /\ start' = end' - overlap
         /\ chunks \subseteq chunks' /\ chunks' \subseteq TextChunk
         /\ \A a, b \in Nat :
              b < end' /\ Phrase(text, a, b) =>
                \E c \in chunks' : c.page = page /\ a..b \subseteq c.text
<1> DEFINE window == start..(end' - 1)
           chunk == Strip(window, text.blanks)
<1>1. /\ pc = "windows" /\ start < text.length
      /\ end' = MinOf(start + chunk_size, text.length)
      /\ page \in Nat /\ chunk_index \in Nat /\ start \in Nat /\ end \in Nat
      /\ chunks \subseteq TextChunk /\ text.length \in Nat
  BY DEF IInv, TypeOK, TakeWindow, NormalizedText
<1>2. chunk_size \in Nat \ {0} /\ overlap \in 0..(chunk_size - 1)
  BY <1>1, ConfigNumbers DEF IInv, ConfigChecked
<1>3. \/ start = 0 /\ end = 0
      \/ 0 < end /\ end < text.length /\ start = end - overlap
  BY <1>1 DEF IInv, LoopInv
<1>4. end' \in Nat /\ end < end' /\ end' <= text.length
  BY <1>1, <1>2, <1>3 DEF MinOf
<1>5. end' # text.length => start' \in Nat /\ 0 < end' /\ start' = end' - overlap
  BY <1>1, <1>2, <1>4 DEF TakeWindow, NextStart, MinOf
<1>6. chunk \subseteq window /\ chunk \subseteq Nat
  BY <1>1, <1>4 DEF Strip
<1>7. chunks \subseteq chunks' /\ chunks' \subseteq TextChunk
  <2>1. CASE chunk = {}  BY <2>1, <1>1 DEF TakeWindow
  <2>2. CASE chunk # {}
    <3>1. [page |-> page, chunk_index |-> chunk_index, text |-> chunk] \in TextChunk
      BY <1>1, <1>6 DEF TextChunk
    <3> QED  BY <2>2, <3>1, <1>1 DEF TakeWindow
  <2> QED  BY <2>1, <2>2
<1>8. ASSUME NEW a \in Nat, NEW b \in Nat, b < end', Phrase(text, a, b)
      PROVE  \E c \in chunks' : c.page = page /\ a..b \subseteq c.text
  <2>1. /\ a \in Nat /\ b \in Nat /\ a <= b /\ b - a <= overlap /\ b < end'
        /\ a \notin text.blanks /\ b \notin text.blanks
    BY <1>8 DEF Phrase
  <2>2. CASE b < end
    <3>1. a \in 0..(end - 1) /\ b \in 0..(end - 1)  BY <2>1, <2>2, <1>1
    <3>2. InOneChunk(page, a, b)  BY <3>1, <1>1, <1>8 DEF IInv, LoopInv
    <3> QED  BY <3>2, <1>7 DEF InOneChunk
  <2>3. CASE end <= b
    <3>1. start <= a
      BY <2>1, <2>3, <1>1, <1>2, <1>3
    <3>2. a..b \subseteq window  BY <3>1, <2>1, <1>1, <1>4
    <3>3. a \in window \ text.blanks /\ b \in window \ text.blanks
      BY <3>2, <2>1
    <3>4. a..b \subseteq chunk
      BY <3>2, <3>3, <2>1 DEF Strip
    <3>5. chunk # {}  BY <3>4, <2>1
    <3>6. [page |-> page, chunk_index |-> chunk_index, text |-> chunk] \in chunks'
      BY <3>5 DEF TakeWindow
    <3> QED  BY <3>4, <3>6
  <2> QED  BY <2>1, <2>2, <2>3, <1>1
<1> QED  BY <1>4, <1>5, <1>7, <1>8

LEMMA TakeWindowStep ==
  ASSUME IInv, TakeWindow
  PROVE  IInv'
<1> DEFINE chunk == Strip(start..(end' - 1), text.blanks)
<1>1. /\ pc = "windows" /\ page \in Nat \ {0} /\ chunk_index \in Nat
      /\ page <= Len(pdf) /\ text = Normalize(pdf[page])
      /\ text \in NormalizedText /\ start \in Nat /\ end \in Nat
      /\ UNCHANGED <<pdf, chunk_size, overlap, text>>
  BY DEF IInv, TypeOK, LoopInv, TakeWindow, input
<1>2. TypeOK'
  <2>1. start' \in Nat /\ end' \in Nat /\ chunks' \subseteq TextChunk
    BY <1>1, WindowStep DEF TakeWindow
  <2>2. page' \in Nat \ {0} /\ pc' \in Stages /\ chunk_index' \in Nat
    BY <1>1 DEF TakeWindow, Stages
  <2> QED  BY <2>1, <2>2, <1>1 DEF IInv, TypeOK
<1>3. ConfigChecked' /\ TextFound'
  BY <1>1 DEF IInv, ConfigChecked, ConfigValid, TextFound, HasText, TakeWindow
<1>4. LoopInv'
  <2>1. CASE end' = text.length
    BY <2>1 DEF TakeWindow, LoopInv
  <2>2. CASE end' # text.length
    <3>1. pc' = "windows" /\ page' = page /\ end' < text.length
      BY <2>2, <1>1, WindowStep DEF TakeWindow, NormalizedText
    <3>2. 0 < end' /\ start' = end' - overlap  BY <2>2, WindowStep
    <3>3. (\A a, b \in 0..(end - 1) : Phrase(text, a, b) => InOneChunk(page, a, b))'
      <4>1. PICK e \in Nat : e = end'  BY WindowStep
      <4>2. \A a, b \in Nat : b < e /\ Phrase(text, a, b) =>
              \E c \in chunks' : c.page = page /\ a..b \subseteq c.text
        BY <4>1, WindowStep
      <4>3. \A a, b \in 0..(e - 1) : Phrase(text, a, b) =>
              \E c \in chunks' : c.page = page /\ a..b \subseteq c.text
        BY <4>2
      <4> QED  BY <4>1, <4>3, <3>1, <1>1 DEF Phrase, InOneChunk
    <3> QED  BY <3>1, <3>2, <3>3, <1>1 DEF LoopInv
  <2> QED  BY <2>1, <2>2
<1>5. PhrasesKept'
  <2>1. chunks \subseteq chunks'  BY WindowStep
  <2>2. CASE end' # text.length
    <3>1. page' = page  BY <2>2 DEF TakeWindow
    <3> QED  BY <2>1, <3>1, <1>1 DEF IInv, PhrasesKept, Phrase, InOneChunk
  <2>3. CASE end' = text.length
    <3>1. page' = page + 1  BY <2>3 DEF TakeWindow
    <3>2. \A a, b \in 0..(text.length - 1) : Phrase(text, a, b) =>
            \E c \in chunks' : c.page = page /\ a..b \subseteq c.text
      BY <2>3, <1>1, WindowStep DEF NormalizedText
    <3>3. ASSUME NEW p \in 1..page,
                 NEW a \in 0..(Normalize(pdf[p]).length - 1),
                 NEW b \in 0..(Normalize(pdf[p]).length - 1),
                 Phrase(Normalize(pdf[p]), a, b)
          PROVE  \E c \in chunks' : c.page = p /\ a..b \subseteq c.text
      <4>1. CASE p = page  BY <4>1, <3>2, <3>3, <1>1
      <4>2. CASE p # page
        <5>1. p \in 1..(page - 1)  BY <4>2, <1>1
        <5>2. InOneChunk(p, a, b)  BY <5>1, <3>3 DEF IInv, PhrasesKept
        <5> QED  BY <5>2, <2>1 DEF InOneChunk
      <4> QED  BY <4>1, <4>2
    <3>4. page' - 1 = page  BY <3>1, <1>1
    <3> QED  BY <3>3, <3>4, <1>1 DEF PhrasesKept, Phrase, InOneChunk
  <2> QED  BY <2>2, <2>3
<1>6. IndexesConsecutive'
  <2>1. CASE chunk = {}
    BY <2>1 DEF IInv, IndexesConsecutive, TakeWindow
  <2>2. CASE chunk # {}
    <3> DEFINE new == [page |-> page, chunk_index |-> chunk_index, text |-> chunk]
    <3>1. chunks' = chunks \cup {new} /\ chunk_index' = chunk_index + 1
      BY <2>2 DEF TakeWindow
    <3>2. new.chunk_index = chunk_index  OBVIOUS
    <3>3. \A c \in chunks : c.chunk_index \in 0..(chunk_index - 1)
      BY DEF IInv, IndexesConsecutive
    <3> HIDE DEF new
    <3>4. {c.chunk_index : c \in chunks'} = 0..(chunk_index' - 1)
      <4>1. {c.chunk_index : c \in chunks'} = {c.chunk_index : c \in chunks} \cup {chunk_index}
        BY <3>1, <3>2
      <4>2. 0..chunk_index = 0..(chunk_index - 1) \cup {chunk_index}  BY <1>1
      <4>3. chunk_index' - 1 = chunk_index  BY <3>1, <1>1
      <4> QED  BY <4>1, <4>2, <4>3 DEF IInv, IndexesConsecutive
    <3>5. \A c, d \in chunks' : c.chunk_index = d.chunk_index => c = d
      BY <3>1, <3>2, <3>3, <1>1 DEF IInv, IndexesConsecutive
    <3> QED  BY <3>4, <3>5 DEF IndexesConsecutive
  <2> QED  BY <2>1, <2>2
<1> QED  BY <1>2, <1>3, <1>4, <1>5, <1>6 DEF IInv

LEMMA BeginPageStep ==
  ASSUME IInv, BeginPage
  PROVE  IInv'
<1>1. /\ page <= Len(pdf) /\ pc' = "windows" /\ text' = Normalize(pdf[page])
      /\ start' = 0 /\ end' = 0
      /\ UNCHANGED <<pdf, chunk_size, overlap, page, chunk_index, chunks>>
  BY DEF BeginPage, input
<1>2. TypeOK'
  BY <1>1, PageText DEF IInv, TypeOK, Stages
<1>3. ConfigChecked' /\ TextFound'
  BY <1>1 DEF IInv, ConfigChecked, ConfigValid, TextFound, HasText, BeginPage
<1>4. LoopInv'
  BY <1>1 DEF LoopInv
<1>5. PhrasesKept' /\ IndexesConsecutive'
  BY <1>1 DEF IInv, PhrasesKept, IndexesConsecutive, Phrase, InOneChunk
<1> QED  BY <1>2, <1>3, <1>4, <1>5 DEF IInv

LEMMA SkipPageStep ==
  ASSUME IInv, SkipPage
  PROVE  IInv'
<1>1. /\ pc = "windows" /\ pc' = "pages" /\ page' = page + 1 /\ page \in Nat \ {0}
      /\ text = Normalize(pdf[page]) /\ text \in NormalizedText
      /\ start \in Nat /\ end \in Nat /\ start >= text.length
      /\ UNCHANGED <<pdf, chunk_size, overlap, text, start, end, chunk_index, chunks>>
  BY DEF IInv, TypeOK, LoopInv, SkipPage, input
<1>2. TypeOK'
  BY <1>1 DEF IInv, TypeOK, Stages
<1>3. ConfigChecked' /\ TextFound'
  BY <1>1 DEF IInv, ConfigChecked, ConfigValid, TextFound, HasText
<1>4. LoopInv'
  BY <1>1 DEF LoopInv
<1>5. text.length = 0
  <2>1. start <= end
    BY <1>1, ConfigNumbers DEF IInv, LoopInv, ConfigChecked
  <2> QED  BY <2>1, <1>1 DEF IInv, LoopInv, NormalizedText
<1>6. PhrasesKept'
  <2>1. ASSUME NEW p \in 1..page,
               NEW a \in 0..(Normalize(pdf[p]).length - 1),
               NEW b \in 0..(Normalize(pdf[p]).length - 1),
               Phrase(Normalize(pdf[p]), a, b)
        PROVE  InOneChunk(p, a, b)
    <3>1. p # page  BY <2>1, <1>1, <1>5
    <3>2. p \in 1..(page - 1)  BY <3>1, <1>1
    <3> QED  BY <3>2, <2>1 DEF IInv, PhrasesKept
  <2>2. page' - 1 = page  BY <1>1
  <2> QED  BY <2>1, <2>2, <1>1 DEF PhrasesKept, Phrase, InOneChunk
<1>7. IndexesConsecutive'
  BY <1>1 DEF IInv, IndexesConsecutive
<1> QED  BY <1>2, <1>3, <1>4, <1>6, <1>7 DEF IInv

\* The steps that move on without touching the text.
LEMMA OtherSteps ==
  ASSUME IInv, Extract \/ ExtractionError \/ Configure \/ Finish
  PROVE  IInv'
<1>1. /\ pc' \in Stages \ {"windows"}
      /\ UNCHANGED <<pdf, chunk_size, overlap, page, text, start, end, chunk_index, chunks>>
  BY DEF Extract, ExtractionError, Configure, Finish, input, Stages
<1>2. TypeOK'
  BY <1>1 DEF IInv, TypeOK
<1>3. ConfigChecked'
  BY <1>1 DEF IInv, ConfigChecked, ConfigValid, Extract, ExtractionError, Configure, Finish
<1>4. TextFound'
  BY <1>1 DEF IInv, TextFound, HasText, Extract, ExtractionError, Configure, Finish, TypeOK
<1>5. LoopInv'
  BY <1>1 DEF LoopInv, Stages
<1>6. PhrasesKept' /\ IndexesConsecutive'
  BY <1>1 DEF IInv, PhrasesKept, IndexesConsecutive, Phrase, InOneChunk
<1> QED  BY <1>2, <1>3, <1>4, <1>5, <1>6 DEF IInv

LEMMA InitInvariant ==
  ASSUME Init
  PROVE  IInv
<1>1. TypeOK
  BY DEF Init, TypeOK, Stages, NormalizedText
<1>2. ConfigChecked /\ TextFound /\ LoopInv
  BY DEF Init, ConfigChecked, TextFound, LoopInv
<1>3. PhrasesKept /\ IndexesConsecutive
  BY DEF Init, PhrasesKept, IndexesConsecutive
<1> QED  BY <1>1, <1>2, <1>3 DEF IInv

LEMMA NextInvariant ==
  ASSUME IInv, [Next]_vars
  PROVE  IInv'
<1>1. CASE Extract \/ ExtractionError \/ Configure \/ Finish
  BY <1>1, OtherSteps
<1>2. CASE BeginPage  BY <1>2, BeginPageStep
<1>3. CASE TakeWindow  BY <1>3, TakeWindowStep
<1>4. CASE SkipPage  BY <1>4, SkipPageStep
<1>5. CASE UNCHANGED vars
  BY <1>5 DEF vars, IInv, TypeOK, ConfigChecked, ConfigValid, TextFound, HasText,
     LoopInv, PhrasesKept, IndexesConsecutive, Phrase, InOneChunk
<1> QED  BY <1>1, <1>2, <1>3, <1>4, <1>5 DEF Next
-----------------------------------------------------------------------------
(* Nothing is repeated                                                     *)

\* A window holds a character that is not blank before the next window begins,
\* and one that no earlier window held.
LEMMA WindowAdds ==
  ASSUME IInv, TakeWindow, chunk_size - overlap >= 2
  PROVE  LET chunk == Strip(start..(end' - 1), text.blanks)
         IN  /\ \E i \in chunk : end <= i
             /\ end' # text.length => \E i \in chunk : i < end' - overlap
<1> DEFINE window == start..(end' - 1)
           chunk == Strip(window, text.blanks)
<1>1. /\ pc = "windows" /\ start < text.length
      /\ end' = MinOf(start + chunk_size, text.length)
      /\ page <= Len(pdf) /\ text = Normalize(pdf[page])
      /\ start \in Nat /\ end \in Nat /\ text.length \in Nat
  BY DEF IInv, TypeOK, LoopInv, TakeWindow, NormalizedText
<1>2. chunk_size \in Nat \ {0} /\ overlap \in 0..(chunk_size - 1)
  BY <1>1, ConfigNumbers DEF IInv, ConfigChecked
<1>3. \/ start = 0 /\ end = 0
      \/ 0 < end /\ end < text.length /\ start = end - overlap
  BY <1>1 DEF IInv, LoopInv
<1>4. /\ \A a \in text.blanks : a + 1 \notin text.blanks
      /\ text.length - 1 \notin text.blanks
  BY <1>1, PageText, BlanksApart DEF IInv
<1>5. end' \in Nat /\ end < end' /\ end' <= text.length  BY WindowStep
<1>6. \A i \in window : i \notin text.blanks => i \in chunk
  BY <1>1, <1>5 DEF Strip
<1>7. \E i \in chunk : end <= i
  <2>1. CASE end' = text.length
    <3>1. text.length - 1 \in window /\ end <= text.length - 1
      BY <2>1, <1>1, <1>2, <1>3, <1>5
    <3> QED  BY <3>1, <1>4, <1>6
  <2>2. CASE end' # text.length
    <3>1. end' = start + chunk_size  BY <2>2, <1>1, <1>2 DEF MinOf
    <3>2. /\ end \in window /\ end + 1 \in window
          /\ end <= end + 1
      BY <3>1, <1>1, <1>2, <1>3, <1>5
    <3> QED  BY <3>2, <1>1, <1>4, <1>6
  <2> QED  BY <2>1, <2>2
<1>8. ASSUME end' # text.length  PROVE \E i \in chunk : i < end' - overlap
  <2>1. end' = start + chunk_size  BY <1>8, <1>1, <1>2 DEF MinOf
  <2>2. /\ start \in window /\ start + 1 \in window
        /\ start < end' - overlap /\ start + 1 < end' - overlap
    BY <2>1, <1>1, <1>2, <1>5
  <2> QED  BY <2>2, <1>4, <1>6
<1> QED  BY <1>7, <1>8

LEMMA TakeWindowApart ==
  ASSUME IInv, WindowsApart, NothingRepeated, TakeWindow
  PROVE  WindowsApart' /\ NothingRepeated'
<1> SUFFICES ASSUME chunk_size - overlap >= 2
             PROVE  WindowsApart' /\ NothingRepeated'
  BY DEF WindowsApart, NothingRepeated, TakeWindow, input
<1> DEFINE chunk == Strip(start..(end' - 1), text.blanks)
<1>1. /\ pc = "windows" /\ page \in Nat \ {0} /\ start \in Nat /\ end \in Nat
      /\ text.length \in Nat /\ chunks \subseteq TextChunk
      /\ UNCHANGED <<pdf, chunk_size, overlap, text>>
  BY DEF IInv, TypeOK, TakeWindow, input, NormalizedText
<1>2. end' \in Nat /\ end < end' /\ end' <= text.length  BY WindowStep
<1>3. chunk \subseteq start..(end' - 1)  BY DEF Strip
<1>4. PICK m \in chunk : end <= m  BY WindowAdds
<1>5. PICK new : /\ chunks' = chunks \cup {new}
                 /\ new.page = page /\ new.text = chunk
  <2> DEFINE n == [page |-> page, chunk_index |-> chunk_index, text |-> chunk]
  <2>1. chunks' = chunks \cup {n}  BY <1>4 DEF TakeWindow
  <2>2. n.page = page /\ n.text = chunk  OBVIOUS
  <2> HIDE DEF n
  <2> QED  BY <2>1, <2>2
<1> HIDE DEF chunk
<1>6. \A c \in chunks : /\ c.page \in Nat /\ c.page <= page
                        /\ c.page = page => /\ c.text \subseteq 0..(end - 1)
                                            /\ \E i \in c.text : i < start
  BY <1>1 DEF WindowsApart, TextChunk
<1>7. NothingRepeated'
  <2>1. ASSUME NEW c \in chunks, c.page = page
        PROVE  ~(c.text \subseteq chunk) /\ ~(chunk \subseteq c.text)
    <3>1. m \notin c.text  BY <1>1, <1>4, <1>6, <2>1
    <3>2. PICK i \in c.text : i < start  BY <1>6, <2>1
    <3>3. i \notin chunk  BY <3>2, <1>1, <1>3, <1>6, <2>1
    <3> QED  BY <3>1, <3>2, <3>3, <1>4
  <2> QED  BY <1>1, <1>5, <2>1 DEF NothingRepeated
<1>8. WindowsApart'
  <2>1. CASE end' = text.length
    <3>1. page' = page + 1  BY <2>1 DEF TakeWindow
    <3> QED  BY <1>1, <1>5, <1>6, <3>1 DEF WindowsApart
  <2>2. CASE end' # text.length
    <3>1. /\ page' = page /\ pc' = "windows"
          /\ start' \in Nat /\ start' = end' - overlap
      BY <2>2, <1>1, WindowStep DEF TakeWindow
    <3>2. PICK k \in chunk : k < start'  BY <2>2, <3>1, WindowAdds DEF chunk
    <3>3. PICK e \in Nat : e = end' /\ end < e  BY <1>2
    <3>4. ASSUME NEW i \in chunk  PROVE i \in 0..(e - 1)
      <4>1. i \in start..(e - 1)  BY <1>3, <3>3, Zenon
      <4>2. start \in Nat  BY <1>1
      <4> QED  BY <4>1, <4>2
    <3>5. start <= start'
      BY <2>2, <1>1, <3>1, ConfigNumbers DEF IInv, ConfigChecked, TakeWindow, MinOf
    <3>6. ASSUME NEW c \in chunks, c.page = page
          PROVE  c.text \subseteq 0..(e - 1) /\ \E i \in c.text : i < start'
      <4>1. PICK i \in c.text : i < start  BY <1>6, <3>6
      <4>2. c.text \subseteq 0..(end - 1)  BY <1>6, <3>6
      <4>3. i \in Nat  BY <4>2
      <4>4. i < start'  BY <4>1, <4>3, <1>1, <3>1, <3>5
      <4>5. ASSUME NEW j \in c.text  PROVE j \in 0..(e - 1)
        <5>1. j \in 0..(end - 1)  BY <4>2
        <5>2. end \in Nat  BY <1>1
        <5>3. end < e  BY <3>3
        <5> QED  BY <5>1, <5>2, <5>3
      <4> QED  BY <4>4, <4>5
    <3>7. ASSUME NEW c \in chunks'
          PROVE  /\ c.page <= page
                 /\ c.page = page =>
                      c.text \subseteq 0..(e - 1) /\ \E i \in c.text : i < start'
      <4>1. CASE c \in chunks  BY <4>1, <1>6, <3>6
      <4>2. CASE c = new  BY <4>2, <1>1, <1>5, <3>2, <3>4
      <4> QED  BY <4>1, <4>2, <1>5
    <3> QED  BY <1>1, <3>1, <3>3, <3>7 DEF WindowsApart
  <2> QED  BY <2>1, <2>2
<1> QED  BY <1>7, <1>8

LEMMA NextApart ==
  ASSUME IInv, WindowsApart, NothingRepeated, [Next]_vars
  PROVE  WindowsApart' /\ NothingRepeated'
<1>1. CASE TakeWindow  BY <1>1, TakeWindowApart
<1>2. ASSUME UNCHANGED <<chunk_size, overlap, chunks>>
      PROVE  NothingRepeated'
  BY <1>2 DEF NothingRepeated
<1>3. CASE Extract \/ ExtractionError \/ Configure \/ Finish \/ BeginPage
  <2>1. /\ pc # "windows"
        /\ UNCHANGED <<chunk_size, overlap, page, chunks>>
    BY <1>3 DEF Extract, ExtractionError, Configure, Finish, BeginPage, input
  <2>2. WindowsApart'  BY <2>1 DEF WindowsApart
  <2> QED  BY <2>1, <2>2, <1>2
<1>4. CASE SkipPage
  <2>1. /\ UNCHANGED <<chunk_size, overlap, chunks>> /\ page' = page + 1
        /\ page \in Nat /\ \A c \in chunks : c.page \in Nat
    BY <1>4 DEF SkipPage, input, IInv, TypeOK, TextChunk
  <2>2. WindowsApart'  BY <2>1 DEF WindowsApart
  <2> QED  BY <2>1, <2>2, <1>2
<1>5. CASE UNCHANGED vars
  BY <1>5 DEF vars, WindowsApart, NothingRepeated
<1> QED  BY <1>1, <1>3, <1>4, <1>5 DEF Next
-----------------------------------------------------------------------------
(* The theorems                                                            *)

\* The inductive invariant holds of every run of chunk_pages.
THEOREM InvariantTheorem == Spec => []IInv
<1>1. Init => IInv  BY InitInvariant
<1>2. IInv /\ [Next]_vars => IInv'  BY NextInvariant
<1> QED  BY <1>1, <1>2, PTL DEF Spec

\* Types, among them that a window never starts before the text.
THEOREM TypeTheorem == Spec => []TypeOK
<1>1. IInv => TypeOK  BY DEF IInv
<1> QED  BY <1>1, InvariantTheorem, PTL

\* No phrase of up to overlap + 1 characters is cut or lost, whatever the
\* PDF, the chunk size and the overlap (_chunk_text).
THEOREM PhrasesTheorem == Spec => []PhrasesKept
<1>1. IInv => PhrasesKept  BY DEF IInv
<1> QED  BY <1>1, InvariantTheorem, PTL

\* Chunk indexes are distinct and without a gap, so the unique constraint on
\* (document_id, chunk_index) never refuses an upload.
THEOREM IndexesTheorem == Spec => []IndexesConsecutive
<1>1. IInv => IndexesConsecutive  BY DEF IInv
<1> QED  BY <1>1, InvariantTheorem, PTL

\* No chunk of a page is contained in another one, as soon as the windows
\* advance by two characters: a blank is never followed by a blank, so every
\* window adds text, and the loop ends with the window that reaches the end.
THEOREM NothingRepeatedTheorem == Spec => []NothingRepeated
<1>1. Init => WindowsApart /\ NothingRepeated
  BY DEF Init, WindowsApart, NothingRepeated
<1>2. IInv /\ WindowsApart /\ NothingRepeated /\ [Next]_vars
        => WindowsApart' /\ NothingRepeated'
  BY NextApart
<1> QED  BY <1>1, <1>2, InvariantTheorem, PTL DEF Spec

\* A PDF that is not refused yields a chunk.
THEOREM ProcessedTheorem == Spec => []ProcessedHasChunks
<1>1. IInv => ProcessedHasChunks
  <2> SUFFICES ASSUME IInv, pc = "done"  PROVE chunks # {}
    BY DEF ProcessedHasChunks
  <2>1. PICK n \in 1..Len(pdf) : \E i \in 1..Len(pdf[n]) : pdf[n][i] # Blank
    BY DEF IInv, TextFound, HasText
  <2>2. PICK i \in 1..Len(pdf[n]) : pdf[n][i] # Blank  BY <2>1
  <2>3. pdf \in Seq(Seq(Chars)) /\ page \in Nat /\ overlap \in Nat
    BY ChunkerAssumption, ConfigNumbers DEF IInv, TypeOK, ConfigChecked
  <2>4. pdf[n] \in Seq(Chars)  BY <2>3
  <2>5. n \in 1..(page - 1)  BY <2>3 DEF IInv, TextFound
  <2> DEFINE a == Position(pdf[n], i)
  <2>6. a \in 0..(Normalize(pdf[n]).length - 1) /\ a \notin Normalize(pdf[n]).blanks
    BY <2>2, <2>4, TextIsKept
  <2>7. a \in Int  BY <2>6
  <2> HIDE DEF a
  <2>8. Phrase(Normalize(pdf[n]), a, a)  BY <2>3, <2>6, <2>7 DEF Phrase
  <2>9. InOneChunk(n, a, a)  BY <2>5, <2>6, <2>8 DEF IInv, PhrasesKept
  <2> QED  BY <2>9 DEF InOneChunk
<1> QED  BY <1>1, InvariantTheorem, PTL

\* Each window ends later than the one before it: the loop is finite.
THEOREM AdvancesTheorem == Spec => Advances
<1>1. IInv /\ [Next]_vars =>
        [pc = "windows" /\ start < text.length
           => end < end' /\ end' <= text.length]_vars
  <2> SUFFICES ASSUME IInv, Next, pc = "windows", start < text.length
               PROVE  end < end' /\ end' <= text.length
    OBVIOUS
  <2>1. TakeWindow
    <3>1. ~SkipPage  BY DEF SkipPage, IInv, TypeOK, NormalizedText
    <3> QED  BY <3>1 DEF Next, Extract, ExtractionError, Configure, BeginPage, Finish
  <2> QED  BY <2>1, WindowStep
<1> QED  BY <1>1, InvariantTheorem, PTL DEF Spec, Advances
=============================================================================
