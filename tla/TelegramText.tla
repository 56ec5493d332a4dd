---------------------------- MODULE TelegramText ----------------------------
(***************************************************************************)
(* A text of the bot on its way to Telegram: split_telegram_text cuts it   *)
(* at line ends into messages within the limit, edit_answer_message sends  *)
(* them one by one, the first in place of the "searching" message; an      *)
(* answer that a button edits is cut by fit_telegram_text instead.         *)
(*                                                                         *)
(* Everything the loop handles is an interval of the text: current is      *)
(* from .. pos - 1, a part is what rstrip leaves of such an interval.      *)
(* Telegram (external) refuses a message that is too long or blank.        *)
(***************************************************************************)
EXTENDS Integers, Sequences

CONSTANTS
    Texts,   \* the texts to send
    Limits,  \* values of the parameter limit, TELEGRAM_MESSAGE_LIMIT among them
    Suffix   \* length of TRUNCATED_TEXT_SUFFIX

Newline == "\n"  \* any line boundary of str.splitlines()
Blanks == {" ", Newline}
Chars == Blanks \cup {"x"}

ASSUME TelegramTextAssumption ==
    /\ Texts \subseteq Seq(Chars) \ {<<>>}
    /\ Limits \subseteq Nat
    /\ Suffix \in Nat
    /\ \A n \in Limits : Suffix < n

VARIABLES
    text, limit,
    pc,
    pos,    \* where the next line begins
    from,   \* where current begins
    parts,  \* intervals of the text, and whether the suffix follows
    sent    \* how many parts Telegram has accepted

vars == <<text, limit, pc, pos, from, parts, sent>>

Part == [first : Nat \ {0}, last : Nat, truncated : BOOLEAN]

Whole(a, b) == [first |-> a, last |-> b, truncated |-> FALSE]
Blank(i) == text[i] \in Blanks

\* str.rstrip() of the characters a..b
RStrip(a, b) ==
    [first |-> a, truncated |-> FALSE,
     last |-> CHOOSE k \in (a - 1) .. b :
                /\ \A i \in (k + 1) .. b : Blank(i)
                /\ k = a - 1 \/ ~Blank(k)]

\* len() of a part
Length(p) == p.last - p.first + 1 + (IF p.truncated THEN Suffix ELSE 0)

\* Defect: a line takes the first character of the next one.
LineEndLate(a) ==
    1 + CHOOSE e \in a .. Len(text) :
          /\ e = Len(text) \/ text[e] = Newline
          /\ \A i \in a .. (e - 1) : text[i] # Newline

\* where the line that begins at a ends, its boundary included
LineEnd(a) ==
    CHOOSE e \in a .. Len(text) :
      /\ e = Len(text) \/ text[e] = Newline
      /\ \A i \in a .. (e - 1) : text[i] # Newline

LineLength == LineEnd(pos) - pos + 1

\* line[index : index + limit] for each index in steps of limit
Pieces(a, b) ==
    [i \in 1 .. ((b - a) \div limit) + 1 |->
       Whole(a + (i - 1) * limit, IF a + i * limit > b THEN b ELSE a + i * limit - 1)]

\* Defect: the line to come is not counted.
FitsWithoutLine == pos - from <= limit

\* current and the line at pos are within the limit together
Fits == (pos - from) + LineLength <= limit

\* Defect: current is begun anew without being kept.
CurrentDropped == <<>>

\* Defect: current is kept though there is none.
CurrentUnchecked == <<RStrip(from, pos - 1)>>

\* current, if there is any, as a part
Current == IF from < pos THEN <<RStrip(from, pos - 1)>> ELSE <<>>
-----------------------------------------------------------------------------
InLoop == pc = "lines" /\ pos <= Len(text)

\* The text is one message as it is.
Short ==
    /\ pc = "start"
    /\ Len(text) <= limit
    /\ parts' = <<Whole(1, Len(text))>>
    /\ pc' = "send"
    /\ UNCHANGED <<text, limit, pos, from, sent>>

Split ==
    /\ pc = "start"
    /\ Len(text) > limit
    /\ pc' = "lines"
    /\ UNCHANGED <<text, limit, pos, from, parts, sent>>

\* fit_telegram_text of a text beyond the limit
Fit ==
    /\ pc = "start"
    /\ Len(text) > limit
    /\ parts' = <<[RStrip(1, limit - Suffix) EXCEPT !.truncated = TRUE]>>
    /\ pc' = "send"
    /\ UNCHANGED <<text, limit, pos, from, sent>>

LongLine ==
    /\ InLoop
    /\ LineLength > limit
    /\ parts' = parts \o Current \o Pieces(pos, LineEnd(pos))
    /\ pos' = LineEnd(pos) + 1
    /\ from' = pos'
    /\ UNCHANGED <<text, limit, pc, sent>>

\* Defect: the message is filled up to the limit.
FlushFilled ==
    /\ InLoop
    /\ LineLength <= limit
    /\ ~Fits
    /\ parts' = Append(parts, RStrip(from, from + limit - 1))
    /\ from' = from + limit
    /\ pos' = LineEnd(pos) + 1
    /\ UNCHANGED <<text, limit, pc, sent>>

Flush ==
    /\ InLoop
    /\ LineLength <= limit
    /\ ~Fits
    /\ parts' = parts \o Current
    /\ from' = pos
    /\ pos' = LineEnd(pos) + 1
    /\ UNCHANGED <<text, limit, pc, sent>>

AddLine ==
    /\ InLoop
    /\ LineLength <= limit
    /\ Fits
    /\ pos' = LineEnd(pos) + 1
    /\ UNCHANGED <<text, limit, pc, from, parts, sent>>

Finish ==
    /\ pc = "lines"
    /\ pos > Len(text)
    /\ parts' = parts \o Current
    /\ from' = pos
    /\ pc' = "send"
    /\ UNCHANGED <<text, limit, pos, sent>>

\* Telegram takes what is within its limit and not blank; its own suffix
\* makes a truncated text readable.
Accepted(p) ==
    /\ Length(p) <= limit
    /\ p.truncated \/ \E i \in p.first .. p.last : ~Blank(i)

\* edit_text with the first part, answer with each of the others
Send ==
    /\ pc = "send"
    /\ sent < Len(parts)
    /\ IF Accepted(parts[sent + 1])
       THEN sent' = sent + 1 /\ UNCHANGED pc
       ELSE pc' = "refused" /\ UNCHANGED sent
    /\ UNCHANGED <<text, limit, pos, from, parts>>

\* The call fails: TelegramBadRequest or the network, and the handler ends.
SendFails ==
    /\ pc = "send"
    /\ sent < Len(parts)
    /\ pc' = "failed"
    /\ UNCHANGED <<text, limit, pos, from, parts, sent>>

Init ==
    /\ text \in Texts /\ limit \in Limits
    /\ pc = "start"
    /\ pos = 1 /\ from = 1
    /\ parts = <<>> /\ sent = 0

Next ==
    \/ Short \/ Split \/ Fit
    \/ LongLine \/ Flush \/ AddLine \/ Finish
    \/ Send \/ SendFails

Spec == Init /\ [][Next]_vars
-----------------------------------------------------------------------------
(* What the user sees                                                      *)

\* The variables keep to their types.
TypeOK ==
    /\ text \in Texts /\ limit \in Limits
    /\ pc \in {"start", "lines", "send", "refused", "failed"}
    /\ from \in 1 .. pos /\ pos \in 1 .. Len(text) + 1
    /\ parts \in Seq(Part)
    /\ sent \in 0 .. Len(parts)

\* No part is longer than a message may be, and current is never either
\* (split_telegram_text, fit_telegram_text).
PartsFit ==
    /\ \A i \in 1 .. Len(parts) : Length(parts[i]) <= limit
    /\ pos - from <= limit

Truncated == \E i \in 1 .. Len(parts) : parts[i].truncated

Held(i) == \E k \in 1 .. Len(parts) : i \in parts[k].first .. parts[k].last

\* The parts follow each other in the order of the text, and what is not
\* blank is in one of them or in current: nothing is lost, repeated or moved.
\* A text that is cut loses nothing before its cut.
NothingLost ==
    /\ \A i, k \in 1 .. Len(parts) : i < k => parts[i].last < parts[k].first
    /\ pc # "start" =>
         \A i \in 1 .. (IF Truncated THEN limit - Suffix
                        ELSE IF pc = "lines" THEN from - 1 ELSE Len(text)) :
           ~Blank(i) => Held(i)

LineBegins == {a \in 1 .. Len(text) : a = 1 \/ text[a - 1] = Newline}
\* where a line begins, and the end of the text
Borders == LineBegins \cup {Len(text) + 1}
LongLineAt(a) == LineEnd(a) - a + 1 > limit

\* What p has of a line that fits a message is all of it but its blanks.
HoldsWholeLines(p) ==
    \A a \in {b \in LineBegins : ~LongLineAt(b)} :
      \A i, j \in {n \in a .. LineEnd(a) : ~Blank(n)} :
        i \in p.first .. p.last <=> j \in p.first .. p.last

\* A message border falls inside a line only if the line is longer than a
\* message (split_telegram_text).
LinesWhole ==
    ~Truncated => \A k \in 1 .. Len(parts) : HoldsWholeLines(parts[k])

\* A message may begin at the line at a: it is the first, it follows a long line,
\* or the lines before it fill a message up to it.
MayBeginAt(a) ==
    \/ a = 1
    \/ \E c \in LineBegins : LongLineAt(c) /\ a = LineEnd(c) + 1
    \/ \E c \in LineBegins : c < a /\ a - c <= limit /\ LineEnd(a) - c + 1 > limit

\* Blank lines from a to before b where a message may begin and no line joins them
BlankMessage(a, b) ==
    /\ a < b /\ MayBeginAt(a)
    /\ \A i \in a .. (b - 1) : Blank(i)
    /\ b = Len(text) + 1 \/ LineEnd(b) - a + 1 > limit

\* a long line with nothing but blanks from one multiple of the limit to the next
BlankPieceAt(a) ==
    /\ LongLineAt(a)
    /\ \E k \in 0 .. ((LineEnd(a) - a) \div limit) :
         \A i \in (a + k * limit) .. LineEnd(a) :
           i < a + (k + 1) * limit => Blank(i)

BlankAtBorder ==
    \/ \E a \in LineBegins, b \in Borders : BlankMessage(a, b)
    \/ \E a \in LineBegins : BlankPieceAt(a)

\* Telegram refuses a message, and the user does not see the rest, only if blank
\* lines come at a message border and no line fits behind them, or a long line has
\* a stretch of blanks from one multiple of the limit to the next or to its end.
\* The blank lines format_answer_message puts between headings, answer and sources
\* do no harm anywhere else (split_telegram_text, edit_answer_message).
RefusedAtBorder == pc = "refused" => BlankAtBorder
-----------------------------------------------------------------------------
(* Why they hold                                                           *)

\* a message of its own, which Telegram takes unless blanks are where they harm
GoodPart(p) ==
    /\ ~p.truncated
    /\ Length(p) <= limit
    /\ HoldsWholeLines(p)
    /\ BlankAtBorder \/ \E i \in p.first .. p.last : ~Blank(i)

\* The parts s hold the text from a to before b, in its order.
Covers(s, a, b) ==
    /\ s \in Seq(Part)
    /\ \A k \in 1 .. Len(s) : a <= s[k].first /\ s[k].last < b /\ GoodPart(s[k])
    /\ \A i, k \in 1 .. Len(s) : i < k => s[i].last < s[k].first
    /\ \A i \in a .. (b - 1) :
         ~Blank(i) => \E k \in 1 .. Len(s) : i \in s[k].first .. s[k].last

\* The loop stands between two lines; the parts hold what is before current, and
\* current begins where a message may.
LoopInv ==
    /\ pos - from <= limit
    /\ pc = "start" => parts = <<>> /\ from = 1 /\ pos = 1
    /\ pc \in {"start", "lines"} =>
         /\ from \in Borders /\ MayBeginAt(from)
         /\ pos \in Borders /\ Covers(parts, 1, from)

\* the only part of a text that was cut
CutAt(p, n) ==
    /\ p.truncated
    /\ Length(p) <= limit
    /\ \A i \in 1 .. n : ~Blank(i) => i \in p.first .. p.last

\* What is sent is the whole text in parts, or its beginning in one.
SendInv ==
    pc \notin {"start", "lines"} =>
      \/ Covers(parts, 1, Len(text) + 1)
      \/ Len(parts) = 1 /\ CutAt(parts[1], limit - Suffix)

\* The inductive invariant (split_telegram_text, fit_telegram_text)
IInv == TypeOK /\ LoopInv /\ SendInv /\ RefusedAtBorder
=============================================================================
