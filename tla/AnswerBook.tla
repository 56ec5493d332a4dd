----------------------------- MODULE AnswerBook -----------------------------
(***************************************************************************)
(* What the question service promises its users, without requests, row     *)
(* locks or a second transaction: a book of answers that is written one    *)
(* entry at a time and never corrected.  An entry is made for the owner of *)
(* a document that is on the shelf at that moment, or for nobody's         *)
(* document in particular; it goes when its document goes, in one step,    *)
(* and for no other reason.  AnswerService implements it.                  *)
(***************************************************************************)
EXTENDS DocumentLibrary

CONSTANT NoDocument  \* what a question to all documents is about

VARIABLE book        \* the entries users can list

\* uploads by anybody, done or undone, are not noticed in the book
Shelve == Upload /\ UNCHANGED book

\* a document and the answers about it
Withdraw(d) ==
    /\ Discard(d)
    /\ book' = {e \in book : e.document_id # d}

\* one more answer, under a number of its own
Record ==
    /\ \E e \in book' \ book :
         /\ book' = book \cup {e}
         /\ \A f \in book : f.id # e.id
         /\ \/ e.document_id = NoDocument
            \/ \E v \in shelf : v.id = e.document_id /\ v.owner_id = e.user_id
    /\ UNCHANGED <<shelf, spent>>

BookInit == LibraryInit /\ book = {}

BookNext ==
    \/ Shelve
    \/ \E d \in DocumentIds : Withdraw(d)
    \/ Record

BookSpec == BookInit /\ [][BookNext]_<<shelf, spent, book>>
=============================================================================
