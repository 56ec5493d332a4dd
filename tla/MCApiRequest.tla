--------------------------- MODULE MCApiRequest ---------------------------
(* Two requests of two users, one connection, one hit per window and scope.*)
EXTENDS ApiRequest

MCLimits == [document_upload |-> 1, document_search |-> 1,
             document_ask |-> 1, qa_history_read |-> 1]
MCFailClosed == {"qa_history_read"}
=============================================================================
