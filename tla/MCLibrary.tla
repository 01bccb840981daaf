----------------------------- MODULE MCLibrary -----------------------------
(* TLC instance of Library: three documents, two of one millisecond.  Either *)
(* somebody looks at the page, or the instances sweep.                      *)
EXTENDS Library

MCCreatedAt == <<1, 1, 2>>
MCSourceOf == <<"api", "ui", "api">>

=============================================================================
