---------------------------- MODULE MCTransport ----------------------------
(* Transport between two sides.                                             *)
EXTENDS Transport

MCOther == [s \in Side |-> CHOOSE t \in Side : t # s]
=============================================================================
