----------------------------- MODULE MCGrpcCall -----------------------------
(* Instances of GrpcCall: the response has the block A twice, C between,    *)
(* and both are held, so that requests of two threads' making overlap.      *)
EXTENDS GrpcCall

CONSTANTS A, C

MCBlock  == {A, C}
MCScript == <<Start(A), Piece(A), Piece(A), Start(C), Piece(C), Start(A), Piece(A), Last1>>

(* Every way but one: a skipping call to a handler that reads its request   *)
(* to the end first.                                                        *)
Served  == Mode \ {[skips |-> TRUE, handler |-> "drains"]}
Drained == {[skips |-> TRUE, handler |-> "drains"], [skips |-> FALSE, handler |-> "drains"]}
=============================================================================
