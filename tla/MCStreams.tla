------------------------------ MODULE MCStreams ------------------------------
(* Values for a small instance of Streams. *)
EXTENDS Streams

CONSTANTS d1, d2

\* An empty frame of the one fits into the content of the other.
MCSize == [d \in {d1, d2} |-> IF d = d1 THEN 3 ELSE 0]

\* Everything, or one of them by its id.
MCQueries == {{d1, d2}, {d1}}
=============================================================================
