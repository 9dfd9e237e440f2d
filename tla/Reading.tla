------------------------------- MODULE Reading -------------------------------
(* A program that reads a socket or a file a piece at a time.  read() returns *)
(* at least one byte of what is left, at most what was asked for, and stops   *)
(* where it likes: what the program makes of its input must not depend on it. *)
EXTENDS Integers, SequencesExt

VARIABLES job,    \* the tool, its options and its whole input
          left,   \* the input that is not read
          st      \* the state of the tool: a record with a field pc

vars == <<job, left, st>>

Piece(k) == SubSeq(left, 1, k)
Consume(k) == /\ k \in 1..Len(left)
              /\ left' = SubSeq(left, k + 1, Len(left))
              /\ UNCHANGED job
Stay == UNCHANGED <<job, left>>
=============================================================================
