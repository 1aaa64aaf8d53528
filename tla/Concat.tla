------------------------------- MODULE Concat -------------------------------
(* What a loop that appends each of some sequences to a buffer builds.     *)
EXTENDS Naturals, Sequences

Concat(seqs) ==
  LET upto[i \in 0 .. Len(seqs)] == IF i = 0 THEN <<>> ELSE upto[i - 1] \o seqs[i]
  IN  upto[Len(seqs)]
=============================================================================
