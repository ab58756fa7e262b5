-------------------------------- MODULE Loops --------------------------------
(***************************************************************************)
(* Sums and loops over data, as recursive functions: module InductionFacts *)
(* proves what they compute.                                               *)
(***************************************************************************)
EXTENDS Integers, Sequences

\* s[1] + ... + s[n]
SumTo(s, n) ==
  LET upto[i \in 0..n] == IF i = 0 THEN 0 ELSE upto[i - 1] + s[i] IN upto[n]

SumSeq(s) == SumTo(s, Len(s))

\* The state of a loop after n rounds.  A loop that has ended stays as it is.
Iterate(round(_), n, start) ==
  LET after[i \in 0..n] == IF i = 0 THEN start ELSE round(after[i - 1]) IN after[n]
=============================================================================
