---------------------------- MODULE MCPrimeStream ----------------------------
EXTENDS PrimeStream

\* Ranges that hold more, as many, and fewer primes than asked for, an empty
\* range, ranges that start with 0 or a prime, and a run that asks for none.
MCArguments ==
  {[low |-> l, high |-> h, size |-> s] : l \in {0, 1, 2, 7}, h \in {6, 11}, s \in 0 .. 5}
=============================================================================
