----------------------------- MODULE PrimeOutput -----------------------------
(***************************************************************************)
(* What inf19-1.c promises: it prints, one after the other and in          *)
(* increasing order, the first size primes of low .. high (all of them     *)
(* when there are fewer), and then ends.                                   *)
(***************************************************************************)
EXTENDS Integers, Sequences

VARIABLES
  args,      \* low, high and size
  printed,   \* the numbers printed so far
  ended      \* the program has ended

Prime(n) == n > 1 /\ \A d \in 2 .. n - 1 : n % d # 0

\* The primes that are greater than all that has been printed.
Left ==
  {n \in args.low .. args.high : Prime(n) /\ \A k \in DOMAIN printed : printed[k] < n}

Init == printed = <<>> /\ ended = FALSE

PrintNext ==
  /\ ~ended
  /\ Len(printed) < args.size
  /\ \E n \in Left : (\A m \in Left : n <= m) /\ printed' = Append(printed, n)
  /\ UNCHANGED <<args, ended>>

End ==
  /\ ~ended
  /\ Len(printed) = args.size \/ Left = {}
  /\ ended' = TRUE
  /\ UNCHANGED <<args, printed>>

Safety == Init /\ [][PrintNext \/ End]_<<args, printed, ended>>
=============================================================================
