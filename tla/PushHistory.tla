----------------------------- MODULE PushHistory -----------------------------
(***************************************************************************)
(* What the concurrent list of inf19-2.c promises: every thread pushes its *)
(* K items one after the other, each push is one atomic step that adds     *)
(* exactly one item, and main prints the items from the last pushed to the *)
(* first once all of them are there.                                       *)
(***************************************************************************)
EXTENDS Integers, Sequences

CONSTANTS N, K

VARIABLES
  pushed,    \* the items in the order in which they were pushed
  printed    \* the values printed

Value(item) == item[1] * K + item[2]

\* The items of a thread that have been pushed.
Done(t) == {k \in 0 .. K - 1 : \E n \in DOMAIN pushed : pushed[n] = <<t, k>>}

Init == pushed = <<>> /\ printed = <<>>

Push(t, k) ==
  /\ Done(t) = 0 .. k - 1
  /\ pushed' = Append(pushed, <<t, k>>)
  /\ UNCHANGED printed

PrintValue ==
  /\ \A t \in 0 .. N - 1 : Done(t) = 0 .. K - 1
  /\ Len(printed) < Len(pushed)
  /\ printed' = Append(printed, Value(pushed[Len(pushed) - Len(printed)]))
  /\ UNCHANGED pushed

Next == PrintValue \/ \E t \in 0 .. N - 1, k \in 0 .. K - 1 : Push(t, k)

Safety == Init /\ [][Next]_<<pushed, printed>>
=============================================================================
