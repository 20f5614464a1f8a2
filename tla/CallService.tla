----------------------------- MODULE CallService -----------------------------
(***************************************************************************)
(* What the server of inf21-1.c promises its client: requests are answered *)
(* one at a time, each with the value of the requested function for the    *)
(* argument that came with it.                                             *)
(***************************************************************************)
EXTENDS Sequences

CONSTANTS None, Apply(_)

VARIABLES
  open,       \* the request waiting for its answer
  answers     \* the answers given

Init == open = None /\ answers = <<>>

Ask == open = None /\ open' # None /\ UNCHANGED answers

Answer ==
  /\ open # None /\ open' = None
  /\ answers' = Append(answers, Apply(open))

Safety == Init /\ [][Ask \/ Answer]_<<open, answers>>
=============================================================================
