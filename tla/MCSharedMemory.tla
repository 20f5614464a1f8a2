---------------------------- MODULE MCSharedMemory ----------------------------
(***************************************************************************)
(* The programs that share memory without a lock, for TLC: a behaviour is  *)
(* the list of LockFreeList or the sessions of SharedCall, while the other *)
(* has not begun.                                                          *)
(***************************************************************************)
EXTENDS LockFreeList, SharedCall

\* Sessions of no call, of one, of two different ones and of two the same, and
\* one with a name the library does not have.
Sine == [name |-> "sin", value |-> 1]
Cosine == [name |-> "cos", value |-> 2]
Typo == [name |-> "zin", value |-> 2]
MCWork == {<<>>, <<Sine>>, <<Sine, Cosine>>, <<Cosine, Cosine>>, <<Cosine, Typo>>}

MCLibrary == {"sin", "cos"}

VARIABLE chosen

allVars == <<chosen, vars, callVars>>

\* The input of a session that does not begin is chosen too: nothing.
AllInit ==
  /\ Init /\ CallInit
  /\ chosen \in {"list", "calls"}
  /\ chosen = "list" => todo = <<>>

List(A) == chosen = "list" /\ A /\ UNCHANGED <<chosen, callVars>>
Calls(A) == chosen = "calls" /\ A /\ UNCHANGED <<chosen, vars>>

AllNext == List(Next) \/ Calls(CallNext)

\* The fairness of the two specifications.
AllSpec ==
  /\ AllInit /\ [][AllNext]_allVars
  /\ WF_allVars(List(Main))
  /\ \A t \in Threads : WF_allVars(List(Thread(t))) /\ SF_allVars(List(Swap(t)))
  /\ WF_allVars(Calls(Server)) /\ WF_allVars(Calls(Client))

\* inf19-2.c: main prints everything and returns, in spite of failing swaps;
\* inf21-1.c: every session ends, or gets stuck for one of its causes.
ProgramsEnd == (chosen = "list" => Ends) /\ (chosen = "calls" => SessionsEndOrStuck)
=============================================================================
