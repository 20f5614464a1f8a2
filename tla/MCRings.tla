------------------------------- MODULE MCRings -------------------------------
(***************************************************************************)
(* The two versions of the ring, for TLC: a behaviour is one of RingLocks  *)
(* with the Count of the configuration or with two threads, or of          *)
(* RingHints with four threads or without iterations; the variables of the *)
(* others stand still.                                                     *)
(***************************************************************************)
EXTENDS RingLocks

VARIABLES
  chosen,
  spawned2, joined2, printed2, pc2, round2, loaded2, reg2, owner2, buffer2,
  created, waited, shown, at, turn, path, reading, lock, mut, buf

twoVars == <<spawned2, joined2, printed2, pc2, round2, loaded2, reg2, owner2, buffer2>>
hintVars == <<created, waited, shown, at, turn, path, reading, lock, mut, buf>>
allVars == <<chosen, vars, twoVars, hintVars>>

Two == INSTANCE RingLocks WITH
         Count <- 2, Iterations <- 3, spawned <- spawned2, joined <- joined2,
         printed <- printed2, pc <- pc2, round <- round2, loaded <- loaded2, reg <- reg2,
         owner <- owner2, buffer <- buffer2
H(threadCount, rounds) ==
  INSTANCE RingHints WITH Count <- threadCount, Iterations <- rounds, k <- turn, reg <- reading

AllInit ==
  /\ Init /\ Two!Init
  /\ \/ chosen \in {"ring", "two", "no iterations"} /\ H(3, 0)!Init
     \/ chosen = "hints" /\ H(4, 2)!Init

AllNext ==
  \/ chosen = "ring" /\ Next /\ UNCHANGED <<chosen, twoVars, hintVars>>
  \/ chosen = "two" /\ Two!Next /\ UNCHANGED <<chosen, vars, hintVars>>
  \/ chosen = "hints" /\ H(4, 2)!Next /\ UNCHANGED <<chosen, vars, twoVars>>
  \/ chosen = "no iterations" /\ H(3, 0)!Next /\ UNCHANGED <<chosen, vars, twoVars>>

\* Main and every thread of inf19-3.c that can run does.
Fairness ==
  /\ WF_allVars(chosen = "ring" /\ MainStep /\ UNCHANGED <<chosen, twoVars, hintVars>>)
  /\ WF_allVars(chosen = "two" /\ Two!MainStep /\ UNCHANGED <<chosen, vars, hintVars>>)
  /\ \A t \in 0 .. 3 :
       WF_allVars(chosen = "ring" /\ ThreadStep(t) /\ UNCHANGED <<chosen, twoVars, hintVars>>)
  /\ \A t \in 0 .. 1 :
       WF_allVars(chosen = "two" /\ Two!ThreadStep(t) /\ UNCHANGED <<chosen, vars, hintVars>>)

AllSpec == AllInit /\ [][AllNext]_allVars /\ Fairness

\* inf19-3.c: everything is printed, or the ring is stuck at the seam; with two
\* threads, too, nothing is lost before, and it is stuck nowhere else.
EitherPrintedOrStuck ==
  /\ <>(/\ chosen = "ring" => PrintedOrStuck
        /\ chosen = "two" => Two!PrintedOrStuck)
  /\ [](Two!NoConcurrentUpdate /\ Two!PrintedTotals /\ Two!StuckOnlyAtSeam)

\* inf19-0.c: nothing that a thread adds is lost, and with iterations to do it never
\* prints.
NoAdditionLost ==
  /\ chosen = "hints" => H(4, 2)!Inv
  /\ chosen = "no iterations" => H(3, 0)!Inv
=============================================================================
