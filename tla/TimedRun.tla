------------------------------- MODULE TimedRun -------------------------------
(***************************************************************************)
(* inf14-2.c: run a program with a time limit.  The parent blocks SIGALRM  *)
(* and SIGCHLD, forks, sets an alarm and sleeps in sigsuspend until the    *)
(* first of them; one handler runs and decides what the parent does next.  *)
(***************************************************************************)
EXTENDS Naturals

VARIABLES
  limited,    \* argv[1] # 0: alarm (0) sets no alarm
  ignores,    \* the program ignores SIGTERM
  parent,     \* where the parent is
  blocked,    \* the signals it has blocked
  waiting,    \* the signals pending for it
  timer,      \* its alarm clock
  alarm_checker,
  child_checker,
  child,      \* what the child is doing; "reaped" after waitpid
  status,     \* how it ended
  term,       \* a SIGTERM from the parent that the child has not acted on
  stops,      \* history: the child has been stopped or continued
  verdict     \* what the parent has printed

parentVars == <<parent, blocked, verdict>>
flags == <<alarm_checker, child_checker>>
childVars == <<child, status, term, stops>>
vars == <<limited, ignores, parentVars, waiting, timer, flags, childVars>>

Signals == {"ALRM", "CHLD"}

Init ==
  /\ limited \in BOOLEAN /\ ignores \in BOOLEAN
  /\ parent = "block" /\ blocked = {} /\ waiting = {} /\ timer = "off"
  /\ alarm_checker = FALSE /\ child_checker = FALSE
  /\ child = "none" /\ status = "none" /\ term = FALSE /\ stops = FALSE
  /\ verdict = "none"

Goes(from, to) == parent = from /\ parent' = to
Parent == UNCHANGED <<limited, ignores, childVars>>

-----------------------------------------------------------------------------
Block ==
  /\ Goes("block", "fork")
  /\ blocked' = Signals
  /\ UNCHANGED <<waiting, timer, flags, verdict>> /\ Parent

Fork ==
  /\ Goes("fork", "alarm")
  /\ child' = "forked"
  /\ UNCHANGED <<limited, ignores, blocked, waiting, timer, flags, status, term,
                 stops, verdict>>

\* The two sigactions, then alarm (live_time_sec).
SetAlarm ==
  /\ Goes("alarm", "suspend")
  /\ timer' = IF limited THEN "running" ELSE "off"
  /\ UNCHANGED <<blocked, waiting, flags, verdict>> /\ Parent

Expire ==
  /\ timer = "running"
  /\ timer' = "expired"
  /\ waiting' = waiting \cup {"ALRM"}
  /\ UNCHANGED <<limited, ignores, parentVars, flags, childVars>>

\* sigsuspend unblocks everything; outside it a blocked signal stays pending.
Deliverable == IF parent = "suspend" THEN waiting ELSE waiting \ blocked

\* The handler, with both signals blocked while it runs: of two pending signals
\* Linux delivers the one with the lower number, SIGALRM, and sigsuspend returns
\* with both blocked again.
Handle ==
  \E s \in Deliverable :
    /\ s = "CHLD" => "ALRM" \notin Deliverable
    /\ waiting' = waiting \ {s}
    /\ IF s = "ALRM"
       THEN alarm_checker' = (alarm_checker \/ ~child_checker) /\ UNCHANGED child_checker
       ELSE child_checker' = TRUE /\ UNCHANGED alarm_checker
    /\ parent' = IF parent = "suspend" THEN "decide" ELSE parent
    /\ UNCHANGED <<blocked, timer, verdict>> /\ Parent

Decide ==
  /\ parent = "decide"
  /\ IF alarm_checker
     THEN parent' = "kill" /\ verdict' = "timeout"
     ELSE parent' = "reap" /\ UNCHANGED verdict
  /\ UNCHANGED <<blocked, waiting, timer, flags>> /\ Parent

\* Mutant: the child is not killed.
KillForgotten ==
  /\ Goes("kill", "reapTimeout")
  /\ UNCHANGED <<blocked, waiting, timer, flags, verdict>> /\ Parent

\* kill (pid, SIGTERM): nothing happens to a child that has ended.
Kill ==
  /\ Goes("kill", "reapTimeout")
  /\ term' = (child # "ended")
  /\ UNCHANGED <<limited, ignores, blocked, waiting, timer, flags, child, status,
                 stops, verdict>>

\* waitpid, after a timeout.
ReapAfterTimeout ==
  /\ Goes("reapTimeout", "returned")
  /\ child = "ended" /\ child' = "reaped"
  /\ UNCHANGED <<limited, ignores, blocked, waiting, timer, flags, status, term,
                 stops, verdict>>

\* Mutant: WIFSIGNALED is tested the wrong way round.
ReapSwapped ==
  /\ Goes("reap", "returned")
  /\ child = "ended" /\ child' = "reaped"
  /\ verdict' = IF status = "signaled" THEN "ok" ELSE "signaled"
  /\ UNCHANGED <<limited, ignores, blocked, waiting, timer, flags, status, term, stops>>

\* waitpid, and what WIFSIGNALED says of its status.
Reap ==
  /\ Goes("reap", "returned")
  /\ child = "ended" /\ child' = "reaped"
  /\ verdict' = IF status = "signaled" THEN "signaled" ELSE "ok"
  /\ UNCHANGED <<limited, ignores, blocked, waiting, timer, flags, status, term, stops>>

Main ==
  Block \/ Fork \/ SetAlarm \/ Handle \/ Decide \/ Kill \/ ReapAfterTimeout \/ Reap

-----------------------------------------------------------------------------
OutsideChild == UNCHANGED <<limited, ignores, parentVars, timer, flags>>

\* The child unblocks every signal and execs.
Exec ==
  /\ child = "forked" /\ child' = "running"
  /\ UNCHANGED <<status, term, waiting, stops>> /\ OutsideChild

Ends(how) ==
  /\ child' = "ended" /\ status' = how /\ term' = FALSE
  /\ waiting' = waiting \cup {"CHLD"}
  /\ UNCHANGED stops /\ OutsideChild

\* The program ends by itself, or the exec fails and the child returns 0; in
\* neither case does the exit status matter.
Exit == child \in {"forked", "running"} /\ Ends("exited")

\* A signal of somebody else kills it, stopped or not.
Crash == child \in {"forked", "running", "stopped"} /\ Ends("signaled")

\* It acts on the SIGTERM of the parent, unless it ignores it or is stopped.
\* Before the exec SIGTERM has its default action.
Terminate ==
  /\ term
  /\ child = "forked" \/ (child = "running" /\ ~ignores)
  /\ Ends("signaled")

\* Job control: SIGCHLD is sent for a stop and for a continue as well.
StopOrContinue ==
  /\ \/ child = "running" /\ child' = "stopped"
     \/ child = "stopped" /\ child' = "running"
  /\ stops' = TRUE
  /\ waiting' = waiting \cup {"CHLD"}
  /\ UNCHANGED <<status, term>> /\ OutsideChild

Child == Exec \/ Exit \/ Crash \/ Terminate \/ StopOrContinue

Finished == parent = "returned" /\ UNCHANGED vars

Next == Main \/ Expire \/ Child \/ Finished

\* The parent is scheduled, the alarm expires, and a child that can act on
\* SIGTERM does; the program run may go on for ever.
Fairness == WF_vars(Main) /\ WF_vars(Expire) /\ WF_vars(Exec) /\ WF_vars(Terminate)

Spec == Init /\ [][Next]_vars /\ Fairness

-----------------------------------------------------------------------------
TypeOK ==
  /\ limited \in BOOLEAN /\ ignores \in BOOLEAN
  /\ parent \in {"block", "fork", "alarm", "suspend", "decide", "kill",
               "reapTimeout", "reap", "returned"}
  /\ blocked \subseteq Signals /\ waiting \subseteq Signals
  /\ timer \in {"off", "running", "expired"}
  /\ alarm_checker \in BOOLEAN /\ child_checker \in BOOLEAN
  /\ child \in {"none", "forked", "running", "stopped", "ended", "reaped"}
  /\ status \in {"none", "exited", "signaled"}
  /\ term \in BOOLEAN /\ stops \in BOOLEAN
  /\ verdict \in {"none", "timeout", "signaled", "ok"}

\* No signal is lost between the fork and sigsuspend: a child that has ended,
\* or an alarm that has expired, before the parent sleeps will wake it.
WakeupPending ==
  parent \in {"fork", "alarm", "suspend"} =>
    /\ child = "ended" => "CHLD" \in waiting
    /\ timer = "expired" => "ALRM" \in waiting

\* "timeout" is only printed after the limit, the other verdicts only without
\* a SIGTERM of the parent, and they say how the child ended.
VerdictIsRight ==
  /\ verdict = "timeout" => timer = "expired"
  /\ verdict \in {"ok", "signaled"} =>
       /\ child = "reaped" /\ ~term
       /\ status = IF verdict = "ok" THEN "exited" ELSE "signaled"
  /\ parent = "returned" => child = "reaped" /\ verdict # "none"

\* The types, no signal lost, and the right verdict.
Inv == TypeOK /\ WakeupPending /\ VerdictIsRight

\* A program that does not ignore SIGTERM is over soon after its limit, unless
\* it is stopped: the first SIGCHLD, also that of a stop, ends the timing.
LimitKept ==
  (limited /\ ~ignores /\ []~stops) => <>(parent = "returned")
=============================================================================
