------------------------------- MODULE MCSignals -------------------------------
(***************************************************************************)
(* The programs driven by signals, for TLC: a behaviour is one of          *)
(* TimedRun, of SignalCounters or of RealtimeSignals, while the variables  *)
(* of the other two stand still in a final state.                          *)
(***************************************************************************)
EXTENDS Integers, Sequences

CONSTANTS
  StartNumbers, MaxSends,                  \* of SignalCounters
  FileCount, Typed, MaxAsked, MaxStrays    \* of RealtimeSignals

\* inf13-0.c and inf13-1.c are followed through numbers of one and two digits.
ASSUME NumbersAssumption ==
  /\ StartNumbers \subseteq -9 .. 9 /\ MaxSends \in 0 .. 90
  /\ FileCount \in Nat /\ Typed \subseteq Int /\ MaxAsked \in Nat /\ MaxStrays \in Nat

VARIABLES
  chosen,
  limited, ignores, parent, blocked, waiting, timer, alarm_checker, child_checker,
  child, status, term, stops, verdict,
  program, main, counter, chk_exit, buffer, arriving, stack, lines, sends, expected,
  torn,
  service, file, server, tester, inbox, current, asked, told, strays

timed == <<limited, ignores, parent, blocked, waiting, timer, alarm_checker,
           child_checker, child, status, term, stops, verdict>>
counters == <<program, main, counter, chk_exit, buffer, arriving, stack, lines, sends,
              expected, torn>>
mail == <<service, file, server, tester, inbox, current, asked, told, strays>>

T == INSTANCE TimedRun

C == INSTANCE SignalCounters WITH pending <- arriving, output <- lines

R == INSTANCE RealtimeSignals WITH Numbers <- Typed

TimedOver ==
  /\ limited = FALSE /\ ignores = FALSE /\ parent = "returned" /\ blocked = T!Signals
  /\ waiting = {} /\ timer = "off" /\ alarm_checker = FALSE /\ child_checker = TRUE
  /\ child = "reaped" /\ status = "exited" /\ term = FALSE /\ stops = FALSE
  /\ verdict = "ok"

CountingOver ==
  /\ program = "inf13_0" /\ main = "exited" /\ counter = 0 /\ chk_exit = TRUE
  /\ buffer = 0 /\ arriving = {} /\ stack = <<>> /\ lines = <<>> /\ sends = 0
  /\ expected = 0 /\ torn = FALSE

MailingOver ==
  /\ service = "inf14_0" /\ file = [k \in R!Files |-> "line"] /\ server = "ended"
  /\ tester = "absent" /\ inbox = [p \in R!Processes |-> <<>>]
  /\ current = R!Signal(0, 0) /\ asked = <<0>> /\ told = <<>> /\ strays = 0

allVars == <<chosen, timed, counters, mail>>

AllInit ==
  \/ chosen = "TimedRun" /\ T!Init /\ CountingOver /\ MailingOver
  \/ chosen = "SignalCounters" /\ TimedOver /\ C!Init /\ MailingOver
  \/ chosen = "RealtimeSignals" /\ TimedOver /\ CountingOver /\ R!Init

AllNext ==
  \/ chosen = "TimedRun" /\ T!Next /\ UNCHANGED <<chosen, counters, mail>>
  \/ chosen = "SignalCounters" /\ C!Next /\ UNCHANGED <<chosen, timed, mail>>
  \/ chosen = "RealtimeSignals" /\ R!Next /\ UNCHANGED <<chosen, timed, counters>>

AllSpec == AllInit /\ [][AllNext]_allVars /\ T!Fairness /\ C!Fairness /\ R!Fairness

\* inf14-2.c: no signal is lost, and the verdict is what happened.
VerdictIsRight == T!Inv

\* inf14-2.c: the limit is kept.
LimitKept == T!LimitKept

\* inf13-0.c, inf13-1.c: only halfway interruptions can spoil the count.
CountIsExact == C!Inv

\* inf13-0.c, inf13-1.c: a signal to stop is not slept through.
StopIsHeard == C!StopIsHeard

\* inf14-0.c, inf14-1.c: nothing asked is lost, answered twice or out of order.
AnswersAreDue == R!Inv

\* inf14-0.c, inf14-1.c: what waits is answered, unless the program ends.
EveryoneIsAnswered == R!EveryoneIsAnswered
=============================================================================
