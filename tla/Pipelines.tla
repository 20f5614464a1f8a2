------------------------------- MODULE Pipelines -------------------------------
(***************************************************************************)
(* Six launchers that connect programs with pipes: inf15-1.c, inf15-3.c,   *)
(* inf15-4.c and main.c run a command line p1 | p2 | ..., inf15-0.c and    *)
(* inf15-2.c read the output of one program themselves.  A pipe holds a    *)
(* bounded amount, its reader sees the end only when nobody holds its      *)
(* write end any more, and a forked child inherits every descriptor.       *)
(* When exec fails, the child goes on with the launcher's own code.        *)
(***************************************************************************)
EXTENDS Integers, Sequences, FiniteSetsExt

CONSTANTS
  Lines,      \* command lines: sequences of programs [known, reads, writes]
  Capacity    \* bound: the units a pipe holds

ASSUME LinesAssumption ==
  Lines \subseteq Seq([known : BOOLEAN, reads : BOOLEAN, writes : Nat])
ASSUME CapacityAssumption == Capacity \in Nat \ {0}

VARIABLES
  launcher,   \* which of the six is run
  line,       \* the programs it is given
  procs,      \* the processes, in the order in which they were forked
  pipes       \* what each pipe holds, by the process and the place that made it

vars == <<launcher, line, procs, pipes>>

-----------------------------------------------------------------------------
(***************************************************************************)
(* A launcher is straight-line code once its number of arguments is known. *)
(* Descriptors are kept in slots; slot 2a+b is fd[a][b] or pipes_[a][b].   *)
(***************************************************************************)
Pipe(slot) == [op |-> "pipe", slot |-> slot]        \* into slot and slot + 1
Dup2(slot, to) == [op |-> "dup2", slot |-> slot, to |-> to]
Close(slot) == [op |-> "close", slot |-> slot]
Assign(slot, from) == [op |-> "assign", slot |-> slot, from |-> from]
Fork(k, body) == [op |-> "fork", stage |-> k, body |-> body]
Exec(k) == [op |-> "exec", stage |-> k]
Wait(k) == [op |-> "wait", stage |-> k]
Read(slot) == [op |-> "read", slot |-> slot]
ReadAll == [op |-> "readAll"]
Exit == [op |-> "exit"]

\* The instructions of a loop, each round of which has as many.
Loop(from, to, code(_)) ==
  LET size == Len(code(from))
  IN  [j \in 1 .. (to - from + 1) * size |->
         code(from + (j - 1) \div size)[((j - 1) % size) + 1]]

inf15_0 ==
  << Pipe(0),
     Fork(1, <<Close(0), Dup2(1, 1), Exec(1)>>),
     Fork(2, <<Close(1), Read(0), Close(0)>>),
     Close(1), Close(0), Wait(1), Wait(2) >>

\* Mutant: the parent keeps the write end.
inf15_1_open ==
  << Pipe(0),
     Fork(1, <<Dup2(1, 1), Close(1), Close(0), Exec(1)>>),
     Fork(2, <<Dup2(0, 0), Close(0), Exec(2)>>),
     Close(0), Wait(1), Wait(2) >>

inf15_1 ==
  << Pipe(0),
     Fork(1, <<Dup2(1, 1), Close(1), Close(0), Exec(1)>>),
     Close(1),
     Fork(2, <<Dup2(0, 0), Close(0), Exec(2)>>),
     Close(0), Wait(1), Wait(2) >>

inf15_2 ==
  << Pipe(0),
     Fork(1, <<Dup2(1, 2), Close(1), Close(0), Exec(1)>>),
     Wait(1),
     Close(1), Dup2(0, 0), Close(0), ReadAll >>

\* Mutant: the last program reads from the pipe after the right one.
inf15_3_next_pipe(n) ==
  Loop(0, n, LAMBDA i : <<Pipe(2 * i)>>)
  \o <<Fork(1, <<Dup2(3, 1), Exec(1), Exit>>)>>
  \o Loop(2, n - 1, LAMBDA i :
       <<Fork(i, <<Dup2(2 * i + 1, 1), Dup2(2 * (i - 1), 0), Exec(i)>>)>>)
  \o <<Fork(n, <<Dup2(2 * n, 0), Exec(n), Exit>>)>>
  \o Loop(0, 2 * n + 2, LAMBDA i : <<Close(i)>>)
  \o Loop(1, n, LAMBDA i : <<Wait(i)>>)

\* Close-on-exec pipes, one more than there are programs.  The last close is of
\* an int behind those that were set, zero in a fresh heap.
inf15_3(n) ==
  Loop(0, n, LAMBDA i : <<Pipe(2 * i)>>)
  \o <<Fork(1, <<Dup2(3, 1), Exec(1), Exit>>)>>
  \o Loop(2, n - 1, LAMBDA i :
       <<Fork(i, <<Dup2(2 * i + 1, 1), Dup2(2 * (i - 1), 0), Exec(i)>>)>>)
  \o <<Fork(n, <<Dup2(2 * n - 2, 0), Exec(n), Exit>>)>>
  \o Loop(0, 2 * n + 2, LAMBDA i : <<Close(i)>>)
  \o Loop(1, n, LAMBDA i : <<Wait(i)>>)

inf15_4(n) ==
  << Pipe(0),
     Fork(1, <<Dup2(1, 1), Close(0), Exec(1)>>), Wait(1), Close(1) >>
  \o Loop(2, n - 1, LAMBDA i :
       << Pipe(2),
          Fork(i, <<Dup2(0, 0), Dup2(3, 1), Close(3), Exec(i)>>), Wait(i),
          Close(0), Close(3), Assign(0, 2) >>)
  \o << Fork(n, <<Dup2(0, 0), Close(0), Exec(n)>>), Wait(n), Close(0) >>

\* main.c: the parent's exec_error is never set; of two pairs of slots, "in" and
\* "out" take turns.
Out(i) == 2 * ((i - 1) % 2)
In(i) == 2 - Out(i)

\* Mutant: the first program is not waited for.
main_c_eager(n) ==
  << Pipe(0),
     Fork(1, <<Dup2(1, 1), Close(0), Exec(1), Exit>>) >>
  \o Loop(2, n - 1, LAMBDA i :
       << Close(In(i) + 1), Close(Out(i)), Pipe(Out(i)),
          Fork(i, <<Dup2(Out(i) + 1, 1), Close(Out(i)), Dup2(In(i), 0), Exec(i), Exit>>),
          Wait(i) >>)
  \o << Close(In(n - 1)), Close(Out(n - 1) + 1),
        Fork(n, <<Dup2(Out(n - 1), 0), Exec(n), Exit>>),
        Close(Out(n - 1)), Wait(n) >>

main_c(n) ==
  << Pipe(0),
     Fork(1, <<Dup2(1, 1), Close(0), Exec(1), Exit>>), Wait(1) >>
  \o Loop(2, n - 1, LAMBDA i :
       << Close(In(i) + 1), Close(Out(i)), Pipe(Out(i)),
          Fork(i, <<Dup2(Out(i) + 1, 1), Close(Out(i)), Dup2(In(i), 0), Exec(i), Exit>>),
          Wait(i) >>)
  \o << Close(In(n - 1)), Close(Out(n - 1) + 1),
        Fork(n, <<Dup2(Out(n - 1), 0), Exec(n), Exit>>),
        Close(Out(n - 1)), Wait(n) >>

Single == <<Fork(1, <<Exec(1)>>), Wait(1)>>

Code(l, n) ==
  CASE l = "inf15_0" -> inf15_0
    [] l = "inf15_1" -> inf15_1
    [] l = "inf15_2" -> inf15_2
    [] l = "inf15_3" -> IF n = 1 THEN Single ELSE inf15_3(n)
    [] l = "inf15_4" -> IF n = 1 THEN Single ELSE inf15_4(n)
    [] l = "main_c"  -> IF n = 1 THEN <<Exec(1), Exit>> ELSE main_c(n)

Launchers == {"inf15_0", "inf15_1", "inf15_2", "inf15_3", "inf15_4", "main_c"}
Texts == [l \in Launchers |-> [n \in {Len(given) : given \in Lines} |-> Code(l, n)]]

\* The command lines a launcher can be given.
Accepts(l, n) ==
  CASE l \in {"inf15_0", "inf15_2"} -> n = 1
    [] l = "inf15_1" -> n = 2
    [] OTHER -> n > 0

-----------------------------------------------------------------------------
Stages == Len(line)
Fds == 0 .. 2 + 2 * (Stages + 1)    \* no process has more descriptors open
Slots == 0 .. 2 * Stages + 2
Text == Texts[launcher][Stages]

Terminal == [pipe |-> <<0, 0>>, end |-> "terminal"]
Nothing == [pipe |-> <<0, 0>>, end |-> "closed"]
ReadEnd(k) == [pipe |-> k, end |-> "read"]
WriteEnd(k) == [pipe |-> k, end |-> "write"]

Init ==
  /\ launcher \in Launchers
  /\ line \in Lines /\ Accepts(launcher, Len(line))
  /\ procs = << [parent |-> 0, stage |-> 0, state |-> "launcher",
                 at |-> 1, inside |-> 0,
                 slots |-> [s \in Slots |-> IF launcher = "inf15_3" THEN 0 ELSE -1],
                 fds |-> [d \in Fds |-> IF d < 3 THEN Terminal ELSE Nothing],
                 took |-> 0, wrote |-> 0, eof |-> FALSE] >>
  /\ pipes = <<>>

Live(p) == procs[p].state \in {"launcher", "program"}
Holds(p, handle) == Live(p) /\ \E d \in Fds : procs[p].fds[d] = handle
HasReaders(k) == \E p \in DOMAIN procs : Holds(p, ReadEnd(k))
HasWriters(k) == \E p \in DOMAIN procs : Holds(p, WriteEnd(k))

\* What a slot refers to: nothing if it was never set or has been closed.
Handle(p, slot) ==
  LET d == procs[p].slots[slot]
  IN  IF d \in Fds THEN procs[p].fds[d] ELSE Nothing

-----------------------------------------------------------------------------
(***************************************************************************)
(* The launcher, and children of it that have not executed their program.  *)
(***************************************************************************)
\* A child is inside the body of the fork that made it before it goes on behind it.
Instr(p) ==
  LET instr == Text[procs[p].at]
  IN  IF procs[p].inside = 0 THEN instr ELSE instr.body[procs[p].inside]
Runs(p, op) ==
  procs[p].state = "launcher" /\ procs[p].at <= Len(Text) /\ Instr(p).op = op
Stepped(p) ==
  IF procs[p].inside # 0 /\ procs[p].inside < Len(Text[procs[p].at].body)
  THEN [procs[p] EXCEPT !.inside = @ + 1]
  ELSE [procs[p] EXCEPT !.at = @ + 1, !.inside = 0]
Becomes(p, proc) == procs' = [procs EXCEPT ![p] = proc]
Same == UNCHANGED <<launcher, line>>

\* pipe (): the two lowest free descriptors.
MakePipe(p) ==
  /\ Runs(p, "pipe")
  /\ LET free == {d \in Fds : procs[p].fds[d] = Nothing}
         r == Min(free)
         w == Min(free \ {r})
         k == <<p, procs[p].at>>
     IN  /\ pipes' = [x \in DOMAIN pipes \cup {k} |-> IF x = k THEN 0 ELSE pipes[x]]
         /\ Becomes(p, [Stepped(p) EXCEPT
                !.fds[r] = ReadEnd(k), !.fds[w] = WriteEnd(k),
                !.slots[Instr(p).slot] = r, !.slots[Instr(p).slot + 1] = w])
  /\ Same

\* dup2 () of a closed descriptor fails and changes nothing.
Redirect(p) ==
  /\ Runs(p, "dup2")
  /\ LET h == Handle(p, Instr(p).slot)
     IN  Becomes(p, [Stepped(p) EXCEPT
           !.fds[Instr(p).to] = IF h = Nothing THEN @ ELSE h])
  /\ UNCHANGED pipes /\ Same

CloseSlot(p) ==
  /\ Runs(p, "close")
  /\ LET d == procs[p].slots[Instr(p).slot]
     IN  Becomes(p, [Stepped(p) EXCEPT
           !.fds = [e \in Fds |-> IF e = d THEN Nothing ELSE @[e]]])
  /\ UNCHANGED pipes /\ Same

AssignSlot(p) ==
  /\ Runs(p, "assign")
  /\ Becomes(p, [Stepped(p) EXCEPT !.slots[Instr(p).slot] = procs[p].slots[Instr(p).from]])
  /\ UNCHANGED pipes /\ Same

ForkChild(p) ==
  /\ Runs(p, "fork")
  /\ procs' = Append([procs EXCEPT ![p] = Stepped(p)],
                     [procs[p] EXCEPT !.parent = p, !.stage = Instr(p).stage,
                                      !.inside = 1])
  /\ UNCHANGED pipes /\ Same

\* An unknown program leaves the child where it is, in the launcher's code.
Execute(p) ==
  /\ Runs(p, "exec")
  /\ Becomes(p,
       IF line[Instr(p).stage].known
       THEN [procs[p] EXCEPT
               !.state = "program", !.stage = Instr(p).stage,
               !.fds = IF launcher = "inf15_3"
                       THEN [d \in Fds |-> IF d < 3 THEN @[d] ELSE Nothing] ELSE @]
       ELSE Stepped(p))
  /\ UNCHANGED pipes /\ Same

Children(p, k) == {c \in DOMAIN procs : procs[c].parent = p /\ procs[c].stage = k}

\* waitpid (): at once if there is no such child, or if it is somebody else's.
WaitFor(p) ==
  /\ Runs(p, "wait")
  /\ \A c \in Children(p, Instr(p).stage) : ~Live(c)
  /\ Becomes(p, Stepped(p))
  /\ UNCHANGED pipes /\ Same

\* _exit (), or the end of main: the descriptors are closed.
ExitLauncher(p) ==
  /\ procs[p].state = "launcher"
  /\ procs[p].at <= Len(Text) => Instr(p).op = "exit"
  /\ Becomes(p, [procs[p] EXCEPT !.state = "ended"])
  /\ UNCHANGED pipes /\ Same

-----------------------------------------------------------------------------
(***************************************************************************)
(* Reading and writing, by a program or by the launchers that read.        *)
(***************************************************************************)
\* One unit is read from a pipe that has one.
Reads(p, handle, proc) ==
  /\ handle.end = "read" /\ pipes[handle.pipe] > 0
  /\ pipes' = [pipes EXCEPT ![handle.pipe] = @ - 1]
  /\ Becomes(p, [proc EXCEPT !.took = @ + 1])
  /\ Same

\* The end of an input: an empty pipe that nobody can write to any more.
\* Reading the terminal gives nothing, and reading a closed descriptor fails.
AtEnd(handle) ==
  handle.end = "read" => pipes[handle.pipe] = 0 /\ ~HasWriters(handle.pipe)

\* inf15-0.c: a single read.
ReadOnce(p) ==
  /\ Runs(p, "read")
  /\ \/ Reads(p, Handle(p, Instr(p).slot), Stepped(p))
     \/ /\ AtEnd(Handle(p, Instr(p).slot))
        /\ Becomes(p, Stepped(p)) /\ UNCHANGED pipes /\ Same

\* inf15-2.c: fgets in a loop.
ReadLoop(p) ==
  /\ Runs(p, "readAll")
  /\ \/ Reads(p, procs[p].fds[0], procs[p])
     \/ /\ AtEnd(procs[p].fds[0])
        /\ Becomes(p, [Stepped(p) EXCEPT !.eof = TRUE]) /\ UNCHANGED pipes /\ Same

Launch(p) ==
  \/ MakePipe(p) \/ Redirect(p) \/ CloseSlot(p) \/ AssignSlot(p) \/ ForkChild(p)
  \/ Execute(p) \/ WaitFor(p) \/ ExitLauncher(p) \/ ReadOnce(p) \/ ReadLoop(p)

Program(p) == line[procs[p].stage]
Output(p) == procs[p].fds[IF launcher = "inf15_2" THEN 2 ELSE 1]

ReadInput(p) ==
  /\ procs[p].state = "program" /\ Program(p).reads /\ ~procs[p].eof
  /\ \/ Reads(p, procs[p].fds[0], procs[p])
     \/ /\ AtEnd(procs[p].fds[0])
        /\ Becomes(p, [procs[p] EXCEPT !.eof = TRUE]) /\ UNCHANGED pipes /\ Same

\* A write blocks on a full pipe, and kills the writer if nobody can read it.
WriteOutput(p) ==
  /\ procs[p].state = "program" /\ procs[p].wrote < Program(p).writes
  /\ LET h == Output(p)
     IN  \/ /\ h.end = "write" /\ HasReaders(h.pipe) /\ pipes[h.pipe] < Capacity
            /\ pipes' = [pipes EXCEPT ![h.pipe] = @ + 1]
            /\ Becomes(p, [procs[p] EXCEPT !.wrote = @ + 1])
         \/ /\ h.end = "write" /\ ~HasReaders(h.pipe)
            /\ Becomes(p, [procs[p] EXCEPT !.state = "ended"])
            /\ UNCHANGED pipes
         \/ /\ h.end # "write"
            /\ Becomes(p, [procs[p] EXCEPT !.wrote = @ + 1])
            /\ UNCHANGED pipes
  /\ Same

EndProgram(p) ==
  /\ procs[p].state = "program"
  /\ Program(p).reads => procs[p].eof
  /\ procs[p].wrote = Program(p).writes
  /\ Becomes(p, [procs[p] EXCEPT !.state = "ended"])
  /\ UNCHANGED pipes /\ Same

Process(p) == Launch(p) \/ ReadInput(p) \/ WriteOutput(p) \/ EndProgram(p)

Returned == procs[1].state = "ended"
Finished == Returned /\ UNCHANGED vars

Next == Finished \/ \E p \in DOMAIN procs : Process(p)

\* As long as some process can go on, one does; each takes finitely many steps.
Spec == Init /\ [][Next]_vars /\ WF_vars(\E p \in DOMAIN procs : Process(p))

-----------------------------------------------------------------------------
TypeOK ==
  /\ line \in Lines
  /\ \A k \in DOMAIN pipes : pipes[k] \in 0 .. Capacity
  /\ \A p \in DOMAIN procs :
       /\ procs[p].state \in {"launcher", "program", "ended"}
       /\ procs[p].parent \in 0 .. p - 1 /\ procs[p].stage \in 0 .. Stages + 1
       /\ procs[p].slots \in [Slots -> Fds \cup {-1}]
       /\ \A d \in Fds : procs[p].fds[d].pipe \in DOMAIN pipes \cup {<<0, 0>>}

\* All programs of the line can be executed.
AllKnown == \A k \in 1 .. Stages : line[k].known

\* Whoever reads to the end gets everything the program before it has written,
\* and only sees the end after that program has ended: no launcher connects the
\* wrong pipe, or lets an end be seen before the writer has been forked.
StageGetsAll ==
  \A p, q \in DOMAIN procs :
    (/\ AllKnown /\ procs[p].eof /\ procs[p].stage # 1
     /\ procs[q].stage = IF p = 1 THEN 1 ELSE procs[p].stage - 1)
      => ~Live(q) /\ procs[p].took = procs[q].wrote

\* When a launcher returns to the shell, nothing it has started is still
\* running, the children that went on as launchers after a failed exec included.
NothingLeftBehind == Returned => \A p \in DOMAIN procs : ~Live(p)

\* The types, the whole input for every program, and nothing left behind.
Inv == TypeOK /\ StageGetsAll /\ NothingLeftBehind

\* inf15-2.c, inf15-4.c and main.c wait for a program before anybody reads its
\* output (inf15-2.c:33, inf15-4.c:61, main.c:88).
Overflow ==
  \E k \in 1 .. Stages :
    /\ \/ launcher = "inf15_2"
       \/ launcher \in {"inf15_4", "main_c"} /\ k < Stages
    /\ line[k].known /\ line[k].writes > Capacity

\* So they never get to the end when a program writes more than a pipe holds.
OverflowIsFatal == Returned => ~Overflow

\* After a failed exec the child of inf15-4.c (and that of a middle program in
\* inf15-3.c) starts the rest of the line a second time, with the pipe for its
\* standard output: these programs may wait for an end only they could cause.
Misnamed ==
  \E k \in 1 .. Stages - 1 :
    /\ ~line[k].known
    /\ launcher = "inf15_4" \/ (launcher = "inf15_3" /\ k > 1)

\* In every other case the launcher returns: no descriptor that is still open
\* somewhere keeps a reader from its end, or a writer waiting for a reader.
EndsWithoutCause == ~Overflow /\ ~Misnamed => <>Returned
=============================================================================
