----------------------------- MODULE MCExercises -----------------------------
(***************************************************************************)
(* The exercises for TLC: an initial state is an exercise and its input,   *)
(* or one of the curl clients of PageBuffers, which then receives a page,  *)
(* or one of the programs of Ping, which then runs.                        *)
(***************************************************************************)
EXTENDS Ping, PageBuffers, Integers, Sequences, SequencesExt

VARIABLES exercise, given

allVars == <<exercise, given, pageVars, vars>>

Number == INSTANCE NumberExercises WITH Width <- 4, ExponentBits <- 2, MantissaBits <- 3
File == INSTANCE FileExercises WITH BufferSize <- 3
Client == INSTANCE ClientExercises WITH MAX_SIZE <- 4, ByteBits <- 2, BLOCK <- 3

\* Bytes of a text: ASCII, a continuation, the first of 2, 3 and 4 bytes, and none.
Bytes == {65, 128, 194, 224, 240, 248}

Matrices(n) == [1 .. n -> [1 .. n -> {-1, 2}]]

Letters == {"a", "b"}

\* Links of a list of n items.
Links(n) == [1 .. n -> {(k - 1) * 8 : k \in 1 .. n}]

Inputs ==
  \/ exercise = "satsum" /\ given \in (0 .. 15) \X (0 .. 15)
  \/ exercise = "classify" /\ given \in 0 .. 63
  \/ exercise = "sets" /\ given \in SeqOf({48, 65, 122, 38, 124, 94, 126}, 4)
  \/ exercise = "utf8" /\ given \in SeqOf(Bytes, 5)
  \/ exercise = "find_size" /\ given \in 0 .. 350
  \/ exercise = "factor_out" /\ given \in 1 .. 60
  \/ /\ exercise = "matrix"
     /\ \E n \in 0 .. 3, l, r \in 0 .. 2 :
          \E left \in Matrices(l), right \in Matrices(r) : given = <<n, left, right>>
  \/ exercise = "split" /\ given \in SeqOf({"0", "1", "x", "y"}, 5)
  \/ /\ exercise = "search"
     /\ \E n \in 1 .. 6, m \in 1 .. 3 :
          \E file \in [1 .. n -> Letters], pattern \in [1 .. m -> Letters] :
            given = <<file, pattern>>
  \/ exercise = "list" /\ \E n \in 0 .. 4 : given \in Links(n)
  \/ exercise = "spiral" /\ given \in 0 .. 7
  \/ /\ exercise = "archive"
     /\ \E sizes \in [1 .. 3 -> 0 .. 3], file \in 1 .. 3, piece \in 1 .. 4 :
          given = <<sizes, file, piece>>
  \/ /\ exercise = "reply"
     /\ \E header \in SeqOf({"x", "\r", "\n"}, 7), body \in SeqOf({"x", Client!NUL}, 2) :
          given = header \o body
  \/ exercise = "title" /\ given \in SeqOf({Client!Begin, Client!End, "x", Client!NUL}, 5)
  \/ /\ exercise = "checksum"
     /\ \/ given \in SeqOf(0 .. 3, 5)
        \/ \E words \in [1 .. 6 -> {0, 1, 3}] : given = <<0, 0>> \o words
  \/ exercise = "blocks" /\ given \in SeqOf(1 .. 3, 4)

NoPage == collector = "none" /\ alloc = 0 /\ capacity = 0 /\ size = 0

NoPing ==
  /\ program = "inf22_1" /\ pc = "printed" /\ clock = 0 /\ wake = 0
  /\ msg_count = 0 /\ msg_received_count = 0
  /\ travelling = {} /\ inbox = <<>> /\ foreign = 0 /\ got = <<>> /\ missed = {}

AllInit ==
  \/ Inputs /\ NoPage /\ NoPing
  \/ exercise = "page" /\ given = 0 /\ PageInit /\ NoPing
  \/ exercise = "ping" /\ given = 0 /\ NoPage /\ Init

AllNext ==
  \/ exercise = "page" /\ PageNext /\ UNCHANGED <<exercise, given, vars>>
  \/ exercise = "ping" /\ Next /\ UNCHANGED <<exercise, given, pageVars>>

AllSpec == AllInit /\ [][AllNext]_allVars /\ WF_vars(Program) /\ WF_vars(Tick)

\* Every exercise computes what it is meant to; for Ping see TotalIsRight.
ResultsAreRight ==
  CASE exercise = "satsum"     -> Number!SumIsSaturated(given[1], given[2])
    [] exercise = "classify"   -> Number!ClassIsRight(given)
    [] exercise = "sets"       -> Number!SetIsRight(given)
    [] exercise = "utf8"       -> Number!CountsCharacters(given)
    [] exercise = "find_size"  -> Number!SizeIsFound(given)
    [] exercise = "factor_out" -> Number!FactorsAreRight(given)
    [] exercise = "matrix"     -> Number!ProductIsRight(given[1], given[2], given[3])
    [] exercise = "split"      -> File!SplitIsRight(given)
    [] exercise = "search"     -> File!AllAreFound(given[1], given[2])
    [] exercise = "list"       -> File!ListIsFollowed(given)
    [] exercise = "spiral"     -> File!SpiralIsRight(given)
    [] exercise = "archive"    -> File!FileIsWhole(given[1], given[2], given[3])
    [] exercise = "reply"      -> Client!BodyIsPrinted(given)
    [] exercise = "title"      -> Client!TitleIsRight(given)
    [] exercise = "checksum"   -> Client!ChecksumVerifies(given)
    [] exercise = "blocks"     -> Client!InputIsFed(given)
    [] exercise = "page"       -> SizeInv
    [] OTHER                   -> TRUE
=============================================================================
