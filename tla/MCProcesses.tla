----------------------------- MODULE MCProcesses -----------------------------
(***************************************************************************)
(* The small programs of several processes or threads, for TLC: a          *)
(* behaviour is one of ParallelMap, PingPong, ThreadInput, ForkChains or   *)
(* SharedReader, while the variables of the others stand still in a final  *)
(* state.                                                                  *)
(***************************************************************************)
EXTENDS ParallelMap, Sequences

CONSTANTS
  Starts,                        \* of PingPong
  threads_count, Inputs, Most,   \* of ThreadInput
  Lengths, MaxForks,             \* of ForkChains
  Writers, Readers, MaxNumbers   \* of SharedReader

ASSUME ProgramsAssumption ==
  /\ Starts \subseteq Int
  /\ Most \in Nat \ {0} /\ threads_count \in 1 .. Most
  /\ \A s \in Inputs : s \in Seq(Int) /\ Len(s) < Most
  /\ Lengths \subseteq Nat /\ MaxForks \in Nat
  /\ Writers \cap Readers = {} /\ MaxNumbers \in Nat \ {0}

MCStarts == {-20, -5, 3, 40, 104}
MCInputs == {<<>>, <<4>>, <<1, 2, 4>>, <<1, 2, -1>>, <<1, 2, 4, 8>>}

VARIABLES
  chosen,
  start_num, started, stopped, player, sent, printed,
  program, given, input, created, joined, current, sum, state, full_sum, output,
  chainer, N, chain, ended, out, refused,
  asked, posts, size, cells, at, j, shown

gameVars == <<start_num, started, stopped, player, sent, printed>>
inputVars == <<program, given, input, created, joined, current, sum, state, full_sum,
               output>>
chainVars == <<chainer, N, chain, ended, out, refused>>
shareVars == <<asked, posts, size, cells, at, j, shown>>
allVars == <<chosen, vars, gameVars, inputVars, chainVars, shareVars>>

G == INSTANCE PingPong WITH
       created <- started, joined <- stopped, pc <- player
T == INSTANCE ThreadInput
F == INSTANCE ForkChains WITH program <- chainer, failed <- refused
S == INSTANCE SharedReader WITH pc <- at, printed <- shown

MapOver ==
  /\ proc_cnt = 1 /\ count = 0 /\ build = "keeps" /\ procs = {} /\ parent = <<0>>
  /\ pc = <<"returned">> /\ i = <<0>> /\ forked = <<0>> /\ pids = <<0>> /\ buffer = <<>> /\ semaphore = 0
  /\ private = FALSE /\ misled = FALSE /\ failed = FALSE

GameOver ==
  /\ start_num = 3 /\ started = 2 /\ stopped = 2 /\ player = <<"done", "done">>
  /\ sent = <<<<>>, <<G!Stop>>>> /\ printed = <<0>>

InputOver ==
  /\ program = "inf18_0" /\ given = <<>> /\ input = <<>> /\ created = 1 /\ joined = 1
  /\ current = [t \in T!Ids |-> 0] /\ sum = current
  /\ state = [t \in T!Ids |-> IF t = 1 THEN "ended" ELSE "scan"] /\ full_sum = 0 /\ output = <<>>

ChainOver ==
  /\ chainer = "inf11_1" /\ N = 1 /\ chain = <<<<>>>> /\ ended = 1 /\ out = <<1, 0>>
  /\ refused = FALSE

ShareOver ==
  /\ asked = [r \in S!Runs |-> 1] /\ posts = 0 /\ size = 1
  /\ cells = [k \in S!Page |-> IF k = 0 THEN 1 ELSE 0]
  /\ at = [r \in S!Runs |-> IF r \in Writers THEN "ended" ELSE "killed"]
  /\ j = [r \in S!Runs |-> 0]
  /\ shown = [r \in S!Runs |-> IF r \in Writers THEN <<1>> ELSE <<>>]

AllInit ==
  \/ chosen = "map" /\ Init /\ GameOver /\ InputOver /\ ChainOver /\ ShareOver
  \/ chosen = "game" /\ MapOver /\ G!Init /\ InputOver /\ ChainOver /\ ShareOver
  \/ chosen = "input" /\ MapOver /\ GameOver /\ T!Init /\ ChainOver /\ ShareOver
  \/ chosen = "chain" /\ MapOver /\ GameOver /\ InputOver /\ F!Init /\ ShareOver
  \/ chosen = "share" /\ MapOver /\ GameOver /\ InputOver /\ ChainOver /\ S!Init

ButMap == <<chosen, gameVars, inputVars, chainVars, shareVars>>

AllNext ==
  \/ chosen = "map" /\ Next /\ UNCHANGED ButMap
  \/ chosen = "game" /\ G!Next /\ UNCHANGED <<chosen, vars, inputVars, chainVars, shareVars>>
  \/ chosen = "input" /\ T!Next /\ UNCHANGED <<chosen, vars, gameVars, chainVars, shareVars>>
  \/ chosen = "chain" /\ F!Next /\ UNCHANGED <<chosen, vars, gameVars, inputVars, shareVars>>
  \/ chosen = "share" /\ S!Next /\ UNCHANGED <<chosen, vars, gameVars, inputVars, chainVars>>

\* Every process of the parallel map that can run does.
MapFairness ==
  /\ WF_vars(chosen = "map" /\ Map /\ UNCHANGED ButMap)
  /\ \A p \in Ids :
       WF_vars(chosen = "map" /\ p \in procs /\ Process(p) /\ UNCHANGED ButMap)

AllSpec ==
  AllInit /\ [][AllNext]_allVars /\ MapFairness
  /\ G!Fairness /\ T!Fairness /\ F!Fairness /\ S!Fairness

\* inf20-1.c, inf18-2.c, inf18-0.c, inf18-1.c, inf11-0.c, inf11-1.c, inf20-0.c: no
\* cell is computed twice, and every number is printed as often as it should be,
\* and in its order.
OutputIsRight ==
  /\ chosen = "map" => Inv
  /\ G!Inv /\ T!Inv /\ F!Inv /\ S!Inv

MapEnds == <>(chosen = "map" => pc[Main] = "returned" \/ Excused)

\* All of the programs end, and the caller of inf20-1.c gets its result.
ProgramsEnd == MapEnds /\ G!Ends /\ T!Ends /\ F!Ends /\ S!Ends
=============================================================================
