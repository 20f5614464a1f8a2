---------------------------- MODULE FileExercises ----------------------------
(***************************************************************************)
(* Functions of the file exercises, each with what it is meant to compute: *)
(* inf08-0.c, which splits a file, the search of inf10-0.c, the list in a  *)
(* file of inf08-1.c, inf08-3.c and inf10-1.c,                             *)
(* the spiral of inf10-2.c, and read_callback of inf24-0.c.                *)
(***************************************************************************)
EXTENDS Integers, Sequences, FiniteSets, SequencesExt, FiniteSetsExt

CONSTANT BufferSize   \* of the buffers in inf08-0.c: 4096

-----------------------------------------------------------------------------
(***************************************************************************)
(* The digits and the other bytes of a file, collected from chunks of the  *)
(* size of a buffer in two buffers of the same size.                       *)
(***************************************************************************)
IsDigit(c) == c \in {"0", "1"}

Nothing == [numbers |-> <<>>, not_numbers |-> <<>>, overflow |-> FALSE]

Collect(so_far, c) ==
  LET to == IF IsDigit(c) THEN "numbers" ELSE "not_numbers" IN
    [so_far EXCEPT ![to] = Append(@, c),
                   !.overflow = @ \/ Len(so_far[to]) >= BufferSize]

split(file) ==
  LET chunk[k \in 0 .. Len(file)] ==
        FoldLeft(Collect, IF k = 0 THEN Nothing ELSE chunk[k - 1],
                 SubSeq(file, k * BufferSize + 1,
                        IF (k + 1) * BufferSize < Len(file) THEN (k + 1) * BufferSize
                                                           ELSE Len(file)))
  IN chunk[Len(file)]

\* Nothing is lost or exchanged between the chunks.  Both buffers hold no more than
\* one chunk, though (inf08-0.c:42): a longer file is safe when it has not too much
\* of one kind.
SplitIsRight(file) ==
  LET got == split(file)
      others == SelectSeq(file, LAMBDA c : ~IsDigit(c)) IN
    /\ ~got.overflow => got.numbers = SelectSeq(file, IsDigit) /\ got.not_numbers = others
    /\ got.overflow <=> Len(others) \notin Len(file) - BufferSize .. BufferSize

-----------------------------------------------------------------------------
(***************************************************************************)
(* Where a pattern is found, every search from one byte behind the last.   *)
(***************************************************************************)
Occurs(file, pattern, at) ==
  at + Len(pattern) <= Len(file)
    /\ \A k \in DOMAIN pattern : file[at + k] = pattern[k]

\* memmem, from a place on.
memmem(file, pattern, slide) ==
  {at \in slide .. Len(file) : Occurs(file, pattern, at)}

positions(file, pattern) ==
  LET loop[slide \in 0 .. Len(file) + 1] ==
        LET found == memmem(file, pattern, slide) IN
          IF found = {} THEN <<>> ELSE <<Min(found)>> \o loop[Min(found) + 1]
  IN loop[0]

\* Every place is found, overlapping ones too, in order.  (With an empty pattern
\* the search comes to the end of the file, the size of what is left turns
\* negative, and it never ends: inf10-0.c:28.)
AllAreFound(file, pattern) ==
  LET found == positions(file, pattern) IN
    /\ ToSet(found) = {at \in 0 .. Len(file) - Len(pattern) :
                         SubSeq(file, at + 1, at + Len(pattern)) = pattern}
    /\ \A k \in 1 .. Len(found) - 1 : found[k] < found[k + 1]

-----------------------------------------------------------------------------
(***************************************************************************)
(* A list in a file: items of eight bytes, each with the place of the next *)
(* one; the list ends where that is 0.  Nothing is printed twice unless    *)
(* the list comes back to an item, and then there is no end.               *)
(***************************************************************************)
ItemSize == 8
Endless == <<0>>      \* there is no item 0

\* inf10-1.c, with an index; next gives the links.  A list of more items than the
\* file holds has been somewhere twice.
follow(next) ==
  LET loop[k \in 0 .. Len(next), place \in 0 .. (Len(next) - 1) * ItemSize] ==
        LET at == place \div ItemSize + 1 IN
          IF k = Len(next) THEN Endless
          ELSE IF next[at] = 0 THEN <<at>>
          ELSE LET rest == loop[k + 1, next[at]] IN
               IF rest = Endless THEN Endless ELSE <<at>> \o rest
  IN IF next = <<>> THEN <<>> ELSE loop[0, 0]

\* inf08-1.c, which reads at the place itself: an item that starts in the middle
\* of another would differ, whole ones do not.
lseek_follow(next) ==
  LET loop[k \in 0 .. Len(next), ptr \in 0 .. (Len(next) - 1) * ItemSize] ==
        LET item == CHOOSE at \in DOMAIN next : (at - 1) * ItemSize = ptr IN
          IF k = Len(next) THEN Endless
          ELSE IF next[item] = 0 THEN <<item>>
          ELSE LET rest == loop[k + 1, next[item]] IN
               IF rest = Endless THEN Endless ELSE <<item>> \o rest
  IN IF next = <<>> THEN <<>> ELSE loop[0, 0]

\* inf08-3.c takes the place, a number of bytes, for an index.
Outside == <<-1>>

index_follow(next) ==
  LET loop[k \in 0 .. Len(next), ptr \in 0 .. (Len(next) - 1) * ItemSize] ==
        IF ptr >= Len(next) THEN Outside
        ELSE IF k = Len(next) THEN Endless
        ELSE IF next[ptr + 1] = 0 THEN <<ptr + 1>>
        ELSE LET rest == loop[k + 1, next[ptr + 1]] IN
             IF rest \in {Outside, Endless} THEN rest ELSE <<ptr + 1>> \o rest
  IN IF next = <<>> THEN <<>> ELSE loop[0, 0]

\* inf08-1.c and inf10-1.c follow the links to the end, or for ever when they come
\* back.  inf08-3.c follows no list of up to eight items: it leaves the array with
\* the first link.
ListIsFollowed(next) ==
  LET path == follow(next) IN
    /\ path = lseek_follow(next)
    /\ index_follow(next) = (IF Len(path) = 1 /\ path # Endless THEN path
                             ELSE IF next = <<>> THEN <<>> ELSE Outside)
    /\ path \notin {<<>>, Endless} =>
         /\ path[1] = 1 /\ next[Last(path)] = 0
         /\ \A k \in 1 .. Len(path) - 1 : next[path[k]] = (path[k + 1] - 1) * ItemSize
         /\ IsInjective(path)
    /\ path = Endless =>
         \E S \in SUBSET DOMAIN next :
           S # {} /\ \A at \in S : next[at] # 0 /\ next[at] \div ItemSize + 1 \in S

-----------------------------------------------------------------------------
(***************************************************************************)
(* The numbers from 1 to n * n in a spiral.  The cells are written ring by *)
(* ring, each in four strokes, and the one in the middle at last.          *)
(***************************************************************************)
Upwards(a, b, Cell(_)) == [k \in 1 .. b - a + 1 |-> Cell(a + k - 1)]
Downwards(a, b, Cell(_)) == [k \in 1 .. a - b + 1 |-> Cell(a - k + 1)]

\* Mutant: the last stroke goes up to the corner.
ring_to_corner(n, c) ==
  Upwards(c, n - c - 1, LAMBDA i : <<c, i>>)
    \o Upwards(1, n - 2 * c - 1, LAMBDA i : <<c + i, n - c - 1>>)
    \o Downwards(n - 2 - c, c, LAMBDA i : <<n - c - 1, i>>)
    \o Downwards(n - c - 2, c, LAMBDA i : <<i, c>>)

ring(n, c) ==
  Upwards(c, n - c - 1, LAMBDA i : <<c, i>>)
    \o Upwards(1, n - 2 * c - 1, LAMBDA i : <<c + i, n - c - 1>>)
    \o Downwards(n - 2 - c, c, LAMBDA i : <<n - c - 1, i>>)
    \o Downwards(n - c - 2, c + 1, LAMBDA i : <<i, c>>)

array(n) ==
  LET written == FlattenSeq([c \in 1 .. n \div 2 |-> ring(n, c - 1)])
      middle == <<n \div 2, n \div 2>>
  IN [cell \in (0 .. n - 1) \X (0 .. n - 1) |->
        IF n % 2 = 1 /\ cell = middle THEN n * n
        ELSE Max({0} \cup {k \in DOMAIN written : written[k] = cell})]

\* Every number is there once, the next one is always in a neighbouring cell, and
\* a turn is only made where the way ahead has been used.
SpiralIsRight(n) ==
  LET a == array(n)
      place == [v \in 1 .. n * n |-> CHOOSE cell \in DOMAIN a : a[cell] = v]
      Step(v) == <<place[v + 1][1] - place[v][1], place[v + 1][2] - place[v][2]>>
      Ahead(v) == <<place[v][1] + Step(v - 1)[1], place[v][2] + Step(v - 1)[2]>>
  IN /\ {a[cell] : cell \in DOMAIN a} = 1 .. n * n
     /\ n > 0 => place[1] = <<0, 0>>
     /\ n > 1 => Step(1) = <<0, 1>>
     /\ \A v \in 2 .. n * n - 1 :
          IF Ahead(v) \in DOMAIN a /\ a[Ahead(v)] > v
          THEN Step(v) = Step(v - 1)
          ELSE Step(v) = <<Step(v - 1)[2], -Step(v - 1)[1]>>

-----------------------------------------------------------------------------
(***************************************************************************)
(* A file system that serves the files in one block of data, one behind    *)
(* the other.  What is read is the place and the number of bytes.          *)
(***************************************************************************)
read_callback(sizes, file, offset, size) ==
  LET data_offset == FoldSeq(+, 0, SubSeq(sizes, 1, file - 1)) IN
    IF offset > sizes[file] THEN <<0, 0>>
    ELSE <<data_offset + offset,
           IF sizes[file] - offset < size THEN sizes[file] - offset ELSE size>>

\* A file read in pieces is the whole file and nothing of the next one.
FileIsWhole(sizes, file, piece) ==
  LET pieces == 0 .. sizes[file] \div piece
      Bytes(k) == LET got == read_callback(sizes, file, k * piece, piece)
                  IN got[1] .. got[1] + got[2] - 1
      before == FoldSeq(+, 0, SubSeq(sizes, 1, file - 1))
  IN /\ UNION {Bytes(k) : k \in pieces} = before .. before + sizes[file] - 1
     /\ \A k \in pieces : \A m \in pieces \ {k} : Bytes(k) \cap Bytes(m) = {}
=============================================================================
