----------------------------- MODULE PageBuffers -----------------------------
(***************************************************************************)
(* inf23-2-ver2.c and inf23-2.c: two clients that collect a page in a      *)
(* growing buffer while curl hands it over in chunks.  Both keep a         *)
(* "capacity" that is not the size of the allocation: the first asks its   *)
(* helper for size + chunk more bytes and adds as much to the capacity of  *)
(* an allocation it makes smaller; the second starts from a megabyte with  *)
(* a capacity of 0.  The 64 bits of size_t are never filled.               *)
(***************************************************************************)
EXTENDS Naturals

CONSTANTS First,      \* bytes allocated by the main of inf23-2-ver2.c: 4096
          Second,     \* bytes allocated by the main of inf23-2.c: 2^20
          Chunks,     \* sizes of the chunks curl hands over
          MaxSize     \* bound: the largest page

ASSUME SizesAssumption ==
  First \in Nat /\ Second \in Nat /\ Chunks \subseteq Nat /\ MaxSize \in Nat

VARIABLES
  collector,    \* which of the two programs runs
  alloc,      \* size of the allocation behind data
  capacity,
  size        \* length in inf23-2.c

pageVars == <<collector, alloc, capacity, size>>

Collectors == {"vector", "doubling"}

PageInit ==
  /\ collector \in Collectors
  /\ size = 0
  /\ collector = "vector" => alloc = First /\ capacity = First
  /\ collector = "doubling" => alloc = Second /\ capacity = 0

realocate_vector(plus_size) ==
  IF size + plus_size > capacity
  THEN /\ alloc' = size + plus_size
       /\ capacity' = capacity + plus_size
  ELSE UNCHANGED <<alloc, capacity>>

\* Mutant: the helper is asked for the chunk alone.
get_page_chunk_only(full_size) ==
  /\ collector = "vector"
  /\ realocate_vector(full_size)
  /\ size' = size + full_size
  /\ UNCHANGED collector

get_page(full_size) ==
  /\ collector = "vector"
  /\ realocate_vector(size + full_size)
  /\ size' = size + full_size
  /\ UNCHANGED collector

callback_function(total_size) ==
  /\ collector = "doubling"
  /\ IF size + total_size > capacity
     THEN alloc' = (size + total_size) * 2 /\ capacity' = alloc'
     ELSE UNCHANGED <<alloc, capacity>>
  /\ size' = size + total_size
  /\ UNCHANGED collector

Chunk(bytes) == get_page(bytes) \/ callback_function(bytes)

\* curl_easy_perform returns: no more chunks.
PageComplete == UNCHANGED pageVars

PageNext ==
  \/ PageComplete
  \/ \E bytes \in Chunks : size + bytes <= MaxSize /\ Chunk(bytes)

PageSpec == PageInit /\ [][PageNext]_pageVars

-----------------------------------------------------------------------------
PageTypes ==
  /\ collector \in Collectors
  /\ alloc \in Nat /\ capacity \in Nat /\ size \in Nat

\* memcpy has written up to size: never past the end of the allocation, though
\* the capacity of inf23-2-ver2.c claims more than is there.
NoOverflow == size <= alloc

\* What makes it so: the capacity exceeds the allocation by no more than is
\* already in use, and the callback always asks for that much more.
CapacityBounded ==
  /\ collector = "vector" => capacity <= alloc + size
  /\ collector = "doubling" => capacity \in {0, alloc} /\ (capacity = 0 => size = 0)

\* No realloc makes the allocation of inf23-2-ver2.c smaller; that of
\* inf23-2.c shrinks at most once, to make room for the first chunk.
GrowthOnly == [][alloc' >= alloc \/ (collector = "doubling" /\ size = 0)]_pageVars

SizeInv ==
  /\ PageTypes /\ CapacityBounded /\ NoOverflow
  /\ collector = "vector" => alloc <= capacity
=============================================================================
