--------------------------- MODULE ClientExercises ---------------------------
(***************************************************************************)
(* What the clients and filters of the network exercises do with the bytes *)
(* they get: the body of an HTTP reply (inf23-0.c, inf23-1.c,              *)
(* another-inf23-0.c), the title of a page (inf23-2.c, inf23-2-ver2.c),    *)
(* the checksum of a packet (inf22-1.c), and the blocks that are hashed or *)
(* decrypted (inf25-0.c, inf25-1.c, inf25-1-ver2.c, inf25-1-ver3.c).       *)
(***************************************************************************)
EXTENDS Integers, Sequences, FiniteSets, SequencesExt, FiniteSetsExt

CONSTANTS
  MAX_SIZE,     \* of the buffer a line of the reply is read into
  ByteBits,     \* bits of a byte: 8
  BLOCK         \* bytes read at a time by the filters: 64, 32 or 16

NUL == "\\0"
CR == "\r"
LF == "\n"

\* What is behind the first zero byte does not belong to the string.
AsString(text) ==
  LET nul == SelectInSeq(text, LAMBDA c : c = NUL)
  IN IF nul = 0 THEN text ELSE SubSeq(text, 1, nul - 1)

-----------------------------------------------------------------------------
(***************************************************************************)
(* A reply is read in pieces: lines, or as much of one as the buffer takes.*)
(* What comes behind the first piece that is an empty line is printed,     *)
(* each piece as a string.                                                 *)
(***************************************************************************)
fgets(reply, from) ==
  LET last == Min({from + MAX_SIZE - 2, Len(reply)}
                    \cup {k \in from .. Len(reply) : reply[k] = LF})
  IN SubSeq(reply, from, last)

pieces(reply) ==
  LET loop[from \in 1 .. Len(reply) + 1] ==
        IF from > Len(reply) THEN <<>>
        ELSE LET header_str == fgets(reply, from)
             IN <<header_str>> \o loop[from + Len(header_str)]
  IN loop[1]

PrintHTTPFile(reply) ==
  LET all == pieces(reply)
      empty == SelectInSeq(all, LAMBDA piece : AsString(piece) = <<CR, LF>>)
  IN IF empty = 0 THEN <<>>
     ELSE FlattenSeq([k \in 1 .. Len(all) - empty |-> AsString(all[empty + k])])

\* Where the header ends: behind the first line that is empty.
EndsLine(reply, k) == k > 1 /\ reply[k] = LF /\ reply[k - 1] = CR
StartsLine(reply, k) == k = 1 \/ reply[k - 1] = LF

Body(reply) ==
  LET ends == {k \in DOMAIN reply : EndsLine(reply, k) /\ StartsLine(reply, k - 1)}
  IN IF ends = {} THEN <<>> ELSE SubSeq(reply, Min(ends) + 1, Len(reply))

\* The whole body is printed unless it holds a zero byte.  More than the body is
\* printed only when the last two bytes of a longer line come in a piece of their
\* own, and are taken for an empty line (inf23-0.c:52).
BodyIsPrinted(reply) ==
  LET printed == PrintHTTPFile(reply) body == Body(reply) IN
    /\ NUL \notin ToSet(reply) => IsSuffix(body, printed)
    /\ NUL \in ToSet(body) => ~IsSuffix(body, printed)
    /\ Len(printed) > Len(body) =>
         \E from, to \in DOMAIN reply :
           /\ StartsLine(reply, from) /\ EndsLine(reply, to)
           /\ to - from > 1 /\ (to - from - 1) % (MAX_SIZE - 1) = 0
           /\ LF \notin {reply[k] : k \in from .. to - 1}

-----------------------------------------------------------------------------
(***************************************************************************)
(* The title: what is between the first beginning and the first end of     *)
(* one.  When they are not there or the other way round, the size that is  *)
(* written is no size of a title, and may be anything.                     *)
(***************************************************************************)
Begin == "<title>"
End == "</title>"
Anything == <<"?">>

title(page) ==
  LET begin == SelectInSeq(AsString(page), LAMBDA c : c = Begin)
      end == SelectInSeq(AsString(page), LAMBDA c : c = End)
  IN IF begin = 0 \/ end < begin THEN Anything ELSE SubSeq(page, begin + 1, end - 1)

\* There is a title when the first end on the page has a beginning before it, and
\* no zero byte is before that.  It holds no tag unless the page has two beginnings.
TitleIsRight(page) ==
  LET got == title(page) Before(e) == {page[k] : k \in 1 .. e - 1} IN
    /\ got # Anything <=>
         \E e \in DOMAIN page :
           page[e] = End /\ Begin \in Before(e) /\ {End, NUL} \cap Before(e) = {}
    /\ got # Anything =>
         /\ {End, NUL} \cap ToSet(got) = {}
         /\ Begin \in ToSet(got) => Cardinality({k \in DOMAIN page : page[k] = Begin}) > 1

-----------------------------------------------------------------------------
(***************************************************************************)
(* The checksum of a packet: the sum of its words, with the carries added  *)
(* again, inverted.                                                        *)
(***************************************************************************)
WordBase == 2 ^ (2 * ByteBits)

checksum(bytes) ==
  LET Word(k) == bytes[2 * k - 1]
                   + (IF 2 * k <= Len(bytes) THEN 2 ^ ByteBits * bytes[2 * k] ELSE 0)
      words == [k \in 1 .. (Len(bytes) + 1) \div 2 |-> Word(k)]
      sum == FoldSeq(LAMBDA a, b : (a + b) % (WordBase * WordBase), 0, words)
      folded == (sum \div WordBase) + (sum % WordBase)
      again == folded + (folded \div WordBase)
  IN WordBase - 1 - (again % WordBase)

\* With its checksum in a field that was 0 a packet adds up to 0, and it does not
\* when one byte is another one (inf22-1.c:135).
ChecksumVerifies(bytes) ==
  /\ \A k \in 1 .. Len(bytes) \div 2 :
       bytes[2 * k - 1] = 0 /\ bytes[2 * k] = 0 =>
         LET c == checksum(bytes) IN
           checksum([bytes EXCEPT ![2 * k - 1] = c % 2 ^ ByteBits,
                                  ![2 * k] = c \div 2 ^ ByteBits]) = 0
  /\ \A k \in DOMAIN bytes : \A b \in 0 .. 2 ^ ByteBits - 1 :
       b # bytes[k] => checksum([bytes EXCEPT ![k] = b]) # checksum(bytes)

-----------------------------------------------------------------------------
(***************************************************************************)
(* The input is given to the library in the blocks it is read in; sizes    *)
(* says how much each read returned.  The input is the numbers from 1 on.  *)
(***************************************************************************)
Read(sizes, k) ==
  LET before == FoldSeq(+, 0, SubSeq(sizes, 1, k - 1))
  IN [b \in 1 .. sizes[k] |-> before + b]

Input(sizes) == FlattenSeq([k \in DOMAIN sizes |-> Read(sizes, k)])

\* inf25-0.c, inf25-1-ver2.c: what has been read.
FedAsRead(sizes) == FoldLeftDomain(LAMBDA fed, k : fed \o Read(sizes, k), <<>>, sizes)

\* inf25-1.c, inf25-1-ver3.c: the whole buffer, with what an earlier read has left in
\* it, or nothing has been stored in yet (0).
FedByBlocks(sizes) ==
  LET buffer[k \in 0 .. Len(sizes)] ==
        IF k = 0 THEN [b \in 1 .. BLOCK |-> 0]
        ELSE [b \in 1 .. BLOCK |->
                IF b <= sizes[k] THEN Read(sizes, k)[b] ELSE buffer[k - 1][b]]
  IN FlattenSeq([k \in DOMAIN sizes |-> buffer[k]])

\* Both give the library the input when every read fills the buffer.  After a
\* short one, and be it the last of a file, inf25-1.c:35 adds bytes again that the
\* library has had, or such that nobody has sent.
InputIsFed(sizes) ==
  LET input == Input(sizes) blocks == FedByBlocks(sizes)
      short == {k \in DOMAIN sizes : sizes[k] < BLOCK} IN
    /\ FedAsRead(sizes) = input
    /\ blocks = input <=> short = {}
    /\ short \subseteq {Len(sizes)} => IsPrefix(input, blocks)
    /\ 0 \in ToSet(blocks) <=> 1 \in short
=============================================================================
