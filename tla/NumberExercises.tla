--------------------------- MODULE NumberExercises ---------------------------
(***************************************************************************)
(* Functions of the number exercises, each with what it is meant to        *)
(* compute: satsum (inf02-2.c), classify (inf02-1.c), the calculator for   *)
(* sets (inf02-4.c), the counter of UTF-8 characters (inf02-5.c),          *)
(* find_size (inf13-2.c), factor_out (prime.c) and the matrix product      *)
(* (matrix.c).                                                             *)
(***************************************************************************)
EXTENDS Integers, Sequences, FiniteSets, FiniteSetsExt, Folds, SequencesExt

CONSTANTS
  Width,                        \* bits of an unsigned number: 16
  ExponentBits, MantissaBits    \* of a double: 11 and 52

-----------------------------------------------------------------------------
(***************************************************************************)
(* Addition that stops at the greatest number.                             *)
(***************************************************************************)
Greatest == 2 ^ Width - 1

satsum(x, y) ==
  LET a == (x + y) % 2 ^ Width IN
    IF a < x \/ a < y THEN Greatest ELSE a

SumIsSaturated(x, y) ==
  satsum(x, y) = (IF x + y <= Greatest THEN x + y ELSE Greatest)

-----------------------------------------------------------------------------
(***************************************************************************)
(* The class of a floating-point number, from its bits.                    *)
(***************************************************************************)
Bit(b, i) == (b \div 2 ^ i) % 2

classify(b) ==
  LET high == b \div 2 ^ MantissaBits
      is_exponent_full == \A i \in 0 .. ExponentBits - 1 : Bit(high, i) = 1
      is_exponent_empty == \A i \in 0 .. ExponentBits - 1 : Bit(high, i) = 0
      is_mantis_zero == \A i \in 0 .. MantissaBits - 1 : Bit(b, i) = 0
      sign == IF b \div 2 ^ (ExponentBits + MantissaBits) = 1 THEN "minus" ELSE "plus"
  IN CASE is_exponent_full /\ is_mantis_zero   -> <<sign, "inf">>
       [] is_exponent_full /\ ~is_mantis_zero  ->
            IF Bit(b, MantissaBits - 1) = 1 THEN <<"quiet", "nan">> ELSE <<"signaling", "nan">>
       [] is_exponent_empty /\ is_mantis_zero  -> <<sign, "zero">>
       [] is_exponent_empty /\ ~is_mantis_zero -> <<sign, "denormal">>
       [] OTHER                                -> <<sign, "regular">>

\* The fields of a number: b is sign * 2^(e + m) + exponent * 2^m + mantissa.
ClassIsRight(b) ==
  \A s \in 0 .. 1, e \in 0 .. 2 ^ ExponentBits - 1, m \in 0 .. 2 ^ MantissaBits - 1 :
    b = (s * 2 ^ ExponentBits + e) * 2 ^ MantissaBits + m =>
      LET special == e \in {0, 2 ^ ExponentBits - 1}
          of == classify(b)
      IN /\ of[2] = "nan" <=> e # 0 /\ special /\ m > 0
         /\ of[2] = "nan" => (of[1] = "quiet" <=> m >= 2 ^ (MantissaBits - 1))
         /\ of[2] # "nan" => (of[1] = "minus" <=> s = 1)
         /\ of[2] = "inf" <=> e # 0 /\ special /\ m = 0
         /\ of[2] \in {"zero", "denormal"} <=> e = 0
         /\ of[2] = "zero" => m = 0
         /\ of[2] = "denormal" => m > 0

-----------------------------------------------------------------------------
(***************************************************************************)
(* Sets of digits and letters, given by their members, and four operators  *)
(* behind their operand.  A set is the bits of a 64-bit number.            *)
(***************************************************************************)
symbol_coding(c) ==
  CASE c \in 48 .. 57  -> c - 48        \* '0' .. '9'
    [] c \in 97 .. 122 -> c - 97 + 36   \* 'a' .. 'z'
    [] c \in 65 .. 90  -> c - 65 + 10   \* 'A' .. 'Z'

symbol_decoding(code) ==
  CASE code \in 0 .. 9   -> code + 48
    [] code \in 36 .. 61 -> code + 97 - 36
    [] code \in 10 .. 35 -> code + 65 - 10

And == 38
Or == 124
Xor == 94
Not == 126
Operators == {And, Or, Xor, Not}

Calculate(state, c) ==
  LET b == state.buffer  n == state.new_set IN
    CASE c = And -> [buffer |-> b \cap n, new_set |-> {}]
      [] c = Or  -> [buffer |-> b \cup n, new_set |-> {}]
      [] c = Xor -> [buffer |-> (b \ n) \cup (n \ b), new_set |-> {}]
      [] c = Not -> [buffer |-> 0 .. 63 \ b, new_set |-> {}]
      [] OTHER   -> [buffer |-> b, new_set |-> n \cup {symbol_coding(c)}]

calculator(text) ==
  LET buffer == FoldLeft(Calculate, [buffer |-> {}, new_set |-> {}], text).buffer
  IN [k \in 1 .. Cardinality(buffer \cap 0 .. 61) |->
        symbol_decoding(CHOOSE code \in buffer :
                          Cardinality({d \in buffer : d < code}) = k - 1)]

\* Whether a symbol is a member after k characters: the last operator decides.
SetIsRight(text) ==
  LET LastBefore(k) == Max({0} \cup {o \in 1 .. k - 1 : text[o] \in Operators})
      Named(k, c) == \E m \in LastBefore(k) + 1 .. k - 1 : text[m] = c
      Member(c) ==
        LET in[k \in 0 .. Len(text)] ==
              IF k = 0 THEN FALSE
              ELSE LET o == LastBefore(k + 1) IN
                   IF o < k THEN in[o]
                   ELSE CASE text[k] = And -> in[k - 1] /\ Named(k, c)
                          [] text[k] = Or  -> in[k - 1] \/ Named(k, c)
                          [] text[k] = Xor -> in[k - 1] # Named(k, c)
                          [] text[k] = Not -> ~in[k - 1]
        IN in[Len(text)]
      Symbols == 48 .. 57 \cup 65 .. 90 \cup 97 .. 122
      result == calculator(text)
  IN /\ ToSet(result) = {c \in Symbols : Member(c)}
     /\ \A k \in 1 .. Len(result) - 1 : result[k] < result[k + 1]

-----------------------------------------------------------------------------
(***************************************************************************)
(* The characters of an UTF-8 text, one-byte ones and longer ones, up to   *)
(* the first byte that is out of place.                                    *)
(***************************************************************************)
Slides(c) ==
  CASE c \div 128 = 0 -> 0 [] c \div 32 = 6 -> 1 [] c \div 16 = 14 -> 2
    [] c \div 8 = 30 -> 3 [] OTHER -> -1

Continues(c) == c \div 64 = 2

\* checker: the bytes that have to follow.
checker(text, k) ==
  \A i \in 1 .. Slides(text[k]) : k + i <= Len(text) /\ Continues(text[k + i])

count_characters(text) ==
  LET count[k \in 1 .. Len(text) + 1] ==
        IF k > Len(text) THEN [ascii |-> 0, longer |-> 0, status |-> 0]
        ELSE IF Slides(text[k]) = -1 \/ ~checker(text, k)
        THEN [ascii |-> 0, longer |-> 0, status |-> 1]
        ELSE LET rest == count[k + 1 + Slides(text[k])] IN
             IF Slides(text[k]) = 0 THEN [rest EXCEPT !.ascii = @ + 1]
                                    ELSE [rest EXCEPT !.longer = @ + 1]
  IN count[1]

WellFormed(text) ==
  \A k \in DOMAIN text :
    \/ Slides(text[k]) >= 0 /\ checker(text, k)
    \/ /\ Continues(text[k])
       /\ \E d \in 1 .. 3 : d < k /\ d <= Slides(text[k - d])
                              /\ \A i \in k - d + 1 .. k : Continues(text[i])

\* The longest well-formed beginning is counted.
CountsCharacters(text) ==
  LET best == Max({n \in 0 .. Len(text) : WellFormed(SubSeq(text, 1, n))})
      Starts(S) == Cardinality({k \in 1 .. best : Slides(text[k]) \in S})
  IN count_characters(text) =
       [ascii |-> Starts({0}), longer |-> Starts({1, 2, 3}),
        status |-> IF best = Len(text) THEN 0 ELSE 1]

-----------------------------------------------------------------------------
(***************************************************************************)
(* How many numbers, written one after the other with a space behind each, *)
(* a number of bytes holds.                                                *)
(***************************************************************************)
find_size(len) ==
  LET loop[num \in 1 .. 5, left \in 0 .. len] ==
        LET fit == (left + num) \div (num + 1)   \* the inner loop, to the last byte
        IN IF left = 0 THEN 0
           ELSE IF fit <= 10 ^ num THEN fit
           ELSE 10 ^ num + loop[num + 1, left - 10 ^ num * (num + 1)]
  IN loop[1, len]

Digits(n) == IF n < 10 THEN 1 ELSE IF n < 100 THEN 2 ELSE IF n < 1000 THEN 3 ELSE 4

\* The bytes in front of a number.
Before(n) == MapThenSumSet(LAMBDA k : Digits(k) + 1, 0 .. n - 1)

\* Every number of which a byte was written is counted.  There are 90 numbers of
\* two digits and not 100, as the loop has it: once the 100 is written it finds too many
\* (inf13-2.c:27).
SizeIsFound(len) ==
  LET begun == Cardinality({n \in 0 .. len : Before(n) < len}) IN
    /\ find_size(len) >= begun
    /\ begun <= 100 => find_size(len) = begun

-----------------------------------------------------------------------------
(***************************************************************************)
(* The prime factors of a positive number, after a 1.                      *)
(***************************************************************************)
factor_out(number) ==
  LET loop[n \in 1 .. number, d \in 2 .. number + 1] ==
        IF n = 1 THEN <<>>
        ELSE IF n % d = 0 THEN <<d>> \o loop[n \div d, d]
        ELSE loop[n, d + 1]
      answer == <<1>> \o loop[number, 2]
  IN IF Len(answer) = 2 THEN <<"Prime!">> ELSE answer

IsPrime(n) == n > 1 /\ \A d \in 2 .. n - 1 : n % d # 0

FactorsAreRight(number) ==
  IF IsPrime(number) THEN factor_out(number) = <<"Prime!">>
  ELSE LET factors == factor_out(number) IN
       /\ FoldSeq(LAMBDA x, y : x * y, 1, factors) = number
       /\ Head(factors) = 1
       /\ \A k \in 2 .. Len(factors) : IsPrime(factors[k])
       /\ \A k \in 2 .. Len(factors) - 1 : factors[k] <= factors[k + 1]

-----------------------------------------------------------------------------
(***************************************************************************)
(* The product of two matrices, filled up with zeros.  matrix_update adds  *)
(* as many rows as it should have in the end, whatever there is.           *)
(***************************************************************************)
matrix_dot(size, left, right) ==
  LET min_size == IF Len(left) < Len(right) THEN Len(left) ELSE Len(right)
      Entry(r, c) == FoldSeq(+, 0, [k \in 1 .. min_size |-> left[r][k] * right[k][c]])
      Row(r) == [c \in 1 .. min_size |-> Entry(r, c)]
      rows == min_size + (IF min_size < size THEN size ELSE 0)
      Filled(row) == row \o [k \in 1 .. size - Len(row) |-> 0]
  IN [r \in 1 .. rows |->
        LET row == IF r <= min_size THEN Row(r) ELSE <<>> IN
          IF r <= size /\ Len(row) < size THEN Filled(row) ELSE row]

\* The product is the upper left corner, with zeros to the right and below it;
\* what is too much are empty rows.
ProductIsRight(size, left, right) ==
  LET product == matrix_dot(size, left, right)
      n == IF Len(left) < Len(right) THEN Len(left) ELSE Len(right)
  IN /\ \A r, c \in 1 .. n :
          product[r][c] = MapThenSumSet(LAMBDA k : left[r][k] * right[k][c], 1 .. n)
     /\ \A r \in 1 .. size : \A c \in 1 .. size :
          r > n \/ c > n => product[r][c] = 0
     /\ \A r \in DOMAIN product : r > size /\ r > n => product[r] = <<>>
=============================================================================
