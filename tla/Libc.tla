-------------------------------- MODULE Libc --------------------------------
(***************************************************************************)
(* The pure routines of the C library both the kernel and programs use:    *)
(* numbers as text (stdlib.c, math.h), copying and 64-bit division         *)
(* (builtins.c), splitting a line (cstring.c), and what one conversion of  *)
(* a format prints (stdio.c, logs.c).  Each is the algorithm of the code;  *)
(* what it should compute is stated beside it.                             *)
(***************************************************************************)
EXTENDS Integers, Sequences, SequencesExt

CONSTANTS
    BITS,           \* bits of u32
    DIV_BITS        \* bits of the operands of a division

\* r to the n, by its recursion: the provers know nothing of ^.
Pow(r, n) == LET p[k \in 0 .. n] == IF k = 0 THEN 1 ELSE r * p[k - 1] IN p[n]

WORD == Pow(2, BITS)
Digits == <<"0", "1", "2", "3", "4", "5", "6", "7", "8", "9", "a", "b", "c", "d", "e", "f">>
get_symbol(digit) == Digits[digit + 1]

-----------------------------------------------------------------------------
(* stdlib.c.                                                               *)

log(value, base) ==
    LET n[v \in 0 .. value] == IF v >= base THEN n[v \div base] + 1 ELSE 0
    IN n[value]

\* Mutant of utoa: the buffer is filled from the front.
UtoaReversed(value, radix) ==
    LET low[v \in 0 .. value] ==
          <<get_symbol(v % radix)>> \o IF v \div radix = 0 THEN <<>> ELSE low[v \div radix]
    IN low[value]

\* utoa: the digits come lowest first and go to the buffer from digit_count
\* down; the terminator is put behind as many characters as there were digits.
utoa(value, radix) ==
    LET digit_count == log(value, radix)
        low[v \in 0 .. value] ==
          <<get_symbol(v % radix)>> \o IF v \div radix = 0 THEN <<>> ELSE low[v \div radix]
        written == low[value]
        At(i) == IF digit_count - i + 1 \in DOMAIN written THEN written[digit_count - i + 1] ELSE "junk"
    IN  [k \in 1 .. Len(written) |-> At(k - 1)]

\* itoa of the word value: the lowest number stays itself when negated, and is
\* then printed as unsigned.
itoa(value, radix) ==
    IF value >= WORD \div 2 THEN <<"-">> \o utoa((WORD - value) % WORD, radix) ELSE utoa(value, radix)

\* hex32be: two symbols for every byte, the highest byte first.
hex32be(value) ==
    [k \in 1 .. BITS \div 4 |-> get_symbol((value \div Pow(16, BITS \div 4 - k)) % 16)]

-----------------------------------------------------------------------------
(* stdio.c and logs.c.  A token of a format is a character c, or c = "%"   *)
(* with the letter t behind it and the argument taken for it.              *)

\* What is printed for a token that is no character; "%n" prints nothing.
Convert(tok) ==
    CASE tok.t = "%" -> <<"%">>
      [] tok.t \in {"s", "c"} -> tok.str
      [] tok.t \in {"d", "i"} -> itoa(tok.arg, 10)
      [] tok.t = "u" -> utoa(tok.arg, 10)
      [] tok.t = "x" -> utoa(tok.arg, 16)
      [] tok.t = "o" -> utoa(tok.arg, 8)
      [] tok.t = "b" -> utoa(tok.arg, 2)
      [] tok.t = "t" -> IF tok.arg # 0 THEN <<"t", "r", "u", "e">> ELSE <<"f", "a", "l", "s", "e">>
      [] tok.t = "p" -> hex32be(tok.arg)
      [] tok.t = "n" -> <<>>
      [] OTHER -> <<"?", "%", tok.t>>

Known == {"%", "s", "c", "d", "i", "u", "x", "o", "b", "t", "p", "n"}

-----------------------------------------------------------------------------
(* builtins.c.  Memory is a sequence of bytes; addresses are indices.      *)

memcpy(memory, dst, src, len) ==
    LET after[k \in 0 .. len] ==
          IF k = 0 THEN memory
          ELSE [after[k - 1] EXCEPT ![dst + k - 1] = after[k - 1][src + k - 1]]
    IN after[len]

revcpy(memory, dst, src, len) ==
    LET after[k \in 0 .. len] ==
          IF k = 0 THEN memory
          ELSE [after[k - 1] EXCEPT ![dst + len - k] = after[k - 1][src + len - k]]
    IN after[len]

memmove(memory, dst, src, len) ==
    IF dst < src THEN memcpy(memory, dst, src, len)
    ELSE IF dst > src THEN revcpy(memory, dst, src, len)
    ELSE memory

\* The high and the low register of a pair of w bits.
HighOf(x, w) == x \div Pow(2, w \div 2)
LowOf(x, w)  == x % Pow(2, w \div 2)

\* Mutant of AtLeast: the low words are compared whatever the high ones are.
AtLeastLow(x, y, w) == HighOf(x, w) > HighOf(y, w) \/ LowOf(x, w) >= LowOf(y, w)

\* The comparison of two pairs: the high words, then the low ones if they agree.
AtLeast(x, y, w) ==
    \/ HighOf(x, w) > HighOf(y, w)
    \/ HighOf(x, w) = HighOf(y, w) /\ LowOf(x, w) >= LowOf(y, w)

\* One round of __aeabi_uldivmod on registers of w bits: the top bit of n moves
\* to the remainder, whose own top bit is lost.
DivStep(state, d, w) ==
    LET rem == (state.rem * 2 + (state.n \div Pow(2, w - 1))) % Pow(2, w)
    IN  [n |-> (state.n * 2) % Pow(2, w),
         q |-> ((state.q * 2) % Pow(2, w)) + (IF AtLeast(rem, d, w) THEN 1 ELSE 0),
         rem |-> IF AtLeast(rem, d, w) THEN rem - d ELSE rem]

uldivmod(n, d, w) ==
    LET after[k \in 0 .. w] ==
          IF k = 0 THEN [n |-> n, q |-> 0, rem |-> 0] ELSE DivStep(after[k - 1], d, w)
    IN after[w]

-----------------------------------------------------------------------------
(* cstring.c.  A line is a sequence of characters without its NUL.         *)

Blank == {" ", "HT"}

\* The two inner loops of str_split: the next character that is no blank, and
\* the next that is one, or the end.
WordStart(line, p) ==
    LET at == {q \in p .. Len(line) : line[q] \notin Blank}
    IN  IF at = {} THEN Len(line) + 1 ELSE CHOOSE q \in at : \A r \in at : q <= r
WordEnd(line, p) ==
    LET at == {q \in p .. Len(line) : line[q] \in Blank}
    IN  IF at = {} THEN Len(line) + 1 ELSE CHOOSE q \in at : \A r \in at : q <= r

\* str_split: every word is ended with a NUL in place of the blank behind it.
str_split(line, max_argc) ==
    LET from[at \in (1 .. Len(line) + 2) \X (0 .. max_argc)] ==
          LET b == WordStart(line, at[1])
              e == WordEnd(line, b)
          IN  IF at[1] > Len(line) \/ at[2] = max_argc \/ b > Len(line) THEN <<>>
              ELSE <<SubSeq(line, b, e - 1)>> \o from[<<e + 1, at[2] + 1>>]
    IN from[<<1, 0>>]

-----------------------------------------------------------------------------
(* What the routines should compute.                                       *)

\* The digits of v: the shortest ones, highest first, that stand for it.
Numeral(v, r) ==
    LET len == CHOOSE k \in 1 .. BITS : v < Pow(r, k) /\ (k = 1 \/ v >= Pow(r, k - 1))
    IN  [j \in 1 .. len |-> get_symbol((v \div Pow(r, len - j)) % r)]

\* A signed word.
Signed(v) == IF v < WORD \div 2 THEN Numeral(v, 10) ELSE <<"-">> \o Numeral(WORD - v, 10)

\* What a reader of the format expects of a token.
Meaning(tok) ==
    CASE tok.t \in {"d", "i"} -> Signed(tok.arg)
      [] tok.t \in {"u", "x", "o", "b"} ->
           Numeral(tok.arg, CASE tok.t = "u" -> 10 [] tok.t = "x" -> 16 [] tok.t = "o" -> 8 [] tok.t = "b" -> 2)
      [] OTHER -> Convert(tok)
=============================================================================
