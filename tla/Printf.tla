------------------------------- MODULE Printf -------------------------------
(***************************************************************************)
(* The formatter behind k_printf and k_snprintf (sys/vsprintf.c): how a    *)
(* conversion of a format becomes characters, and how the characters go to *)
(* a buffer of bounded size.                                               *)
(*                                                                         *)
(* A format is a sequence of conversions.  A conversion is the record the  *)
(* parser makes of it: flags, the width (negative when a '*' argument is), *)
(* the precision (a sequence of at most one number), the length, the       *)
(* specifier and its argument: num, the machine word of a number, or str,  *)
(* the characters of a string.  A character is a string of length one, or  *)
(* Nul.  The widths of the integer types are parameters.  Floating point   *)
(* is left out.                                                            *)
(***************************************************************************)
EXTENDS Integers, Sequences, FiniteSetsExt

CONSTANTS
  CharBits, ShortBits, IntBits, LongBits,       \* of char, short, int, long
  NtoaSize      \* PRINTF_NTOA_BUFFER_SIZE

ASSUME PrintfAssumption ==
  /\ {CharBits, ShortBits, IntBits, LongBits, NtoaSize} \subseteq Nat \ {0}
  /\ CharBits <= ShortBits /\ ShortBits <= IntBits /\ IntBits <= LongBits
  /\ 2^LongBits \in Nat

Nul == "NUL"
Spaces(n) == [i \in 1 .. n |-> " "]
Lower == <<"0", "1", "2", "3", "4", "5", "6", "7", "8", "9", "a", "b", "c", "d", "e", "f">>
Upper == <<"0", "1", "2", "3", "4", "5", "6", "7", "8", "9", "A", "B", "C", "D", "E", "F">>

\* A character of the format that is no conversion, or an unknown one.
Lit(c) == [flags |-> {}, width |-> 0, prec |-> << >>, size |-> "none",
           spec |-> "lit", num |-> 0, str |-> <<c>>]
-----------------------------------------------------------------------------
(* The fields of a conversion.                                             *)

\* "evaluate flags" and what the other fields add to them
Flags(d) == d.flags \cup (IF d.width < 0 THEN {"LEFT"} ELSE {})
                    \cup (IF d.prec # << >> THEN {"PRECISION"} ELSE {})

\* "evaluate width field"
Width(d) == IF d.width < 0 THEN -d.width ELSE d.width

\* "evaluate precision field"
Precision(d) == IF d.prec # << >> /\ d.prec[1] > 0 THEN d.prec[1] ELSE 0

\* "evaluate length field"
Bits(d) == CASE d.size = "hh" -> CharBits
             [] d.size = "h" -> ShortBits
             [] d.size = "none" -> IntBits
             [] d.size \in {"l", "ll", "t", "j", "z"} -> LongBits

Signed(n, w) == IF n % 2^w >= 2^(w - 1) THEN (n % 2^w) - 2^w ELSE n % 2^w

\* va_arg and its conversion; char is unsigned on RISC-V.
SignedArg(d) == IF d.size = "hh" THEN d.num % 2^CharBits ELSE Signed(d.num, Bits(d))

\* Mutant: the type has no magnitude for its least value.
MagnitudeClamped(v, w) == IF v > 0 THEN v ELSE Min({0 - v, 2^(w - 1) - 1})

\* (unsigned)(value > 0 ? value : 0 - value); the subtraction wraps.
Magnitude(v, w) == (IF v > 0 THEN v ELSE 0 - v) % 2^w
-----------------------------------------------------------------------------
(* Numbers, in a buffer of NtoaSize characters from the last to the first. *)

\* k_pri_out_rev: the last character of the buffer comes first.
OutRev(buf, width, flags) ==
  LET pad == Spaces(Max({width - Len(buf), 0})) IN
    (IF flags \cap {"LEFT", "ZEROPAD"} = {} THEN pad ELSE << >>)
    \o [i \in 1 .. Len(buf) |-> buf[Len(buf) - i + 1]]
    \o (IF "LEFT" \in flags THEN pad ELSE << >>)

\* while (len < n && len < PRINTF_NTOA_BUFFER_SIZE) buf[len++] = '0';
Zeros(buf, n) == buf \o [i \in 1 .. Max({Min({n, NtoaSize}) - Len(buf), 0}) |-> "0"]
Put(buf, c) == IF Len(buf) < NtoaSize THEN Append(buf, c) ELSE buf

\* "handle hash"
Hashed(buf, base, prec, width, flags) ==
  LET cut == IF "PRECISION" \notin flags /\ Len(buf) \in {prec, width}
               THEN Min({Len(buf), IF base = 16 THEN 2 ELSE 1})
               ELSE 0
      sub == SubSeq(buf, 1, Len(buf) - cut)
  IN Put(CASE base = 16 -> Put(sub, IF "UPPERCASE" \in flags THEN "X" ELSE "x")
           [] base = 2 -> Put(sub, "b")
           [] OTHER -> sub, "0")

\* _ntoa_format
NtoaFormat(buf, negative, base, prec, width, flags) ==
  LET left == "LEFT" \in flags
      zero == "ZEROPAD" \in flags
      sign == negative \/ flags \cap {"PLUS", "SPACE"} # {}
      w == IF ~left /\ width > 0 /\ zero /\ sign THEN width - 1 ELSE width
      b == IF left THEN buf ELSE Zeros(Zeros(buf, prec), IF zero THEN w ELSE 0)
      h == IF "HASH" \in flags THEN Hashed(b, base, prec, w, flags) ELSE b
      s == IF negative THEN Put(h, "-")
           ELSE IF "PLUS" \in flags THEN Put(h, "+")
           ELSE IF "SPACE" \in flags THEN Put(h, " ") ELSE h
  IN OutRev(s, w, flags)

\* The digits the loop of _ntoa_long makes, the last one first: at least one.
Digits(value, base, upper) ==
  LET n == CHOOSE n \in 1 .. NtoaSize :
             /\ n < NtoaSize => value < base^n
             /\ n > 1 => value >= base^(n - 1)
  IN [i \in 1 .. n |-> (IF upper THEN Upper ELSE Lower)[((value \div base^(i - 1)) % base) + 1]]

\* _ntoa_long and _ntoa_long_long
Ntoa(value, negative, base, prec, width, flags) ==
  NtoaFormat(IF "PRECISION" \notin flags \/ value # 0
               THEN Digits(value, base, "UPPERCASE" \in flags)
               ELSE << >>,
             negative, base, prec, width,
             IF value = 0 THEN flags \ {"HASH"} ELSE flags)
-----------------------------------------------------------------------------
(* k_vsnprintf_inner                                                       *)

Base(spec) == CASE spec \in {"x", "X"} -> 16
                [] spec = "o" -> 8
                [] spec = "b" -> 2
                [] OTHER -> 10

\* From "set the base" to "ignore '0' flag when precision is given".
IntFlags(d) ==
  (Flags(d) \cup (IF d.spec = "X" THEN {"UPPERCASE"} ELSE {}))
    \ ((IF Base(d.spec) = 10 THEN {"HASH"} ELSE {})
       \cup (IF d.spec \notin {"d", "i"} THEN {"PLUS", "SPACE"} ELSE {})
       \cup (IF d.prec # << >> THEN {"ZEROPAD"} ELSE {}))

\* "convert the integer"
ConvertInt(d) ==
  LET signed == d.spec \in {"d", "i"}
      v == IF signed THEN SignedArg(d) ELSE d.num % 2^Bits(d)
  IN Ntoa(IF signed THEN Magnitude(v, Max({Bits(d), IntBits})) ELSE v,
          v < 0, Base(d.spec), Precision(d), Width(d), IntFlags(d))

\* "pre padding" and "post padding" of %c and %s
Padded(s, d) ==
  LET pad == Spaces(Max({Width(d) - Len(s), 0}))
  IN IF "LEFT" \in Flags(d) THEN s \o pad ELSE pad \o s

\* %s
ConvertString(d) ==
  LET n == IF d.prec # << >> THEN Min({Len(d.str), Precision(d)}) ELSE Len(d.str)
  IN Padded(SubSeq(d.str, 1, n), d)

\* %p
ConvertPointer(d) ==
  Ntoa(d.num % 2^LongBits, FALSE, 16, Precision(d), LongBits \div 4,
       Flags(d) \cup {"ZEROPAD", "UPPERCASE"})

\* "evaluate specifier"
Convert(d) == CASE d.spec \in {"d", "i", "u", "x", "X", "o", "b"} -> ConvertInt(d)
                [] d.spec = "c" -> Padded(d.str, d)
                [] d.spec = "s" -> ConvertString(d)
                [] d.spec = "p" -> ConvertPointer(d)
                [] d.spec = "%" -> <<"%">>
                [] OTHER -> d.str

\* The loop over the format.
Render(fmt) ==
  MapThenFoldSet(LAMBDA s, done : done \o s, << >>, LAMBDA i : Convert(fmt[i]), Max, DOMAIN fmt)

\* k_pri_out_char: what k_vprintf_nolock hands to putchar.
OutChars(fmt) == SelectSeq(Render(fmt), LAMBDA c : c # Nul)

\* Mutant: the buffer has one place more than it is given.
OutBufferLong(idx, max) == idx <= max

\* k_pri_out_buffer: the places of the buffer that are written.
OutBuffer(idx, max) == idx < max

\* k_vsnprintf_nolock: the characters, then "termination"; max - 1 wraps.
Vsnprintf(buf, max, s) ==
  LET end == IF Len(s) < max THEN Len(s) ELSE (max - 1) % 2^LongBits IN
  [i \in DOMAIN buf |->
     IF ~OutBuffer(i, max) THEN buf[i]
     ELSE IF i = end THEN Nul
     ELSE IF i < Len(s) THEN s[i + 1] ELSE buf[i]]
-----------------------------------------------------------------------------
(* What C says of a conversion, not how it is made.                        *)

Sign(d, v) ==
  IF v < 0 THEN <<"-">>
  ELSE IF d.spec \notin {"d", "i"} \/ d.flags \cap {"PLUS", "SPACE"} = {} THEN << >>
  ELSE IF "PLUS" \in d.flags THEN <<"+">> ELSE <<" ">>
CValue(d) == IF d.spec \in {"d", "i"} THEN Signed(d.num, Bits(d))
             ELSE IF d.spec = "p" THEN d.num % 2^LongBits ELSE d.num % 2^Bits(d)

\* The number a numeral denotes.
Denotes(t, base, upper) ==
  LET digits == IF upper THEN Upper ELSE Lower
      DigitOf(c) == Max({i \in DOMAIN digits : digits[i] = c} \cup {0}) - 1
  IN MapThenSumSet(LAMBDA i : DigitOf(t[i]) * base^(Len(t) - i), DOMAIN t)

\* s is a numeral of v, signed, of the length that precision and 0 ask for.
IsNumeral(s, d, v) ==
  LET base == IF d.spec = "p" THEN 16 ELSE Base(d.spec)
      upper == d.spec \in {"X", "p"}
      sign == Sign(d, v)
      t == SubSeq(s, Len(sign) + 1, Len(s))
      fill == "ZEROPAD" \in d.flags /\ "LEFT" \notin Flags(d)
      least == IF d.prec # << >> THEN d.prec[1]
               ELSE IF d.spec = "p" THEN LongBits \div 4
               ELSE IF fill THEN Max({1, Width(d) - Len(sign)}) ELSE 1
  IN /\ sign \o t = s
     /\ \A i \in DOMAIN t : \E k \in 1 .. base : t[i] = (IF upper THEN Upper ELSE Lower)[k]
     /\ Denotes(t, base, upper) = IF v < 0 THEN -v ELSE v
     /\ Len(t) >= least
     /\ Len(t) > least => t[1] # "0"

\* s is the text of d, in a field of its width, flush with the side LEFT says.
IsFieldOf(s, d) ==
  \E a \in 1 .. Len(s) + 1, z \in 0 .. Len(s) :
    LET t == SubSeq(s, a, z) IN
    /\ \A i \in DOMAIN s : i \notin a .. z => s[i] = " "
    /\ IF "LEFT" \in Flags(d) THEN a = 1 ELSE z = Len(s)
    /\ Len(t) < Len(s) => Len(s) = Width(d)
    /\ Len(s) >= Width(d)
    /\ CASE d.spec = "s" -> t = SubSeq(d.str, 1, IF d.prec = << >> THEN Len(d.str)
                                                 ELSE Min({Len(d.str), d.prec[1]}))
         [] d.spec = "c" -> t = d.str
         [] OTHER -> IsNumeral(t, d, CValue(d))

\* Where the code keeps to C.  It does not for '#', for a negative precision,
\* for a precision in a field that is flush left (no zeros are put), for a
\* negative char, or when the zeros do not fit into the buffer.
KeepsToC(d) ==
  /\ "HASH" \notin d.flags
  /\ d.prec # << >> => d.prec[1] >= 0
  /\ d.spec \in {"d", "i", "u", "x", "X", "o", "b"} =>
       /\ "LEFT" \in Flags(d) => Precision(d) = 0
       /\ d.spec \in {"d", "i"} /\ d.size = "hh" => CValue(d) >= 0
       /\ Max({Precision(d), Width(d)}) < NtoaSize
       /\ Len(Digits(d.num % 2^Bits(d), Base(d.spec), FALSE)) < NtoaSize
  /\ d.spec = "p" => d.prec = << >> /\ d.width = 0 /\ d.flags = {}
=============================================================================
