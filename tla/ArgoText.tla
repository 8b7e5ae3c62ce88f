------------------------------ MODULE ArgoText ------------------------------
(***************************************************************************)
(* The characters of argo (hw1/include/argo.h) and the functions of argo.c *)
(* that read and write strings, numbers and basic values.                  *)
(*                                                                         *)
(* Input and output are sequences of bytes.  A double is an exact decimal, *)
(* 0.d1d2d3... times ten to the point, with d1 # 0 and no zeros at the     *)
(* end: rounding, and the zeros "%.15f" pads with, are left out.           *)
(***************************************************************************)
EXTENDS Integers, Sequences, SequencesExt

EOF == -1
ARGO_QUOTE == 34
ARGO_COMMA == 44
ARGO_MINUS == 45
ARGO_PERIOD == 46
ARGO_COLON == 58
ARGO_LBRACK == 91
ARGO_BSLASH == 92
ARGO_RBRACK == 93
ARGO_LBRACE == 123
ARGO_RBRACE == 125
ARGO_B == 98
ARGO_E == 101
ARGO_F == 102
ARGO_N == 110
ARGO_R == 114
ARGO_T == 116
ARGO_U == 117
ARGO_BS == 8
ARGO_HT == 9
ARGO_LF == 10
ARGO_FF == 12
ARGO_CR == 13
ARGO_SPACE == 32

argo_is_whitespace(c) == c \in {ARGO_SPACE, ARGO_LF, ARGO_CR, ARGO_HT}
argo_is_exponent(c) == c \in {101, 69}
argo_is_digit(c) == c \in 48..57
argo_is_hex(c) == argo_is_digit(c) \/ c \in 65..70 \/ c \in 97..102

ARGO_NULL_TOKEN == <<110, 117, 108, 108>>
ARGO_TRUE_TOKEN == <<116, 114, 117, 101>>
ARGO_FALSE_TOKEN == <<102, 97, 108, 115, 101>>

\* c = fgetc(f) into a char: byte 255 is EOF too, and one above 127 is negative.
Fetch(in) ==
    IF in = <<>> THEN EOF ELSE IF Head(in) > 127 THEN Head(in) - 256 ELSE Head(in)
Rest(in) == IF in = <<>> THEN <<>> ELSE Tail(in)
Unget(c, in) == IF c = EOF THEN in ELSE <<c % 256>> \o in

\* What is left when a character is fetched and given back: byte 255 is lost.
Peeked(in) == Unget(Fetch(in), Rest(in))

\* How many elements at the front of s satisfy Test.
RunLength(s, Test(_)) ==
    LET stops == {i \in DOMAIN s : ~Test(s[i])}
    IN  IF stops = {} THEN Len(s) ELSE (CHOOSE i \in stops : \A j \in stops : i <= j) - 1

Done(value, in) == [ok |-> TRUE, value |-> value, in |-> in]
Wrong(in) == [ok |-> FALSE, value |-> <<>>, in |-> in]

---------------------------------------------------------------------------
(* Strings: sequences of code points, as ints.                             *)

HexValue(c) == IF c <= 57 THEN c - 48 ELSE IF c <= 70 THEN c - 55 ELSE c - 87

\* The weight of a hex digit is divided by 16 from one to the next: from the
\* fifth on it is 0.
HexSum(digits) ==
    LET Term(i, base) == IF i <= Len(digits) THEN HexValue(digits[i]) * base ELSE 0
    IN  Term(1, 4096) + Term(2, 256) + Term(3, 16) + Term(4, 1)

Escaped == [c \in {ARGO_B, ARGO_F, ARGO_N, ARGO_R, ARGO_T, ARGO_QUOTE, ARGO_BSLASH} |->
    CASE c = ARGO_B -> ARGO_BS [] c = ARGO_F -> ARGO_FF [] c = ARGO_N -> ARGO_LF
      [] c = ARGO_R -> ARGO_CR [] c = ARGO_T -> ARGO_HT [] OTHER -> c]

\* Every hex digit after \u is taken.
HexDigits(in) == RunLength(in, argo_is_hex)

\* argo_read_string: what is read is appended to s, whatever that holds.
\* StringReads(in)[n] is how it goes with the last n characters of in.
StringReads(in) ==
    LET reads[n \in 0..Len(in)] ==
            LET rest == SubSeq(in, Len(in) - n + 1, Len(in))
                c == Fetch(rest)
                e == Fetch(Rest(rest))
                digits == HexDigits(SubSeq(rest, 3, n))
                Then(char, left) ==
                    LET read == reads[Len(left)]
                    IN  [ok |-> read.ok, value |-> <<char>> \o read.value, in |-> read.in]
            IN  CASE c = ARGO_QUOTE -> Done(<<>>, Rest(rest))
                  [] c = ARGO_BSLASH /\ e = ARGO_U ->
                        Then(HexSum(SubSeq(rest, 3, digits + 2)), Peeked(SubSeq(rest, digits + 3, n)))
                  [] c = ARGO_BSLASH /\ e \in DOMAIN Escaped -> Then(Escaped[e], SubSeq(rest, 3, n))
                  [] c = ARGO_BSLASH /\ e \notin DOMAIN Escaped \cup {ARGO_U} -> Wrong(rest)
                  [] c = EOF -> Wrong(rest)
                  [] OTHER -> Then(c, Rest(rest))
    IN  reads

argo_read_string(s, in) ==
    LET read == StringReads(in)[Len(in)]
    IN  [ok |-> read.ok, value |-> s \o read.value, in |-> read.in]

HexDigit(n) == IF n < 10 THEN 48 + n ELSE 87 + n

\* "%04x" of an int: a negative one has eight digits, the first of them f.
Hex(c) ==
    IF c < 0 THEN <<102, 102, 102, 102, 102, 102>>
                  \o <<HexDigit(((c + 256) \div 16) % 16), HexDigit((c + 256) % 16)>>
    ELSE <<HexDigit((c \div 4096) % 16), HexDigit((c \div 256) % 16),
           HexDigit((c \div 16) % 16), HexDigit(c % 16)>>

\* Mutant: a quote is written as it is.
WriteCharBare(c) == <<c % 256>>

WriteChar(c) ==
    LET letters == {e \in DOMAIN Escaped : Escaped[e] = c}
    IN  CASE letters # {} -> <<ARGO_BSLASH, CHOOSE e \in letters : TRUE>>
          [] letters = {} /\ (c < 32 \/ c > 255) -> <<ARGO_BSLASH, ARGO_U>> \o Hex(c)
          [] OTHER -> <<c>>

argo_write_string(s) ==
    LET upto[n \in 0..Len(s)] ==
            IF n = 0 THEN <<ARGO_QUOTE>> ELSE upto[n - 1] \o WriteChar(s[n])
    IN  Append(upto[Len(s)], ARGO_QUOTE)

---------------------------------------------------------------------------
(* Numbers.                                                                *)

Zeros(n) == [i \in 1..n |-> 0]

\* The decimal 0.ds times ten to the p, in its one form.
Decimal(ds, p) ==
    LET lead == RunLength(ds, LAMBDA d : d = 0)
        tail == RunLength(Reverse(ds), LAMBDA d : d = 0)
    IN  IF lead = Len(ds) THEN [digits |-> <<>>, point |-> 0]
        ELSE [digits |-> SubSeq(ds, lead + 1, Len(ds) - tail), point |-> p - lead]

\* A number in the making, k, and what the next character c makes of it.  The
\* phases say where in the loop of argo_read_number c is fetched: at its head,
\* behind a minus, in a fraction, at and in the exponent of a fraction, at and in
\* an exponent without one.  A phase of "unget" or "swallow" is the end.
To(k, phase) == [k EXCEPT !.phase = phase]
Gains(k, field, c, phase) == [k EXCEPT ![field] = Append(@, c - 48), !.phase = phase]
Raises(k, c, phase) == [k EXCEPT !.exponent = 10 * @ + (c - 48), !.phase = phase]
BareExponent(k) == [k EXCEPT !.frac = <<>>, !.isInt = FALSE, !.phase = "exponent"]

NumberStep(k, c) ==
    CASE k.phase = "head" /\ c = ARGO_MINUS -> [k EXCEPT !.sign = -1, !.phase = "minus"]
      [] k.phase \in {"head", "minus"} /\ c = ARGO_PERIOD ->
            [k EXCEPT !.frac = <<>>, !.isInt = FALSE, !.phase = "fraction"]
      [] k.phase \in {"head", "minus"} /\ argo_is_digit(c) -> Gains(k, "whole", c, "head")
      [] k.phase = "fraction" /\ argo_is_digit(c) -> Gains(k, "frac", c, "fraction")
      [] k.phase = "fraction" /\ argo_is_exponent(c) -> To(k, "fractionExponent")
      [] k.phase \in {"head", "minus", "fractionExponent", "fractionDigits"} /\ argo_is_exponent(c) ->
            BareExponent(k)
      [] k.phase = "fractionExponent" /\ c = ARGO_MINUS ->
            [k EXCEPT !.expSign = -1, !.phase = "fractionDigits"]
      [] k.phase \in {"fractionExponent", "fractionDigits"} /\ argo_is_digit(c) ->
            Raises(k, c, "fractionDigits")
      [] k.phase = "exponent" /\ c = ARGO_MINUS ->
            [k EXCEPT !.expSign = -1, !.phase = "exponentDigits"]
      [] k.phase \in {"exponent", "exponentDigits"} /\ argo_is_digit(c) ->
            Raises(k, c, "exponentDigits")
      [] k.phase \in {"exponent", "exponentDigits"} /\ ~argo_is_digit(c)
            /\ ~(k.phase = "exponent" /\ c = ARGO_MINUS) -> To(k, "swallow")
      [] OTHER -> To(k, "unget")

\* Mutant: the sign of the exponent is not reset to what it was read as.
NumberIgnoringExpSign(k) ==
    [isInt |-> k.isInt, sign |-> k.sign,
     value |-> Decimal(k.whole \o k.frac, Len(k.whole) + k.exponent)]

\* The value: int_value, or float_value of a number with fraction or exponent.
Number(k) ==
    [isInt |-> k.isInt, sign |-> k.sign,
     value |-> Decimal(k.whole \o k.frac, Len(k.whole) + k.expSign * k.exponent)]

NewNumber == [phase |-> "head", sign |-> 1, whole |-> <<>>, frac |-> <<>>,
              exponent |-> 0, expSign |-> 1, isInt |-> TRUE]

\* The number in the making when n characters of in are fetched.
NumberLoop(in) ==
    LET k[n \in 0..(Len(in) + 1)] ==
            IF n = 0 THEN NewNumber
            ELSE NumberStep(k[n - 1], Fetch(SubSeq(in, n, Len(in))))
    IN  k

argo_read_number(in) ==
    LET k == NumberLoop(in)
        ends == {n \in 1..(Len(in) + 1) : k[n].phase \in {"unget", "swallow"}}
        last == CHOOSE n \in ends : \A m \in ends : n <= m
        left == SubSeq(in, last, Len(in))
    IN  Done(Number(k[last]), IF k[last].phase = "swallow" THEN Rest(left) ELSE Peeked(left))

Ascii(ds) == [i \in DOMAIN ds |-> ds[i] + 48]

\* "%ld" of an exponent.
Shown(n) ==
    LET shown[i \in 0..n] ==
            IF i < 10 THEN <<48 + i>> ELSE Append(shown[i \div 10], 48 + (i % 10))
    IN  shown[n]

\* "%ld" of a decimal without a fraction.
ShownWhole(d) ==
    IF d.digits = <<>> THEN <<48>> ELSE Ascii(d.digits \o Zeros(d.point - Len(d.digits)))
ShownFraction(ds) == <<48, ARGO_PERIOD>> \o Ascii(ds)

One == [digits |-> <<1>>, point |-> 1]

\* A float is shown as 0.ddd and an exponent; as 0.0ddd when the exponent would
\* be -1.  The loop for negative numbers below 1 goes on at -0.1 exactly, and
\* ends with a mantissa of 1.
WriteFloat(sign, d) ==
    LET minus == IF sign < 0 THEN <<ARGO_MINUS>> ELSE <<>>
        atTenth == sign < 0 /\ d.digits = <<1>>
        exponent == IF atTenth THEN 1 - d.point ELSE -d.point
    IN  CASE d.digits = <<>> -> <<48, ARGO_PERIOD, 48>>
          [] d = One -> minus \o <<49, ARGO_PERIOD, 48>>
          [] d.digits # <<>> /\ d # One /\ d.point >= 1 ->
                minus \o ShownFraction(d.digits) \o <<ARGO_E>> \o Shown(d.point)
          [] d.digits # <<>> /\ d.point < 1 /\ exponent = 1 ->
                minus \o ShownFraction(Zeros(-d.point) \o d.digits)
          [] OTHER ->
                minus \o (IF atTenth THEN <<49, ARGO_PERIOD, 48>> ELSE ShownFraction(d.digits))
                      \o <<ARGO_E, ARGO_MINUS>> \o Shown(exponent)

argo_write_number(n) ==
    IF n.isInt
    THEN (IF n.sign < 0 /\ n.value.digits # <<>> THEN <<ARGO_MINUS>> ELSE <<>>) \o ShownWhole(n.value)
    ELSE WriteFloat(n.sign, n.value)

---------------------------------------------------------------------------
(* Basic values are their tokens.                                          *)

argo_read_basic(in) ==
    LET found == {t \in {ARGO_NULL_TOKEN, ARGO_TRUE_TOKEN, ARGO_FALSE_TOKEN} : IsPrefix(t, in)}
    IN  IF found = {} THEN Wrong(in)
        ELSE LET t == CHOOSE t \in found : TRUE IN Done(t, SubSeq(in, Len(t) + 1, Len(in)))

argo_write_basic(b) == b
=============================================================================
