------------------------------- MODULE MCArgo -------------------------------
(* Instances of Argo: values of bounded depth, written tightly and loosely, and *)
(* texts that are no JSON, each with the ways to call the program.              *)
EXTENDS Argo

Str(s) == [type |-> "string", string |-> s]
Lit(t) == [type |-> "basic", basic |-> t]
Num(isInt, sign, digits, point) ==
    [type |-> "number",
     number |-> [isInt |-> isInt, sign |-> sign, value |-> [digits |-> digits, point |-> point]]]
Item(name, value) == [name |-> name, value |-> value]

\* Scalars: how one is spelled, and its value.
Spelled(text, value) == [text |-> text, value |-> value]
Scalars == {
    Spelled(ARGO_NULL_TOKEN, Lit(ARGO_NULL_TOKEN)),
    Spelled(ARGO_FALSE_TOKEN, Lit(ARGO_FALSE_TOKEN)),
    Spelled(<<48>>, Num(TRUE, 1, <<>>, 0)),                                    \* 0
    Spelled(<<45, 50, 48>>, Num(TRUE, -1, <<2>>, 2)),                          \* -20
    Spelled(<<49, 46, 48>>, Num(FALSE, 1, <<1>>, 1)),                          \* 1.0
    Spelled(<<45, 48, 46, 49>>, Num(FALSE, -1, <<1>>, 0)),                     \* -0.1
    Spelled(<<45, 48, 46, 48, 49>>, Num(FALSE, -1, <<1>>, -1)),                \* -0.01
    Spelled(<<48, 46, 48, 53>>, Num(FALSE, 1, <<5>>, -1)),                     \* 0.05
    Spelled(<<51, 46, 48, 55, 101, 49, 49>>, Num(FALSE, 1, <<3, 0, 7>>, 12)),  \* 3.07e11
    Spelled(<<49, 46, 50, 69, 45, 51>>, Num(FALSE, 1, <<1, 2>>, -2)),          \* 1.2E-3
    Spelled(<<34, 34>>, Str(<<>>)),
    Spelled(<<34, 97, 92, 110, 92, 34, 34>>, Str(<<97, 10, 34>>)),             \* "a\n\""
    Spelled(<<34, 92, 117, 48, 48, 48, 49, 32, 34>>, Str(<<1, 32>>)),          \* "\u0001 "
    Spelled(<<34, 92, 117, 50, 48, 65, 99, 93, 34>>, Str(<<8364, 93>>)) }      \* "\u20Ac]"
Few == {s \in Scalars : \/ s.value.type \in {"basic", "string"} /\ Len(s.text) \in {2, 4}
                        \/ s.text = <<45, 50, 48>>}

\* Strings that are read as spelled, though not always what is written of them.
Awkward == {
    Spelled(<<34, 92, 117, 48, 48, 48, 49, 92, 117, 48, 48, 54, 49, 34>>, Str(<<1, 97>>)), \* "\u0001\u0061"
    Spelled(<<34, 92, 117, 48, 48, 48, 49, 120, 34>>, Str(<<1, 120>>)),                   \* "\u0001x"
    Spelled(<<34, 92, 110, 97, 34>>, Str(<<10, 97>>)),                                    \* "\na"
    Spelled(<<34, 127, 97, 34>>, Str(<<127, 97>>)),                                       \* DEL, a
    Spelled(<<34, 92, 117, 48, 48, 101, 57, 34>>, Str(<<233>>)),                          \* "\u00e9"
    Spelled(<<34, 92, 117, 48, 48, 102, 102, 34>>, Str(<<255>>)),                         \* "\u00ff"
    Spelled(<<34, 92, 117, 48, 49, 48, 48, 103, 34>>, Str(<<256, 103>>)) }                \* "\u0100g"

\* A container of the given parts, with pad around every part and bracket.
Pads == {<<>>, <<ARGO_SPACE>>}
Between(parts, pad) ==
    FoldLeftDomain(LAMBDA text, i : text \o (IF i > 1 THEN <<ARGO_COMMA>> ELSE <<>>)
                                         \o pad \o parts[i] \o pad, <<>>, parts)
ArrayOf(items, pad) ==
    Spelled(<<ARGO_LBRACK>> \o (IF items = <<>> THEN pad ELSE Between([i \in DOMAIN items |-> items[i].text], pad))
                \o <<ARGO_RBRACK>>,
            [type |-> "array", list |-> [i \in DOMAIN items |-> Item(<<>>, items[i].value)]])
Key(i) == IF i = 1 THEN <<>> ELSE <<107>>
ObjectOf(items, pad) ==
    Spelled(<<ARGO_LBRACE>> \o (IF items = <<>> THEN pad ELSE
                Between([i \in DOMAIN items |->
                    argo_write_string(Key(i)) \o pad \o <<ARGO_COLON>> \o pad \o items[i].text], pad))
                \o <<ARGO_RBRACE>>,
            [type |-> "object", list |-> [i \in DOMAIN items |-> Item(Key(i), items[i].value)]])
Containers(parts, n) ==
    UNION {{ArrayOf(items, pad), ObjectOf(items, pad)} :
                items \in UNION {[1..k -> parts] : k \in 0..n}, pad \in Pads}

Flat == Containers(Scalars, 2)
Inner == {c \in Containers(Few, 1) : Len(c.text) <= 5}
Deep == Containers(Inner, 1) \cup Containers({c \in Inner : Len(c.text) <= 4} \cup {CHOOSE s \in Few : TRUE}, 2)
Deeper == Containers({d \in Containers(Inner, 1) : Len(d.text) <= 6}, 1)
Names == {Spelled(<<ARGO_LBRACE>> \o s.text \o <<ARGO_COLON, 48, ARGO_RBRACE>>,
                  [type |-> "object", list |-> <<Item(s.value.string, Num(TRUE, 1, <<>>, 0))>>]) : s \in Awkward}
WellFormed == Flat \cup Deep \cup Deeper \cup Awkward \cup Containers(Awkward, 1) \cup Names
              \cup {Spelled(s.text \o <<ARGO_LF>>, s.value) : s \in Scalars}

Repeated(text, n) == [i \in 1..(n * Len(text)) |-> text[((i - 1) % Len(text)) + 1]]

\* What argo reads otherwise than JSON does, or should not read at all.
Odd == {
    <<>>,
    <<91>>,                                                \* [
    <<91, 49, 32, 50, 93>>,                                \* [1 2]
    <<91, 34, 97, 34, 49, 93>>,                            \* ["a"1]
    <<91, 91, 93, 123, 34, 97, 34, 58, 49, 125, 93>>,      \* [[]{"a":1}]
    <<91, 49, 101, 53, 93>>,                               \* [1e5]
    <<91, 49, 46, 53, 101, 43, 51, 93>>,                   \* [1.5e+3]
    <<91, 45, 45, 49, 45, 50, 93>>,                        \* [--1-2]
    <<123, 34, 97, 34, 125>>,                              \* {"a"}
    <<123, 97, 34, 97, 34, 34, 98, 34, 125>>,              \* {a"a""b"}
    <<91, 34, 92, 47, 34, 93>>,                            \* ["\/"]
    <<91, 34, 195, 169, 34, 93>>,                          \* two bytes of UTF-8
    <<91, 34, 255, 34, 93>>,                               \* a byte that is EOF
    <<123, 34, 255>>,
    <<91, 34, 92, 117, 48, 48, 52, 49, 98, 34, 93>>,       \* ["\u0041b"]
    <<116, 114, 117, 101>>,                                \* true
    <<91, 116, 114, 117, 93>>,                             \* [tru]
    <<91, 49, 255, 50, 93>>,                               \* [1, a byte that is EOF, 2]
    <<91, 49, 93, 32, 53>>,                                \* [1] 5
    <<49, 32, 91, 50, 93>>,                                \* 1 [2]
    Repeated(<<91>>, 21),                                  \* [[[ and so on: too many
    Repeated(<<91>>, 18) \o Repeated(<<49, 44>>, 8),       \* [[[ ... 1,1,1
    <<91>> \o Repeated(<<91, 93, 45>>, 9) \o <<93>> }      \* [[]-[]-[]- ... ]

MCInputs == {[text |-> d.text, value |-> d.value, plain |-> TRUE] : d \in WellFormed}
            \cup {[text |-> t, value |-> <<>>, plain |-> FALSE] : t \in Odd}

Opt(t) == [text |-> t]
MCArgvs == { <<>>, <<Opt("-h")>>, <<Opt("-v")>>, <<Opt("-c")>>, <<Opt("-c"), Opt("-p")>>,
             <<Opt("-c"), Opt("-p"), [number |-> 1]>> }
=============================================================================
