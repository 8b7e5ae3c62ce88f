--------------------------- MODULE ParInputProofs ---------------------------
(***************************************************************************)
(* Theorems about ParInput, for every set of cases and any number of       *)
(* errors that go without a message: what par has allocated it has freed   *)
(* at its end, but for lines that are lost when memory runs out; the       *)
(* variables are set by what sets them last, as long as no error went      *)
(* without a message; and the values a paragraph is formatted with are the *)
(* documented ones.                                                        *)
(***************************************************************************)
EXTENDS ParInput, ListLemmas

---------------------------------------------------------------------------
(* Storage. *)

\* What is allocated at each place of original_main, and that there is an error
\* indication only after the first error par knows of.  A line is lost only where an
\* error went without a message, or where memory ran out.
Lost == {"line"}
Storage ==
    /\ unreported \in Nat
    /\ pc \in {"parinit", "getopt", "skip", "lines", "format"} => message = "none"
    /\ pc = "parinit" => held \in {{"errmsg"}, {"errmsg", "picopy"}}
    /\ pc = "getopt" => held = {"errmsg"}
    /\ pc = "skip" => held \in {{"errmsg"}, {"errmsg"} \cup Lost}
    /\ pc = "lines" => held \in {{"errmsg", "cbuf", "pbuf"}, {"errmsg", "cbuf", "pbuf"} \cup Lost}
    /\ pc = "format" => held \in {{"errmsg", "inlines"}, {"errmsg", "inlines"} \cup Lost}
    /\ pc \in {"skip", "lines", "format"} /\ unreported = 0 => "line" \notin held
    /\ pc = "lines" /\ unreported = 0 => nullat = Unset
    /\ pc = "cleanup" =>
           /\ message \in {"none", "set"}
           /\ held \subseteq {"errmsg", "picopy", "inlines"} \cup Lost
           /\ message = "none" /\ unreported = 0 => "line" \notin held
    /\ pc # "exited" => status = "runs"
    /\ pc = "exited" =>
           /\ message \in {"none", "freed"}
           /\ status \in {"success", "failure"} => held \subseteq Lost
           /\ status = "success" /\ unreported = 0 => held = {}
    /\ pc \in {"parinit", "getopt", "skip", "lines", "format", "cleanup", "exited"}

LEMMA StorageInit == Init => Storage
BY DEF Init, Storage, Lost

\* No step allocates without a place that frees it, and none but the last reports an
\* error and goes on.
LEMMA StorageStep == Storage /\ [Next]_vars => Storage'
<1> SUFFICES ASSUME Storage, [Next]_vars PROVE Storage'
  OBVIOUS
<1> USE DEF Storage, Lost, Succeeds, Fails, FailsAnyway, Crashes, Reported, Unreported, errors, Goto,
        clear_error, is_error
<1>1. CASE ReadParinit
  BY <1>1 DEF ReadParinit, Refuse
<1>2. CASE EndOfParinit
  BY <1>2 DEF EndOfParinit
<1>3. CASE getopt
  BY <1>3 DEF getopt
<1>4. CASE ReadOperands
  BY <1>4 DEF ReadOperands
<1>5. CASE EndOfInput
  BY <1>5 DEF EndOfInput
<1>6. CASE CopyNewline
  BY <1>6 DEF CopyNewline
<1>7. CASE BeginLines
  BY <1>7 DEF BeginLines
<1>8. CASE ReadCharacter
  BY <1>8 DEF ReadCharacter
<1>9. CASE ReadLine
  BY <1>9 DEF ReadLine, Store, reading
<1>10. CASE EndLines
  BY <1>10 DEF EndLines, Behind, Returned, reading
<1>11. CASE LinesFail
  BY <1>11 DEF LinesFail
<1>12. CASE FormatParagraph
  BY <1>12 DEF FormatParagraph, Format
<1>13. CASE NoLines
  BY <1>13 DEF NoLines
<1>14. CASE parcleanup
  BY <1>14 DEF parcleanup
<1>15. CASE Ended
  BY <1>15 DEF Ended, vars
<1>16. CASE UNCHANGED vars
  BY <1>16 DEF vars
<1>17. CASE LinesGoWrong
  BY <1>17 DEF LinesGoWrong
<1> QED
  BY <1>1, <1>2, <1>3, <1>4, <1>5, <1>6, <1>7, <1>8, <1>9, <1>10, <1>11, <1>12, <1>13, <1>14,
     <1>15, <1>16, <1>17 DEF Next

\* At its end par has freed what it allocated, once, but for lines that are lost when
\* memory runs out; when it succeeds and no error went without a message, all of it.
THEOREM EverythingIsFreed == Spec => []AllFreed
<1>1. Storage => AllFreed
  BY DEF Storage, AllFreed, Lost
<1> QED BY <1>1, StorageInit, StorageStep, PTL DEF Spec

---------------------------------------------------------------------------
(* What lines have in common. *)

Line == Seq(STRING)
Text == Seq(Line)

\* The two begin alike for n characters, and not for one more.
CommonFor(a, b, n) ==
    /\ n \in Nat /\ n <= Len(a) /\ n <= Len(b)
    /\ SubSeq(a, 1, n) = SubSeq(b, 1, n)
    /\ n < Len(a) /\ n < Len(b) => a[n + 1] # b[n + 1]

LEMMA InCommonIs ==
    ASSUME NEW a \in Line, NEW b \in Line
    PROVE  CommonFor(a, b, InCommon(a, b))
<1> USE DEF Line
<1> DEFINE T == {n \in 0 .. Len(a) : n <= Len(b) /\ SubSeq(a, 1, n) = SubSeq(b, 1, n)}
           m == Max(T)
<1>1. T \in SUBSET Int /\ T # {} /\ Len(a) \in Int /\ \A n \in T : n <= Len(a)
  <2>1. SubSeq(a, 1, 0) = <<>> /\ SubSeq(b, 1, 0) = <<>>
    OBVIOUS
  <2>2. 0 \in T
    BY <2>1
  <2> QED BY <2>2
<1> HIDE DEF T
<1>2. m \in T /\ \A n \in T : n <= m
  BY <1>1, MaxIsGreatest
<1> HIDE DEF m
<1>3. /\ m \in 0 .. Len(a) /\ m <= Len(b)
      /\ SubSeq(a, 1, m) = SubSeq(b, 1, m)
  BY <1>2 DEF T
<1>4. ASSUME m < Len(a), m < Len(b), a[m + 1] = b[m + 1] PROVE FALSE
  <2>1. \A i \in 1 .. m : a[i] = b[i]
    <3> SUFFICES ASSUME NEW i \in 1 .. m PROVE a[i] = b[i]
      OBVIOUS
    <3>1. SubSeq(a, 1, m)[i] = a[i] /\ SubSeq(b, 1, m)[i] = b[i]
      BY <1>3
    <3> QED BY <3>1, <1>3
  <2>2. \A i \in 1 .. m + 1 : a[i] = b[i]
    BY <2>1, <1>3, <1>4
  <2>3. SubSeq(a, 1, m + 1) = SubSeq(b, 1, m + 1)
    BY <2>2, <1>3, <1>4
  <2>4. m + 1 \in T
    BY <2>3, <1>3, <1>4 DEF T
  <2> QED BY <2>4, <1>2, <1>3
<1>5. \E n \in 0 .. Len(a) :
          /\ n <= Len(b) /\ SubSeq(a, 1, n) = SubSeq(b, 1, n)
          /\ n < Len(a) /\ n < Len(b) => a[n + 1] # b[n + 1]
  BY <1>3, <1>4
<1> DEFINE Is(n) == /\ n <= Len(b) /\ SubSeq(a, 1, n) = SubSeq(b, 1, n)
                    /\ n < Len(a) /\ n < Len(b) => a[n + 1] # b[n + 1]
           c == CHOOSE n \in 0 .. Len(a) : Is(n)
<1>6. InCommon(a, b) = c
  BY DEF InCommon
<1>7. \E n \in 0 .. Len(a) : Is(n)
  BY <1>5
<1> HIDE DEF Is
<1>8. c \in 0 .. Len(a) /\ Is(c)
  BY <1>7
<1> HIDE DEF c
<1>9. c \in Nat /\ c <= Len(a)
  BY <1>8
<1> QED BY <1>6, <1>8, <1>9 DEF CommonFor, Is

\* The beginning of all lines is what they have in common, and no more.
LEMMA BeginningIs ==
    ASSUME NEW lines \in Text, lines # <<>>
    PROVE  Beginning(lines) \in Nat /\ LongestInCommon(lines, Beginning(lines))
<1> DEFINE a == lines[1]
           T == {InCommon(lines[1], lines[i]) : i \in DOMAIN lines}
           n == Min(T)
<1>1. /\ 1 \in DOMAIN lines
      /\ \A i \in DOMAIN lines : lines[i] \in Line
  BY DEF Text
<1>2. \A i \in DOMAIN lines : CommonFor(a, lines[i], InCommon(a, lines[i]))
  BY <1>1, InCommonIs
<1>3. T \in SUBSET Int /\ T # {} /\ 0 \in Int /\ \A x \in T : 0 <= x
  <2>1. \A i \in DOMAIN lines : InCommon(a, lines[i]) \in Nat
    BY <1>2 DEF CommonFor
  <2> QED BY <2>1, <1>1
<1> HIDE DEF T
<1>4. n \in T /\ \A x \in T : n <= x
  BY <1>3, MinIsLeast
<1>5. Beginning(lines) = n
  BY DEF Beginning, T
<1> HIDE DEF n
<1>6. n \in Nat
  BY <1>3, <1>4
<1>7. PICK k \in DOMAIN lines : n = InCommon(a, lines[k])
  BY <1>4 DEF T
<1>8. \A i \in DOMAIN lines : n <= InCommon(a, lines[i])
  BY <1>4 DEF T
<1>9. HaveInCommon(lines, n)
  <2> SUFFICES ASSUME NEW i \in DOMAIN lines
               PROVE  Len(lines[i]) >= n /\ SubSeq(lines[i], 1, n) = SubSeq(a, 1, n)
    BY DEF HaveInCommon
  <2> DEFINE b == lines[i]
             m == InCommon(a, b)
  <2>1. CommonFor(a, b, m) /\ n <= m /\ a \in Line /\ b \in Line
    BY <1>1, <1>2, <1>8
  <2> HIDE DEF a, b, m
  <2>2. m \in Nat /\ m <= Len(a) /\ m <= Len(b) /\ SubSeq(a, 1, m) = SubSeq(b, 1, m)
    BY <2>1 DEF CommonFor
  <2>3. \A j \in 1 .. n : a[j] = b[j]
    <3> SUFFICES ASSUME NEW j \in 1 .. n PROVE a[j] = b[j]
      OBVIOUS
    <3>1. SubSeq(a, 1, m)[j] = a[j] /\ SubSeq(b, 1, m)[j] = b[j]
      BY <2>1, <2>2, <1>6 DEF Line
    <3> QED BY <3>1, <2>2
  <2>4. SubSeq(b, 1, n) = SubSeq(a, 1, n)
    BY <2>1, <2>2, <2>3, <1>6 DEF Line
  <2>5. Len(b) >= n
    BY <2>1, <2>2, <1>6 DEF Line
  <2> QED BY <2>4, <2>5 DEF a, b
<1>10. ~HaveInCommon(lines, n + 1)
  <2> SUFFICES ASSUME HaveInCommon(lines, n + 1) PROVE FALSE
    OBVIOUS
  <2> DEFINE b == lines[k]
  <2>1. /\ Len(a) >= n + 1 /\ Len(b) >= n + 1
        /\ SubSeq(b, 1, n + 1) = SubSeq(a, 1, n + 1)
    BY <1>1 DEF HaveInCommon
  <2>2. CommonFor(a, b, n) /\ a \in Line /\ b \in Line
    BY <1>1, <1>2, <1>7
  <2> HIDE DEF a, b
  <2>3. a[n + 1] # b[n + 1]
    BY <2>1, <2>2, <1>6 DEF CommonFor, Line
  <2>4. SubSeq(b, 1, n + 1)[n + 1] = b[n + 1] /\ SubSeq(a, 1, n + 1)[n + 1] = a[n + 1]
    BY <2>1, <2>2, <1>6 DEF Line
  <2> QED BY <2>1, <2>3, <2>4
<1> QED BY <1>5, <1>6, <1>9, <1>10 DEF LongestInCommon

LEMMA ReverseIs ==
    ASSUME NEW a \in Line
    PROVE  /\ Reverse(a) \in Line /\ Len(Reverse(a)) = Len(a)
           /\ \A i \in 1 .. Len(a) : Reverse(a)[i] = a[Len(a) - i + 1]
BY DEF Reverse, Line

LEMMA ReversedIs ==
    ASSUME NEW lines \in Text, lines # <<>>
    PROVE  Reversed(lines) \in Text /\ Reversed(lines) # <<>>
<1>1. \A i \in DOMAIN lines : Reverse(lines[i]) \in Line
  BY ReverseIs DEF Text
<1>2. DOMAIN lines = 1 .. Len(lines) /\ Len(lines) \in Nat \ {0}
  BY DEF Text
<1>3. Reversed(lines) \in [1 .. Len(lines) -> Line]
  BY <1>1, <1>2 DEF Reversed
<1>4. Len(Reversed(lines)) = Len(lines)
  BY <1>2 DEF Reversed
<1>5. Reversed(lines) \in Text
  BY <1>2, <1>3 DEF Text
<1> QED BY <1>2, <1>4, <1>5

\* What all lines end with is the end of the first, and it is what their reversals
\* begin with.
LEMMA EndingIs ==
    ASSUME NEW lines \in Text, lines # <<>>
    PROVE  LET m == Beginning(Reversed(lines))
           IN  /\ m \in 0 .. Len(lines[1])
               /\ LongestInCommon(Reversed(lines), m)
               /\ Ending(lines) = SubSeq(lines[1], Len(lines[1]) - m + 1, Len(lines[1]))
               /\ Ending(lines) \in Line /\ Len(Ending(lines)) = m
<1> DEFINE m == Beginning(Reversed(lines))
           a == lines[1]
           r == Reverse(a)
           end == SubSeq(a, Len(a) - m + 1, Len(a))
<1>1. a \in Line /\ 1 \in DOMAIN lines
  BY DEF Text
<1>2. m \in Nat /\ LongestInCommon(Reversed(lines), m)
  BY ReversedIs, BeginningIs
<1>3. r \in Line /\ Len(r) = Len(a) /\ \A i \in 1 .. Len(a) : r[i] = a[Len(a) - i + 1]
  BY <1>1, ReverseIs
<1>4. DOMAIN Reversed(lines) = DOMAIN lines /\ Reversed(lines)[1] = r
  BY <1>1 DEF Reversed
<1>5. Len(r) >= m
  BY <1>1, <1>2, <1>4 DEF LongestInCommon, HaveInCommon
<1>6. Ending(lines) = Reverse(SubSeq(r, 1, m))
  BY DEF Ending
<1> HIDE DEF m, a, r
<1>7. m \in 0 .. Len(a)
  BY <1>1, <1>2, <1>3, <1>5 DEF Line
<1>8. SubSeq(r, 1, m) \in Line /\ Len(SubSeq(r, 1, m)) = m /\ \A i \in 1 .. m : SubSeq(r, 1, m)[i] = r[i]
  BY <1>1, <1>3, <1>7 DEF Line
<1>9. /\ Ending(lines) \in Line /\ Len(Ending(lines)) = m
      /\ \A i \in 1 .. m : Ending(lines)[i] = SubSeq(r, 1, m)[m - i + 1]
  <2> DEFINE u == SubSeq(r, 1, m)
  <2>1. u \in Line /\ Len(u) = m /\ Ending(lines) = Reverse(u)
    BY <1>6, <1>8
  <2> HIDE DEF u
  <2>2. /\ Reverse(u) \in Line /\ Len(Reverse(u)) = Len(u)
        /\ \A i \in 1 .. Len(u) : Reverse(u)[i] = u[Len(u) - i + 1]
    BY <2>1, ReverseIs
  <2> QED BY <2>1, <2>2 DEF u
<1>10. end \in Line /\ Len(end) = m /\ \A i \in 1 .. m : end[i] = a[Len(a) - m + i]
  BY <1>1, <1>7 DEF Line
<1>11. \A i \in 1 .. m : Ending(lines)[i] = end[i]
  <2> SUFFICES ASSUME NEW i \in 1 .. m PROVE Ending(lines)[i] = end[i]
    OBVIOUS
  <2>1. Ending(lines)[i] = SubSeq(r, 1, m)[m - i + 1] /\ m - i + 1 \in 1 .. m /\ m - i + 1 \in 1 .. Len(a)
    BY <1>7, <1>9
  <2>2. Ending(lines)[i] = a[Len(a) - (m - i + 1) + 1]
    BY <2>1, <1>3, <1>8
  <2>3. Len(a) - (m - i + 1) + 1 = Len(a) - m + i
    BY <1>1, <1>7 DEF Line
  <2> QED BY <2>2, <2>3, <1>10
<1> HIDE DEF end
<1>12. Ending(lines) = end
  BY <1>9, <1>10, <1>11, <1>2 DEF Line
<1> QED BY <1>2, <1>7, <1>9, <1>12 DEF m, a, end

\* Of a suffix white characters are taken off as long as another follows.
LEMMA StripWhiteIs ==
    ASSUME NEW end \in Line
    PROVE  \E k \in 0 .. Len(end) :
               /\ StripWhite(end) = Len(end) - k
               /\ \A i \in 1 .. k : isspace(end[i])
               /\ k > 0 => k < Len(end) /\ isspace(end[k + 1])
               /\ k + 1 < Len(end) => ~(isspace(end[k + 1]) /\ isspace(end[k + 2]))
<1> DEFINE OK(i) == i < Len(end) /\ isspace(end[i]) /\ isspace(end[i + 1])
           T == {n \in 0 .. Len(end) : \A i \in 1 .. n : OK(i)}
           c == CHOOSE n \in T : \A k \in T : k <= n
<1>1. StripWhite(end) = Len(end) - c
  BY DEF StripWhite
<1>2. Len(end) \in Nat
  BY DEF Line
<1> HIDE DEF OK
<1>3. T \in SUBSET Int /\ T # {} /\ Len(end) \in Int /\ \A n \in T : n <= Len(end)
  <2>1. 0 \in T
    BY <1>2
  <2> QED BY <1>2, <2>1
<1> HIDE DEF T
<1>4. \E n \in T : \A k \in T : k <= n
  BY <1>3, MaxIsGreatest
<1>5. c \in T /\ \A k \in T : k <= c
  BY <1>4
<1> HIDE DEF c
<1>6. c \in 0 .. Len(end) /\ \A i \in 1 .. c : OK(i)
  BY <1>5 DEF T
<1>7. c + 1 < Len(end) => ~OK(c + 1)
  <2> SUFFICES ASSUME c + 1 < Len(end), OK(c + 1) PROVE FALSE
    OBVIOUS
  <2>1. \A i \in 1 .. c + 1 : OK(i)
    BY <1>6
  <2>2. c + 1 \in T
    BY <2>1, <1>2, <1>6 DEF T
  <2> QED BY <2>2, <1>5, <1>6
<1>8. c > 0 => OK(c)
  BY <1>6
<1>9. \A i \in 1 .. c : isspace(end[i])
  BY <1>6 DEF OK
<1>10. c + 1 < Len(end) => ~(isspace(end[c + 1]) /\ isspace(end[c + 2]))
  <2>1. c + 1 + 1 = c + 2
    BY <1>6
  <2> QED BY <1>7, <2>1 DEF OK
<1> QED BY <1>1, <1>6, <1>8, <1>9, <1>10 DEF OK

LEMMA SuffixIs ==
    ASSUME NEW lines \in Text, lines # <<>>
    PROVE  /\ StripWhite(Ending(lines)) \in Nat
           /\ SuffixOf(lines, StripWhite(Ending(lines)))
<1> DEFINE m == Beginning(Reversed(lines))
           a == lines[1]
           end == Ending(lines)
           n == StripWhite(end)
<1>1. /\ m \in 0 .. Len(a)
      /\ LongestInCommon(Reversed(lines), m)
      /\ end = SubSeq(a, Len(a) - m + 1, Len(a))
      /\ end \in Line /\ Len(end) = m
  BY EndingIs
<1>2. PICK k \in 0 .. m :
          /\ n = m - k
          /\ \A i \in 1 .. k : isspace(end[i])
          /\ k > 0 => k < m /\ isspace(end[k + 1])
          /\ k + 1 < m => ~(isspace(end[k + 1]) /\ isspace(end[k + 2]))
  BY <1>1, StripWhiteIs
<1>3. a \in Line
  BY DEF Text
<1> HIDE DEF m, end, n, a
<1>4. m \in Nat /\ n \in Nat /\ n <= m /\ m - n = k
  BY <1>1, <1>2, <1>3 DEF Line
<1>5. Blank(SubSeq(end, 1, k))
  <2>2. k \in Nat /\ k <= Len(end) /\ end \in Line
    BY <1>1, <1>2, <1>4
  <2>1. DOMAIN SubSeq(end, 1, k) = 1 .. k /\ \A i \in 1 .. k : SubSeq(end, 1, k)[i] = end[i]
    BY <2>2 DEF Line
  <2> QED BY <2>1, <1>2 DEF Blank
<1>6. Blank(SubSeq(end, 1, m - n))
  BY <1>4, <1>5
<1>7. n < m => isspace(end[m - n + 1])
  BY <1>2, <1>4
<1>8. n > 1 => ~(isspace(end[m - n + 1]) /\ isspace(end[m - n + 2]))
  BY <1>2, <1>4
<1> QED BY <1>1, <1>4, <1>6, <1>7, <1>8 DEF SuffixOf, a, end, n

---------------------------------------------------------------------------
(* The values a paragraph is formatted with. *)

\* The values are numbers: those that were set, and otherwise those documented.
Documented(lines, opt, s) ==
    LET bodies == SubSeq(lines, opt.hang + 1, Len(lines))
    IN  /\ \A x \in Variables : s[x] >= 0 => opt[x] = s[x]
        /\ s.width < 0 => opt.width = 72
        /\ s.min < 0 => opt.min = opt.last
        /\ s.prefix < 0 =>
               IF Len(lines) <= opt.hang + 1 THEN opt.prefix = 0 ELSE LongestInCommon(bodies, opt.prefix)
        /\ s.suffix < 0 =>
               IF Len(lines) <= 1 THEN opt.suffix = 0 ELSE SuffixOf(lines, opt.suffix)

Settings == [Variables -> Int]

\* The defaults of a paragraph are the documented ones.
LEMMA DefaultsAreDocumented ==
    ASSUME NEW lines \in Text, lines # <<>>, NEW s \in Settings
    PROVE  Documented(lines, setdefaults(lines, s), s)
<1> DEFINE opt == setdefaults(lines, s)
           hang == Or(s.hang, 0)
           last == Or(s.last, 0)
           bodies == SubSeq(lines, hang + 1, Len(lines))
           prefix == IF Len(lines) <= hang + 1 THEN 0 ELSE Beginning(bodies)
           suffix == IF Len(lines) <= 1 THEN 0 ELSE StripWhite(Ending(lines))
<1>1. opt = [width |-> Or(s.width, 72), hang |-> hang, last |-> last, min |-> Or(s.min, last),
             prefix |-> Or(s.prefix, prefix), suffix |-> Or(s.suffix, suffix)]
  BY DEF setdefaults
<1> HIDE DEF opt, prefix, suffix
<1>2. s.width \in Int /\ s.hang \in Int /\ s.last \in Int /\ s.min \in Int /\ s.prefix \in Int /\ s.suffix \in Int
  BY DEF Settings, Variables
<1>3. /\ opt.width = Or(s.width, 72) /\ opt.hang = hang /\ opt.last = last /\ opt.min = Or(s.min, last)
      /\ opt.prefix = Or(s.prefix, prefix) /\ opt.suffix = Or(s.suffix, suffix)
  BY <1>1
<1>4. \A x \in Variables : s[x] >= 0 => opt[x] = s[x]
  BY <1>1, <1>2 DEF Variables, Or
<1>5. s.width < 0 => opt.width = 72
  BY <1>3 DEF Or
<1>6. s.min < 0 => opt.min = opt.last
  BY <1>3 DEF Or
<1>7. ASSUME s.prefix < 0
      PROVE  IF Len(lines) <= opt.hang + 1 THEN opt.prefix = 0
             ELSE LongestInCommon(SubSeq(lines, opt.hang + 1, Len(lines)), opt.prefix)
  <2>1. opt.prefix = prefix
    BY <1>3, <1>7 DEF Or
  <2>2. hang \in Nat
    BY <1>2 DEF Or
  <2>3. ASSUME ~(Len(lines) <= hang + 1) PROVE LongestInCommon(bodies, Beginning(bodies))
    <3>1. bodies \in Text /\ bodies # <<>>
      BY <2>2, <2>3, SMTT(20) DEF Text
    <3> QED BY <3>1, BeginningIs
  <2> HIDE DEF hang
  <2> QED BY <2>1, <2>3, <1>3 DEF prefix
<1>8. ASSUME s.suffix < 0
      PROVE  IF Len(lines) <= 1 THEN opt.suffix = 0 ELSE SuffixOf(lines, opt.suffix)
  <2>1. opt.suffix = suffix
    BY <1>3, <1>8 DEF Or
  <2>2. SuffixOf(lines, StripWhite(Ending(lines)))
    BY SuffixIs
  <2> QED BY <2>1, <2>2 DEF suffix
<1> QED BY <1>4, <1>5, <1>6, <1>7, <1>8 DEF Documented, opt

---------------------------------------------------------------------------
(* What the variables hold. *)

\* What is printed while the variables are set to s.
Items(s) ==
    {[is |-> "newline"], [is |-> "version"]}
    \cup {[is |-> "paragraph", lines |-> lines, opt |-> setdefaults(lines, s)] : lines \in Text \ {<<>>}}

\* The options are read before anything is printed, and then they stay.
Typed ==
    /\ given \in Cases /\ unreported \in Nat
    /\ env \in Seq(PARINITWords) /\ args \in Seq(Arguments)
    /\ settings \in Settings
    /\ stdin \in Line /\ cbuf \in Line /\ pbuf \in Text /\ inlines \in Text
    /\ nullat = Unset \/ nullat \in 0 .. Len(pbuf)
    /\ stdout \in Seq(Items(settings))
    /\ pc \in {"parinit", "getopt"} => stdout = <<>>

LEMMA TypedInit == Init => Typed
<1> SUFFICES ASSUME Init PROVE Typed
  OBVIOUS
<1>1. given \in [env : Seq(PARINITWords), args : Seq(Arguments), text : Seq(STRING)]
  BY CasesAssumption DEF Init
<1>2. settings \in Settings
  BY DEF Init, Settings, Unset
<1> QED BY <1>1, <1>2 DEF Init, Typed, Line, Text

LEMMA ParseoptSets ==
    ASSUME settings \in Settings, NEW word \in PARINITWords, Accepted(word)
    PROVE  parseopt(word) \in Settings
<1> DEFINE n == IF word.number = NoNumber THEN 1 ELSE word.number
<1>1. n \in Int
  <2>1. word.number \in Int
    BY DEF PARINITWords
  <2> QED BY <2>1
<1>2. parseopt(word) = CASE word.letter = "" -> [settings EXCEPT ![OfNumber(n)] = n]
                         [] word.letter \in DOMAIN Variable -> [settings EXCEPT ![Variable[word.letter]] = n]
                         [] OTHER -> settings
  BY DEF parseopt
<1> HIDE DEF n
<1>3. [settings EXCEPT ![OfNumber(n)] = n] \in Settings
  BY <1>1 DEF Settings, Variables, OfNumber
<1>4. \A x \in DOMAIN Variable : [settings EXCEPT ![Variable[x]] = n] \in Settings
  BY <1>1 DEF Settings, Variables, Variable
<1>5. CASE word.letter = ""
  <2>1. parseopt(word) = [settings EXCEPT ![OfNumber(n)] = n]
    BY <1>5, <1>2 DEF Variable
  <2> QED BY <1>3, <2>1
<1>6. CASE word.letter # "" /\ word.letter \in DOMAIN Variable
  <2>1. parseopt(word) = [settings EXCEPT ![Variable[word.letter]] = n]
    BY <1>6, <1>2
  <2> QED BY <1>4, <1>6, <2>1
<1>7. CASE word.letter # "" /\ word.letter \notin DOMAIN Variable
  <2>1. parseopt(word) = settings
    BY <1>7, <1>2
  <2> QED BY <2>1
<1> QED BY <1>5, <1>6, <1>7

LEMMA FirstOption ==
    ASSUME args \in Seq(Arguments), Options # {}
    PROVE  /\ Min(Options) \in 1 .. Len(args)
           /\ IsOption(args[Min(Options)])
           /\ args[Min(Options)] \in Arguments
           /\ \A i \in Options : Min(Options) <= i
<1>1. Options \in SUBSET Int /\ 0 \in Int /\ \A i \in Options : 0 <= i
  BY DEF Options
<1>2. Min(Options) \in Options /\ \A i \in Options : Min(Options) <= i
  BY <1>1, MinIsLeast
<1> QED BY <1>2 DEF Options

LEMMA ArgumentNumber == ASSUME NEW arg \in Arguments PROVE arg.number \in Int
<1>1. NoNumber \in Int
  BY DEF NoNumber
<1> QED BY <1>1 DEF Arguments

LEMMA SetSets ==
    ASSUME settings \in Settings, NEW arg \in Arguments,
           IsOption(arg), arg.letter \notin {"v", "?"}
    PROVE  Set(arg) \in Settings
<1>1. arg.number \in Int /\ (IF arg.number = NoNumber THEN 1 ELSE arg.number) \in Int
  BY ArgumentNumber
<1>2. \A x \in Variables : \A n \in Int : [settings EXCEPT ![x] = n] \in Settings
  BY DEF Settings
<1>3. CASE arg.letter \in {"w", "p", "s"}
  <2>1. Variable[arg.letter] \in Variables
    BY <1>3 DEF Variable, Variables
  <2> QED BY <1>1, <1>2, <1>3, <2>1 DEF Set
<1>4. CASE arg.letter = "h"
  BY <1>1, <1>2, <1>4 DEF Set, Variables
<1>5. CASE arg.letter \in {"l", "L"}
  BY <1>1, <1>2, <1>5 DEF Set, Variables
<1>6. CASE arg.letter \in {"m", "M"}
  BY <1>1, <1>2, <1>6 DEF Set, Variables
<1>7. CASE arg.letter = "K"
  BY <1>1, <1>2, <1>7 DEF Set, Variables
<1>8. CASE arg.letter = "N"
  BY <1>1, <1>2, <1>8 DEF Set, Variables
<1> QED BY <1>3, <1>4, <1>5, <1>6, <1>7, <1>8 DEF Arguments, IsOption

LEMMA OperandsSet ==
    ASSUME given \in Cases, settings \in Settings
    PROVE  [x \in Variables |-> AsOperands(x)] \in Settings
<1> SUFFICES ASSUME NEW x \in Variables PROVE AsOperands(x) \in Int
  BY DEF Settings
<1> DEFINE argv == given.args
           setters == {n \in Strings : OfNumber(n.number) = x}
           last == CHOOSE n \in setters : \A k \in setters : k.at <= n.at
<1>1. argv \in Seq(Arguments)
  BY CasesAssumption
<1>2. \A i \in DOMAIN argv : i \in Nat /\ i <= Len(argv) /\ argv[i].number \in Int
  <2> SUFFICES ASSUME NEW i \in DOMAIN argv
               PROVE  i \in Nat /\ i <= Len(argv) /\ argv[i].number \in Int
    OBVIOUS
  <2> HIDE DEF argv
  <2>1. i \in Nat /\ i <= Len(argv) /\ argv[i] \in Arguments
    BY <1>1
  <2> QED BY <2>1, ArgumentNumber
<1>3. \A n \in Strings : n.number \in Int /\ n.at \in Int /\ n.at <= 4 * Len(argv) + 1
  BY <1>1, <1>2 DEF Strings
<1>4. AsOperands(x) = IF setters = {} THEN settings[x] ELSE last.number
  BY DEF AsOperands
<1>5. ASSUME setters # {} PROVE \E n \in setters : \A k \in setters : k.at <= n.at
  <2> DEFINE T == {n.at : n \in setters}
             b == 4 * Len(argv) + 1
  <2>1. T \in SUBSET Int /\ T # {} /\ b \in Int /\ \A t \in T : t <= b
    BY <1>1, <1>3, <1>5
  <2> HIDE DEF T, b
  <2>2. Max(T) \in T /\ \A t \in T : t <= Max(T)
    BY <2>1, MaxIsGreatest
  <2> QED BY <2>2 DEF T
<1>6. setters # {} => last \in setters
  BY <1>5
<1> QED BY <1>3, <1>4, <1>6 DEF Settings

\* What is printed next is printed with the values that are set.
LEMMA PrintedNext ==
    ASSUME NEW item \in Items(settings), stdout \in Seq(Items(settings)),
           stdout' = Append(stdout, item), settings' = settings
    PROVE  stdout' \in Seq(Items(settings'))
<1> DEFINE I == Items(settings)
<1>1. stdout \in Seq(I) /\ item \in I
  OBVIOUS
<1> HIDE DEF I
<1>2. Append(stdout, item) \in Seq(I)
  BY <1>1
<1> QED BY <1>2 DEF I

LEMMA TypedStep == Typed /\ [Next]_vars => Typed'
<1> SUFFICES ASSUME Typed, [Next]_vars PROVE Typed'
  OBVIOUS
<1> DEFINE ReadSame == UNCHANGED <<given, env, args, settings>>
           LinesSame == UNCHANGED <<stdin, cbuf, pbuf, nullat, inlines>>
           Later == pc' \notin {"parinit", "getopt"}
           ReadTyped == given' \in Cases /\ env' \in Seq(PARINITWords) /\ args' \in Seq(Arguments) /\ settings' \in Settings
           LinesTyped == /\ stdin' \in Line /\ cbuf' \in Line /\ pbuf' \in Text /\ inlines' \in Text
                         /\ nullat' = Unset \/ nullat' \in 0 .. Len(pbuf')
           OutTyped == stdout' \in Seq(Items(settings')) /\ (pc' \in {"parinit", "getopt"} => stdout' = <<>>)
<1>1. ReadSame => ReadTyped
  BY DEF Typed
<1>2. LinesSame => LinesTyped
  BY DEF Typed
<1>3. stdout' = stdout /\ settings' = settings /\ (Later \/ pc' = pc \/ pc = "parinit") => OutTyped
  BY DEF Typed
<1>4. stdout' = <<>> => OutTyped
  OBVIOUS
<1>5. \A c \in STRING : \A line \in Line : Append(line, c) \in Line
  <2> DEFINE S == STRING
  <2> HIDE DEF S
  <2>1. \A c \in S : \A line \in Seq(S) : Append(line, c) \in Seq(S)
    OBVIOUS
  <2> QED BY <2>1 DEF S, Line
<1>6. \A line \in Line : \A text \in Text : Append(text, line) \in Text
  BY DEF Text
<1>7. <<>> \in Line /\ <<>> \in Text
  BY DEF Line, Text
<1>8. stdin # <<>> => Head(stdin) \in STRING /\ Tail(stdin) \in Line
  BY DEF Typed, Line
<1>9. ~AtEndOfLine \/ getchar = "\n" => stdin # <<>>
  BY DEF AtEndOfLine, getchar, EOF
<1>27. unreported' \in Nat
  BY DEF Typed, Next, vars, errors, Succeeds, Fails, FailsAnyway, Reported, Unreported, Refuse, Store, Format,
         ReadParinit, EndOfParinit, getopt, ReadOperands, EndOfInput, CopyNewline, BeginLines,
         ReadCharacter, ReadLine, EndLines, LinesFail, LinesGoWrong, FormatParagraph, NoLines, parcleanup,
         Ended
<1>10. ReadTyped /\ LinesTyped /\ OutTyped => Typed'
  BY <1>27 DEF Typed
<1> HIDE DEF ReadTyped, LinesTyped, OutTyped
<1> USE DEF Succeeds, Fails, FailsAnyway, Crashes, Reported, Unreported, Goto, front, reading, paragraph
<1>11. CASE ReadParinit
  <2>1. LinesSame /\ stdout' = <<>>
    BY <1>11 DEF ReadParinit, Typed
  <2>2. ReadTyped
    <3>1. CASE settings' = parseopt(Head(env)) /\ env' = Tail(env) /\ Accepted(Head(env))
      <4>1. env # <<>> /\ given' = given /\ args' = args
        BY <1>11 DEF ReadParinit
      <4>2. Head(env) \in PARINITWords /\ Tail(env) \in Seq(PARINITWords)
        BY <4>1 DEF Typed
      <4>3. settings' \in Settings
        BY <3>1, <4>2, ParseoptSets DEF Typed
      <4> QED BY <3>1, <4>1, <4>2, <4>3 DEF Typed, ReadTyped
    <3>2. CASE ReadSame
      BY <3>2, <1>1
    <3>3. CASE env' = Tail(env) /\ settings' = settings
      <4>1. env # <<>> /\ given' = given /\ args' = args
        BY <1>11 DEF ReadParinit
      <4>2. Tail(env) \in Seq(PARINITWords)
        BY <4>1 DEF Typed
      <4> QED BY <3>3, <4>1, <4>2 DEF Typed, ReadTyped
    <3> QED BY <3>1, <3>2, <3>3, <1>11 DEF ReadParinit, Refuse
  <2> QED BY <2>1, <2>2, <1>2, <1>4, <1>10
<1>12. CASE EndOfParinit
  BY <1>12, <1>1, <1>2, <1>3, <1>10 DEF EndOfParinit
<1>13. CASE getopt
  <2> DEFINE i == Min(Options)
             arg == args[i]
  <2>1. Options # {} /\ pc = "getopt" /\ UNCHANGED <<given, env, stdin, cbuf, pbuf, nullat, inlines, held>>
    BY <1>13 DEF getopt
  <2>2. i \in 1 .. Len(args) /\ IsOption(arg) /\ arg \in Arguments
    BY <2>1, FirstOption DEF Typed
  <2>3. LinesTyped
    BY <2>1, <1>2
  <2>4. CASE settings' = Set(arg) /\ args' = RemoveAt(args, i) /\ arg.letter \notin {"v", "?"} /\ stdout' = stdout
    <3>1. args' \in Seq(Arguments)
      BY <2>2, <2>4, RemoveAtProperties DEF Typed
    <3>2. settings' \in Settings
      BY <2>2, <2>4, SetSets DEF Typed
    <3>3. OutTyped
      BY <2>1, <2>4, <1>4 DEF Typed
    <3>4. ReadTyped
      BY <3>1, <3>2, <2>1 DEF Typed, ReadTyped
    <3> QED BY <2>3, <3>3, <3>4, <1>10
  <2>5. CASE ReadSame /\ Later /\ stdout' = stdout
    BY <2>3, <2>5, <1>1, <1>3, <1>10
  <2>6. CASE ReadSame /\ Later /\ stdout' = Append(stdout, [is |-> "version"])
    <3>1. [is |-> "version"] \in Items(settings)
      BY DEF Items
    <3>2. OutTyped
      BY <2>6, <3>1, PrintedNext DEF Typed, OutTyped
    <3> QED BY <2>3, <2>6, <3>2, <1>1, <1>10
  <2>7. \/ settings' = Set(arg) /\ args' = RemoveAt(args, i) /\ arg.letter \notin {"v", "?"} /\ stdout' = stdout
        \/ ReadSame /\ Later /\ stdout' = stdout
        \/ ReadSame /\ Later /\ stdout' = Append(stdout, [is |-> "version"])
    BY <1>13 DEF getopt
  <2> QED BY <2>4, <2>5, <2>6, <2>7
<1>14. CASE ReadOperands
  <2>1. pc = "getopt" /\ UNCHANGED <<given, env, args, stdin, cbuf, pbuf, nullat, inlines, stdout>>
    BY <1>14 DEF ReadOperands
  <2>2. settings' \in Settings
    BY <1>14, OperandsSet DEF ReadOperands, Typed
  <2>3. ReadTyped
    BY <2>1, <2>2 DEF Typed, ReadTyped
  <2>4. OutTyped
    BY <2>1, <1>4 DEF Typed
  <2> QED BY <2>1, <2>3, <2>4, <1>2, <1>10
<1>15. CASE EndOfInput
  BY <1>15, <1>1, <1>2, <1>3, <1>10 DEF EndOfInput
<1>16. CASE CopyNewline
  <2>1. ReadSame /\ stdin' = Tail(stdin) /\ UNCHANGED <<cbuf, pbuf, nullat, inlines>> /\ getchar = "\n" /\ Later
    BY <1>16 DEF CopyNewline
  <2>2. LinesTyped
    BY <2>1, <1>8, <1>9 DEF Typed, LinesTyped
  <2>3. [is |-> "newline"] \in Items(settings)
    BY DEF Items
  <2>4. OutTyped
    BY <1>16, <2>1, <2>3, PrintedNext DEF CopyNewline, Typed, OutTyped
  <2> QED BY <2>1, <2>2, <2>4, <1>1, <1>10
<1>17. CASE BeginLines
  <2>1. ReadSame /\ stdout' = stdout /\ Later /\ UNCHANGED <<stdin, inlines>> /\ cbuf' = <<>>
        /\ pbuf' = <<>> /\ nullat' = Unset
    BY <1>17 DEF BeginLines
  <2>2. LinesTyped
    BY <2>1, <1>7 DEF Typed, LinesTyped
  <2> QED BY <2>1, <2>2, <1>1, <1>3, <1>10
<1>18. CASE ReadCharacter
  <2>1. ReadSame /\ stdout' = stdout /\ pc' = pc /\ UNCHANGED <<pbuf, nullat, inlines>> /\ ~AtEndOfLine
        /\ (cbuf' = Append(cbuf, Head(stdin)) \/ cbuf' = cbuf) /\ stdin' = Tail(stdin)
    BY <1>18 DEF ReadCharacter
  <2>2. LinesTyped
    BY <2>1, <1>5, <1>8, <1>9 DEF Typed, LinesTyped
  <2> QED BY <2>1, <2>2, <1>1, <1>3, <1>10
<1>19. CASE ReadLine
  <2>1. ReadSame /\ stdout' = stdout /\ pc' = pc /\ UNCHANGED <<inlines>>
        /\ cbuf' = <<>> /\ stdin' = IF stdin = <<>> THEN <<>> ELSE Tail(stdin)
    BY <1>19 DEF ReadLine
  <2>2. \/ pbuf' = Append(pbuf, cbuf) /\ nullat' = nullat
        \/ pbuf' = pbuf /\ nullat' = IF nullat = Unset THEN Len(pbuf) ELSE nullat
        \/ pbuf' = pbuf /\ nullat' = nullat
    BY <1>19 DEF ReadLine, Store
  <2>3. stdin' \in Line
    BY <2>1, <1>7, <1>8
  <2>4. Append(pbuf, cbuf) \in Text /\ Len(Append(pbuf, cbuf)) = Len(pbuf) + 1 /\ Len(pbuf) \in Nat
    BY <1>6 DEF Typed, Text
  <2>7. pbuf \in Text /\ (nullat = Unset \/ nullat \in 0 .. Len(pbuf)) /\ Unset \in Int
    BY DEF Typed, Unset
  <2>5. pbuf' \in Text /\ (nullat' = Unset \/ nullat' \in 0 .. Len(pbuf'))
    <3> HIDE DEF Unset, Text
    <3>1. CASE pbuf' = Append(pbuf, cbuf) /\ nullat' = nullat
      BY <3>1, <2>4, <2>7
    <3>2. CASE pbuf' = pbuf /\ nullat' = IF nullat = Unset THEN Len(pbuf) ELSE nullat
      BY <3>2, <2>4, <2>7
    <3>3. CASE pbuf' = pbuf /\ nullat' = nullat
      BY <3>3, <2>7
    <3> QED BY <3>1, <3>2, <3>3, <2>2
  <2>6. LinesTyped
    BY <2>1, <2>3, <2>5, <1>7 DEF Typed, LinesTyped
  <2> QED BY <2>1, <2>6, <1>1, <1>3, <1>10
<1>20. CASE EndLines
  <2>1. ReadSame /\ stdout' = stdout /\ Later /\ UNCHANGED <<stdin, cbuf, pbuf, nullat>>
        /\ inlines' = Returned
    BY <1>20 DEF EndLines
  <2>2. Returned \in Text
    BY DEF Returned, Typed, Text
  <2>3. LinesTyped
    BY <2>1, <2>2 DEF Typed, LinesTyped
  <2> QED BY <2>1, <2>3, <1>1, <1>3, <1>10
<1>21. CASE LinesFail
  BY <1>21, <1>1, <1>2, <1>3, <1>10 DEF LinesFail
<1>26. CASE LinesGoWrong
  BY <1>26, <1>1, <1>2, <1>3, <1>10 DEF LinesGoWrong
<1>22. CASE FormatParagraph
  <2> DEFINE opt == setdefaults(inlines, settings)
  <2>1. ReadSame /\ LinesSame /\ Later /\ inlines # <<>>
        /\ (stdout' = stdout \/ stdout' = Append(stdout, Formatted(opt)))
    BY <1>22 DEF FormatParagraph, Format
  <2>2. Formatted(opt) \in Items(settings)
    BY <2>1 DEF Formatted, Items, Typed
  <2>3. OutTyped
    <3>1. CASE stdout' = stdout
      BY <2>1, <3>1, <1>3
    <3>2. CASE stdout' = Append(stdout, Formatted(opt))
      BY <2>1, <2>2, <3>2, PrintedNext DEF Typed, OutTyped
    <3> QED BY <2>1, <3>1, <3>2
  <2> QED BY <2>1, <2>3, <1>1, <1>2, <1>10
<1>23. CASE NoLines
  BY <1>23, <1>1, <1>2, <1>3, <1>10 DEF NoLines
<1>24. CASE parcleanup
  BY <1>24, <1>1, <1>2, <1>3, <1>10 DEF parcleanup
<1>25. CASE Ended \/ UNCHANGED vars
  BY <1>25, <1>1, <1>2, <1>3, <1>10 DEF Ended, vars
<1> QED
  BY <1>11, <1>12, <1>13, <1>14, <1>15, <1>16, <1>17, <1>18, <1>19, <1>20, <1>21, <1>22, <1>23,
     <1>24, <1>25, <1>26 DEF Next

\* Every paragraph is formatted with the values that were set and the documented
\* defaults for the others, taken from its own lines.
THEOREM DocumentedDefaults == Spec => []DefaultsAsDocumented
<1>1. Typed => DefaultsAsDocumented
  <2> SUFFICES ASSUME Typed, NEW i \in DOMAIN stdout, stdout[i].is = "paragraph"
               PROVE  Documented(stdout[i].lines, stdout[i].opt, settings)
    BY DEF DefaultsAsDocumented, Documented
  <2>1. stdout[i] \in Items(settings)
    <3> DEFINE I == Items(settings)
    <3>1. stdout \in Seq(I)
      BY DEF Typed
    <3> HIDE DEF I
    <3>2. stdout[i] \in I
      BY <3>1
    <3> QED BY <3>2 DEF I
  <2>2. PICK lines \in Text \ {<<>>} :
            stdout[i] = [is |-> "paragraph", lines |-> lines, opt |-> setdefaults(lines, settings)]
    BY <2>1 DEF Items
  <2>3. stdout[i].lines = lines /\ stdout[i].opt = setdefaults(lines, settings)
    BY <2>2
  <2>4. Documented(lines, setdefaults(lines, settings), settings)
    BY DefaultsAreDocumented DEF Typed
  <2> QED BY <2>3, <2>4
<1> QED BY <1>1, TypedInit, TypedStep, PTL DEF Spec

---------------------------------------------------------------------------
(* The variables are set by what sets them last. *)

\* Word i sets variable x, as s has it, and none up to n sets it later.
SetBy(words, n, s, x, i) ==
    /\ WordSets(words[i])[1] = x /\ WordSets(words[i])[2] = s[x]
    /\ \A j \in i + 1 .. n : WordSets(words[j])[1] # x

SetUpTo(words, n, s) ==
    \A x \in Variables :
        \/ s[x] = Unset /\ \A i \in 1 .. n : WordSets(words[i])[1] # x
        \/ \E i \in 1 .. n : SetBy(words, n, s, x, i)

\* What a word does to the variables.
With(s, word) ==
    IF WordSets(word)[1] \in Variables THEN [s EXCEPT ![WordSets(word)[1]] = WordSets(word)[2]] ELSE s

LEMMA NextWord ==
    ASSUME NEW words, NEW n \in Nat, NEW s \in Settings, SetUpTo(words, n, s)
    PROVE  SetUpTo(words, n + 1, With(s, words[n + 1]))
<1> DEFINE t == With(s, words[n + 1])
           y == WordSets(words[n + 1])[1]
           v == WordSets(words[n + 1])[2]
<1>1. \A x \in Variables : t[x] = IF x = y THEN v ELSE s[x]
  BY DEF With, Settings
<1> HIDE DEF t
<1> SUFFICES ASSUME NEW x \in Variables
             PROVE  \/ t[x] = Unset /\ \A i \in 1 .. n + 1 : WordSets(words[i])[1] # x
                    \/ \E i \in 1 .. n + 1 : SetBy(words, n + 1, t, x, i)
  BY DEF SetUpTo, t
<1>2. CASE x = y
  <2>1. SetBy(words, n + 1, t, x, n + 1)
    BY <1>1, <1>2 DEF SetBy
  <2> QED BY <2>1
<1>3. CASE x # y /\ s[x] = Unset /\ \A i \in 1 .. n : WordSets(words[i])[1] # x
  BY <1>1, <1>3
<1>4. CASE x # y /\ \E i \in 1 .. n : SetBy(words, n, s, x, i)
  <2>1. PICK i \in 1 .. n : SetBy(words, n, s, x, i)
    BY <1>4
  <2>2. \A j \in i + 1 .. n + 1 : WordSets(words[j])[1] # x
    BY <2>1, <1>4 DEF SetBy
  <2>3. SetBy(words, n + 1, t, x, i)
    BY <2>1, <2>2, <1>1, <1>4 DEF SetBy
  <2> QED BY <2>3
<1> QED BY <1>2, <1>3, <1>4 DEF SetUpTo

LEMMA NumberIsNot == \A n \in Int : strtoudec(n) => n # NoNumber
BY DEF strtoudec, NoNumber

LEMMA ParseoptIs ==
    ASSUME settings \in Settings, NEW word \in PARINITWords, Accepted(word)
    PROVE  parseopt(word) = With(settings, word)
<1> DEFINE n == IF word.number = NoNumber THEN 1 ELSE word.number
<1>1. word.number \in Int /\ word.letter \in {"version", "", "w", "p", "s", "h", "l", "m", "other"}
  BY DEF PARINITWords
<1>2. parseopt(word) = CASE word.letter = "" -> [settings EXCEPT ![OfNumber(n)] = n]
                         [] word.letter \in DOMAIN Variable -> [settings EXCEPT ![Variable[word.letter]] = n]
                         [] OTHER -> settings
  BY DEF parseopt
<1>3. word.letter \in {"", "w", "p", "s"} => n = word.number
  <2> SUFFICES ASSUME word.letter \in {"", "w", "p", "s"} PROVE n = word.number
    OBVIOUS
  <2>1. strtoudec(word.number)
    <3>1. CASE word.letter = ""
      BY <3>1 DEF Accepted
    <3>2. CASE word.letter \in {"w", "p", "s"}
      BY <3>2 DEF Accepted
    <3> QED BY <3>1, <3>2
  <2>2. word.number # NoNumber
    BY <2>1, <1>1, NumberIsNot
  <2> QED BY <2>2
<1>4. word.letter # "version"
  BY DEF Accepted
<1> HIDE DEF n
<1>5. CASE word.letter = ""
  <2>1. parseopt(word) = [settings EXCEPT ![OfNumber(n)] = n]
    BY <1>2, <1>5 DEF Variable
  <2>2. WordSets(word) = <<OfNumber(n), n>>
    BY <1>3, <1>5 DEF WordSets
  <2>3. OfNumber(n) \in Variables
    BY DEF OfNumber, Variables
  <2> QED BY <2>1, <2>2, <2>3 DEF With
<1>6. CASE word.letter \in DOMAIN Variable
  <2>1. parseopt(word) = [settings EXCEPT ![Variable[word.letter]] = n]
    BY <1>2, <1>6 DEF Variable
  <2>2. WordSets(word) = <<Variable[word.letter], n>>
    <3>1. CASE word.letter \in {"w", "p", "s"}
      BY <1>3, <3>1 DEF WordSets
    <3>2. CASE word.letter \in {"h", "l", "m"}
      BY <3>2 DEF WordSets, n
    <3> QED BY <1>6, <3>1, <3>2 DEF Variable
  <2>3. Variable[word.letter] \in Variables
    BY <1>6 DEF Variable, Variables
  <2> QED BY <2>1, <2>2, <2>3 DEF With
<1>7. CASE word.letter = "other"
  <2>1. parseopt(word) = settings
    BY <1>2, <1>7 DEF Variable
  <2>2. WordSets(word)[1] = "nothing"
    BY <1>7 DEF WordSets
  <2> QED BY <2>1, <2>2 DEF With, Variables
<1> QED BY <1>1, <1>4, <1>5, <1>6, <1>7 DEF Variable

LEMMA SetIs ==
    ASSUME settings \in Settings, NEW arg \in Arguments,
           IsOption(arg), arg.letter \notin {"v", "?"}
    PROVE  Set(arg) = With(settings, arg)
<1>1. arg.letter \in {"w", "p", "s", "h", "l", "L", "m", "M", "K", "N"}
  BY DEF Arguments, IsOption
<1>2. arg.letter \in {"l", "m"} => arg.number = NoNumber
  BY DEF Arguments
<1>3. CASE arg.letter \in {"w", "p", "s"}
  <2>1. Set(arg) = [settings EXCEPT ![Variable[arg.letter]] = arg.number]
    BY <1>3 DEF Set
  <2>2. WordSets(arg) = <<Variable[arg.letter], arg.number>>
    BY <1>3 DEF WordSets
  <2>3. Variable[arg.letter] \in Variables
    BY <1>3 DEF Variable, Variables
  <2> QED BY <2>1, <2>2, <2>3 DEF With
<1>4. CASE arg.letter \in {"h", "l", "m"}
  <2> DEFINE n == IF arg.number = NoNumber THEN 1 ELSE arg.number
  <2>1. Set(arg) = [settings EXCEPT ![Variable[arg.letter]] = n]
    BY <1>2, <1>4 DEF Set, Variable
  <2>2. WordSets(arg) = <<Variable[arg.letter], n>>
    BY <1>4 DEF WordSets
  <2>3. Variable[arg.letter] \in Variables
    BY <1>4 DEF Variable, Variables
  <2> HIDE DEF n
  <2> QED BY <2>1, <2>2, <2>3 DEF With
<1>5. CASE arg.letter = "L"
  BY <1>5 DEF Set, WordSets, With, Variables
<1>6. CASE arg.letter = "M"
  BY <1>6 DEF Set, WordSets, With, Variables
<1>7. CASE arg.letter = "K"
  BY <1>7 DEF Set, WordSets, With, Variables
<1>8. CASE arg.letter = "N"
  BY <1>8 DEF Set, WordSets, With, Variables
<1> QED BY <1>1, <1>3, <1>4, <1>5, <1>6, <1>7, <1>8

\* t is what is left of s.
RestOf(s, t) ==
    /\ Len(t) <= Len(s)
    /\ \A i \in 1 .. Len(t) : t[i] = s[Len(s) - Len(t) + i]

AllOptions == \A i \in DOMAIN given.args : IsOption(given.args[i])
WordsGiven == given.env \o given.args

\* The words are taken one after the other, first those of PARINIT, and the variables
\* are as the words taken set them, as long as none was passed over.
Reading ==
    AllOptions /\ unreported = 0 =>
        /\ pc = "parinit" =>
               /\ args = given.args /\ RestOf(given.env, env)
               /\ SetUpTo(WordsGiven, Len(given.env) - Len(env), settings)
        /\ pc = "getopt" =>
               /\ RestOf(given.args, args)
               /\ SetUpTo(WordsGiven, Len(WordsGiven) - Len(args), settings)
        /\ OptionsRead => SetUpTo(WordsGiven, Len(WordsGiven), settings)

LEMMA GivenIs ==
    ASSUME given \in Cases
    PROVE  /\ given.env \in Seq(PARINITWords) /\ given.args \in Seq(Arguments)
           /\ Len(WordsGiven) = Len(given.env) + Len(given.args)
           /\ \A i \in 1 .. Len(given.env) : WordsGiven[i] = given.env[i]
           /\ \A i \in 1 .. Len(given.args) : WordsGiven[Len(given.env) + i] = given.args[i]
<1> DEFINE W == PARINITWords \cup Arguments
           e == given.env
           a == given.args
<1>1. e \in Seq(PARINITWords) /\ a \in Seq(Arguments)
  BY CasesAssumption
<1>2. e \in Seq(W) /\ a \in Seq(W)
  BY <1>1
<1>3. WordsGiven = e \o a
  BY DEF WordsGiven
<1> HIDE DEF W, e, a
<1>4. /\ Len(e \o a) = Len(e) + Len(a)
      /\ \A i \in 1 .. Len(e) : (e \o a)[i] = e[i]
      /\ \A i \in 1 .. Len(a) : (e \o a)[Len(e) + i] = a[i]
  BY <1>2
<1> QED BY <1>1, <1>3, <1>4 DEF e, a

LEMMA ReadingInit == Init => Reading
<1> SUFFICES ASSUME Init, AllOptions PROVE Reading
  BY DEF Reading
<1>1. given.env \in Seq(PARINITWords)
  BY GivenIs DEF Init
<1>2. SetUpTo(WordsGiven, 0, settings)
  BY DEF SetUpTo, Init
<1>3. Len(given.env) - Len(given.env) = 0
  BY <1>1
<1>4. RestOf(given.env, given.env)
  BY <1>1 DEF RestOf
<1> QED BY <1>2, <1>3, <1>4 DEF Reading, Init, OptionsRead

\* The first of what is left is the next word, and after it less is left.
LEMMA RestNext ==
    ASSUME NEW S, NEW s \in Seq(S), NEW t \in Seq(S), RestOf(s, t), t # <<>>
    PROVE  /\ t[1] = s[Len(s) - Len(t) + 1]
           /\ Len(s) - Len(t) + 1 \in 1 .. Len(s)
           /\ Len(Tail(t)) = Len(t) - 1
           /\ RestOf(s, Tail(t))
<1>1. Len(t) \in Nat \ {0} /\ Len(s) \in Nat /\ Len(Tail(t)) = Len(t) - 1
  OBVIOUS
<1>2. \A i \in 1 .. Len(t) - 1 : Tail(t)[i] = t[i + 1]
  OBVIOUS
<1>3. \A i \in 1 .. Len(t) - 1 : t[i + 1] = s[Len(s) - (Len(t) - 1) + i]
  <2> SUFFICES ASSUME NEW i \in 1 .. Len(t) - 1
               PROVE  t[i + 1] = s[Len(s) - (Len(t) - 1) + i]
    OBVIOUS
  <2>1. i + 1 \in 1 .. Len(t) /\ Len(s) - Len(t) + (i + 1) = Len(s) - (Len(t) - 1) + i
    BY <1>1
  <2> QED BY <2>1 DEF RestOf
<1>4. RestOf(s, Tail(t))
  BY <1>1, <1>2, <1>3 DEF RestOf
<1> QED BY <1>1, <1>4 DEF RestOf

\* An error that goes without a message is counted.
LEMMA UnreportedStays ==
    ASSUME unreported \in Nat, [Next]_vars, unreported' = 0
    PROVE  unreported = 0 /\ ~Unreported
<1>1. UNCHANGED unreported \/ Unreported
  BY DEF Next, vars, errors, Succeeds, Fails, FailsAnyway, Reported, Refuse, Store, Format,
         ReadParinit, EndOfParinit, getopt, ReadOperands, EndOfInput, CopyNewline, BeginLines,
         ReadCharacter, ReadLine, EndLines, LinesFail, LinesGoWrong, FormatParagraph, NoLines, parcleanup,
         Ended
<1>2. Unreported => unreported' = unreported + 1
  BY DEF Unreported
<1> QED BY <1>1, <1>2

LEMMA ReadingStep == Typed /\ Reading /\ [Next]_vars => Reading'
<1> SUFFICES ASSUME Typed, Reading, [Next]_vars PROVE Reading'
  OBVIOUS
<1>1. given' = given
  BY DEF Next, vars, ReadParinit, EndOfParinit, getopt, ReadOperands, EndOfInput, CopyNewline, BeginLines,
         ReadCharacter, ReadLine, EndLines, LinesFail, LinesGoWrong, FormatParagraph, NoLines, parcleanup,
         Ended
<1>15. CASE unreported' # 0
  BY <1>15 DEF Reading
<1>2. CASE ~AllOptions
  BY <1>1, <1>2 DEF Reading, AllOptions
<1> DEFINE e == given.env
           a == given.args
           W == WordsGiven
<1>3. /\ e \in Seq(PARINITWords) /\ a \in Seq(Arguments)
      /\ Len(W) = Len(e) + Len(a)
      /\ \A i \in 1 .. Len(e) : W[i] = e[i]
      /\ \A i \in 1 .. Len(a) : W[Len(e) + i] = a[i]
  BY GivenIs DEF Typed
<1>4. /\ Len(e) \in Nat /\ Len(a) \in Nat /\ Len(env) \in Nat /\ Len(args) \in Nat
      /\ env \in Seq(PARINITWords) /\ args \in Seq(Arguments) /\ settings \in Settings
  BY <1>3 DEF Typed
<1>5. WordsGiven' = W
  BY <1>1 DEF WordsGiven
<1> SUFFICES ASSUME AllOptions, unreported' = 0
             PROVE  /\ pc' = "parinit" =>
                           /\ args' = a /\ RestOf(e, env')
                           /\ SetUpTo(W, Len(e) - Len(env'), settings')
                    /\ pc' = "getopt" =>
                           /\ RestOf(a, args')
                           /\ SetUpTo(W, Len(W) - Len(args'), settings')
                    /\ pc' \in {"skip", "lines", "format"} => SetUpTo(W, Len(W), settings')
  BY <1>1, <1>2, <1>5, <1>15 DEF Reading, OptionsRead
<1>16. unreported = 0 /\ ~Unreported
  BY UnreportedStays DEF Typed
<1> HIDE DEF e, a, W
<1>6. /\ pc = "parinit" =>
             /\ args = a /\ RestOf(e, env)
             /\ SetUpTo(W, Len(e) - Len(env), settings)
      /\ pc = "getopt" =>
             /\ RestOf(a, args)
             /\ SetUpTo(W, Len(W) - Len(args), settings)
      /\ pc \in {"skip", "lines", "format"} => SetUpTo(W, Len(W), settings)
  BY <1>16 DEF Reading, OptionsRead, e, a, W
<1> USE DEF Succeeds, Fails, FailsAnyway, Crashes, Goto, front, paragraph
<1>7. CASE ReadParinit
  <2>1. pc = "parinit" /\ env # <<>>
    BY <1>7 DEF ReadParinit
  <2>2. CASE UNCHANGED <<env, args, settings>> /\ pc' \in {"parinit", "cleanup", "exited"}
    BY <2>1, <2>2, <1>6
  <2>3. CASE /\ Accepted(Head(env)) /\ settings' = parseopt(Head(env)) /\ env' = Tail(env)
             /\ args' = args /\ pc' = "parinit"
    <3> DEFINE n == Len(e) - Len(env)
    <3>1. RestOf(e, env) /\ SetUpTo(W, n, settings) /\ args = a
      BY <2>1, <1>6
    <3>2. /\ env[1] = e[n + 1] /\ n + 1 \in 1 .. Len(e) /\ Len(Tail(env)) = Len(env) - 1
          /\ RestOf(e, Tail(env))
      BY <3>1, <2>1, <1>3, <1>4, RestNext
    <3>3. Head(env) = W[n + 1] /\ Head(env) \in PARINITWords
      BY <3>2, <1>3, <1>4, <2>1
    <3>4. settings' = With(settings, W[n + 1])
      BY <3>3, <2>3, <1>4, ParseoptIs
    <3>5. n \in Nat /\ Len(e) - Len(env') = n + 1
      <4>1. Len(env') = Len(env) - 1
        BY <3>2, <2>3
      <4>2. Len(env) <= Len(e)
        BY <3>1 DEF RestOf
      <4> QED BY <4>1, <4>2, <1>4
    <3> HIDE DEF n
    <3>6. SetUpTo(W, n + 1, settings')
      BY <3>1, <3>4, <3>5, <1>4, NextWord
    <3> QED BY <3>1, <3>2, <3>5, <3>6, <2>3
  <2>4. \/ UNCHANGED <<env, args, settings>> /\ pc' \in {"parinit", "cleanup", "exited"}
        \/ /\ Accepted(Head(env)) /\ settings' = parseopt(Head(env)) /\ env' = Tail(env)
           /\ args' = args /\ pc' = "parinit"
    BY <1>7, <2>1, <1>16 DEF ReadParinit, Refuse
  <2> QED BY <2>2, <2>3, <2>4
<1>8. CASE EndOfParinit
  <2>1. pc = "parinit" /\ env = <<>> /\ UNCHANGED <<args, settings>> /\ pc' = "getopt"
    BY <1>8 DEF EndOfParinit
  <2>2. args = a /\ SetUpTo(W, Len(e) - Len(env), settings)
    BY <2>1, <1>6
  <2>3. Len(e) - Len(env) = Len(W) - Len(args')
    BY <2>1, <2>2, <1>3, <1>4
  <2>4. RestOf(a, a)
    BY <1>3 DEF RestOf
  <2>5. SetUpTo(W, Len(W) - Len(args'), settings') /\ RestOf(a, args')
    BY <2>1, <2>2, <2>3, <2>4
  <2> QED BY <2>1, <2>5
<1>9. CASE getopt
  <2> DEFINE i == Min(Options)
             arg == args[i]
  <2>1. pc = "getopt" /\ Options # {}
    BY <1>9 DEF getopt
  <2>2. CASE UNCHANGED <<args, settings>> /\ pc' \in {"cleanup", "exited"}
    BY <2>2
  <2>3. CASE /\ arg.letter \notin {"v", "?"} /\ settings' = Set(arg) /\ args' = RemoveAt(args, i)
             /\ pc' = "getopt"
    <3> DEFINE n == Len(W) - Len(args)
    <3>1. RestOf(a, args) /\ SetUpTo(W, n, settings)
      BY <2>1, <1>6
    <3>2. i \in 1 .. Len(args) /\ IsOption(arg) /\ arg \in Arguments /\ \A k \in Options : i <= k
      BY <2>1, <1>4, FirstOption
    <3>3. args # <<>>
      BY <3>2, <1>4
    <3>4. /\ args[1] = a[Len(a) - Len(args) + 1] /\ Len(a) - Len(args) + 1 \in 1 .. Len(a)
          /\ Len(Tail(args)) = Len(args) - 1
          /\ RestOf(a, Tail(args))
      BY <3>1, <3>3, <1>3, <1>4, RestNext
    <3>5. IsOption(args[1])
      <4>1. \A k \in 1 .. Len(a) : IsOption(a[k])
        BY <1>3 DEF AllOptions, a
      <4> QED BY <3>4, <4>1
    <3>6. 1 \in Options
      BY <3>3, <3>5, <1>4 DEF Options
    <3>7. i = 1
      BY <3>2, <3>6, <1>4
    <3> HIDE DEF i
    <3>8. RemoveAt(args, 1) = Tail(args)
      <4>1. /\ RemoveAt(args, 1) \in Seq(Arguments)
            /\ Len(RemoveAt(args, 1)) = Len(args) - 1
            /\ \A k \in 1 .. Len(args) - 1 : RemoveAt(args, 1)[k] = IF k < 1 THEN args[k] ELSE args[k + 1]
        BY <3>2, <3>7, <1>4, RemoveAtProperties
      <4>2. \A k \in 1 .. Len(args) - 1 : RemoveAt(args, 1)[k] = Tail(args)[k]
        BY <4>1, <3>3, <1>4
      <4> QED BY <4>1, <4>2, <3>3, <1>4
    <3>9. args' = Tail(args)
      BY <2>3, <3>7, <3>8
    <3>10. arg = W[n + 1]
      <4>1. n + 1 = Len(e) + (Len(a) - Len(args) + 1)
        BY <1>3, <1>4
      <4>2. W[Len(e) + (Len(a) - Len(args) + 1)] = a[Len(a) - Len(args) + 1]
        BY <3>4, <1>3
      <4> QED BY <4>1, <4>2, <3>4, <3>7
    <3>11. settings' = With(settings, W[n + 1])
      BY <2>3, <3>2, <3>10, <1>4, SetIs
    <3>12. n \in Nat /\ Len(W) - Len(args') = n + 1
      <4>1. Len(args') = Len(args) - 1
        BY <3>4, <3>9
      <4>2. Len(args) <= Len(a)
        BY <3>1 DEF RestOf
      <4> QED BY <4>1, <4>2, <1>3, <1>4
    <3> HIDE DEF n
    <3>13. SetUpTo(W, n + 1, settings')
      BY <3>1, <3>11, <3>12, <1>4, NextWord
    <3> QED BY <2>3, <3>4, <3>9, <3>12, <3>13
  <2>4. \/ UNCHANGED <<args, settings>> /\ pc' \in {"cleanup", "exited"}
        \/ /\ arg.letter \notin {"v", "?"} /\ settings' = Set(arg) /\ args' = RemoveAt(args, i)
           /\ pc' = "getopt"
    BY <1>9, <2>1 DEF getopt
  <2> QED BY <2>2, <2>3, <2>4
<1>10. CASE ReadOperands
  <2>1. pc = "getopt" /\ Options = {} /\ pc' = "skip" /\ (args = <<>> => settings' = settings)
    BY <1>10 DEF ReadOperands
  <2>2. RestOf(a, args) /\ SetUpTo(W, Len(W) - Len(args), settings)
    BY <2>1, <1>6
  <2>3. args = <<>>
    <3> SUFFICES ASSUME args # <<>> PROVE FALSE
      OBVIOUS
    <3>1. args[1] = a[Len(a) - Len(args) + 1] /\ Len(a) - Len(args) + 1 \in 1 .. Len(a)
      BY <2>2, <1>3, <1>4, RestNext
    <3>2. \A k \in 1 .. Len(a) : IsOption(a[k])
      BY <1>3 DEF AllOptions, a
    <3>3. 1 \in Options
      BY <3>1, <3>2, <1>4 DEF Options
    <3> QED BY <3>3, <2>1
  <2>4. Len(W) - Len(args) = Len(W)
    BY <2>3, <1>3, <1>4
  <2> QED BY <2>1, <2>2, <2>3, <2>4
<1>11. CASE /\ settings' = settings /\ pc' \in {"skip", "lines", "format", "cleanup", "exited"}
            /\ pc \in {"skip", "lines", "format", "cleanup", "exited"}
            /\ pc' \in {"skip", "lines", "format"} => pc \in {"skip", "lines", "format"}
  BY <1>11, <1>6
<1>12. CASE \/ EndOfInput \/ CopyNewline \/ BeginLines \/ ReadCharacter \/ ReadLine \/ EndLines
            \/ LinesFail \/ LinesGoWrong
  BY <1>12, <1>11 DEF EndOfInput, CopyNewline, BeginLines, ReadCharacter, ReadLine, EndLines, LinesFail,
     LinesGoWrong
<1>13. CASE FormatParagraph \/ NoLines \/ parcleanup
  BY <1>13, <1>11 DEF FormatParagraph, Format, NoLines, parcleanup
<1>14. CASE Ended \/ UNCHANGED vars
  BY <1>14, <1>6 DEF Ended, vars
<1> QED BY <1>7, <1>8, <1>9, <1>10, <1>12, <1>13, <1>14 DEF Next

\* Without operands every variable has the value it was given last, the words of PARINIT
\* coming before the command line, or none if it was given none, as long as no error went
\* without a message.
THEOREM LastOptionCounts == Spec => []OptionsSetLast
<1>1. Typed /\ Reading => OptionsSetLast
  <2> SUFFICES ASSUME Typed, Reading, OptionsRead, unreported = 0, AllOptions, NEW x \in Variables
               PROVE  settings[x] = LastValue(x)
    BY DEF OptionsSetLast, AsSetLast, AllOptions
  <2> DEFINE W == WordsGiven
             setters == {i \in DOMAIN W : WordSets(W[i])[1] = x}
             c == CHOOSE i \in setters : \A j \in setters : j <= i
  <2>1. LastValue(x) = IF setters = {} THEN Unset ELSE WordSets(W[c])[2]
    BY DEF LastValue, WordsGiven
  <2>2. SetUpTo(W, Len(W), settings)
    BY DEF Reading
  <2>3. DOMAIN W = 1 .. Len(W) /\ Len(W) \in Nat
    <3> DEFINE A == PARINITWords \cup Arguments
    <3>1. given.env \in Seq(A) /\ given.args \in Seq(A)
      BY GivenIs DEF Typed
    <3> HIDE DEF A
    <3>2. W \in Seq(A)
      BY <3>1 DEF WordsGiven
    <3> HIDE DEF W
    <3> QED BY <3>2
  <2> HIDE DEF W
  <2>4. CASE settings[x] = Unset /\ \A i \in 1 .. Len(W) : WordSets(W[i])[1] # x
    <3>1. setters = {}
      BY <2>3, <2>4
    <3> QED BY <2>1, <2>4, <3>1
  <2>5. ASSUME NEW i \in 1 .. Len(W), SetBy(W, Len(W), settings, x, i)
        PROVE  settings[x] = LastValue(x)
    <3>1. i \in setters /\ \A j \in setters : j <= i
      BY <2>3, <2>5 DEF SetBy
    <3>2. setters \subseteq Nat
      BY <2>3
    <3> HIDE DEF setters
    <3>3. c \in setters /\ \A j \in setters : j <= c
      BY <3>1
    <3> HIDE DEF c
    <3>4. c = i
      <4>1. c \in Nat /\ i \in Nat /\ c <= i /\ i <= c
        BY <3>1, <3>2, <3>3
      <4> QED BY <4>1
    <3>5. setters # {}
      BY <3>1
    <3> QED BY <2>1, <2>5, <3>4, <3>5 DEF SetBy
  <2> QED BY <2>2, <2>4, <2>5 DEF SetUpTo
<1> QED BY <1>1, TypedInit, TypedStep, ReadingInit, ReadingStep, PTL DEF Spec
=============================================================================
