----------------------------- MODULE ParBreaks -----------------------------
(***************************************************************************)
(* choosebreaks of par (hw2/src/reformat.c): where to break a list of      *)
(* words into lines.  A word is its index; NULL, after the last word, is   *)
(* the index after it.  The operators take the table `len`: len[i][j] is   *)
(* the length of a line of the words i to j.  Each of the three passes of  *)
(* choosebreaks, a loop over the words from the tail to the head with a    *)
(* loop over the lines that begin with the word, is a function of the word *)
(* that uses its values at later words: what they keep in their `score`.   *)
(* The second half is the policy of par.doc, as a choice among all ways to *)
(* break the words.                                                        *)
(***************************************************************************)
EXTENDS Integers, Sequences, SequencesExt

Lesser(x, y) == IF x <= y THEN x ELSE y
Greater(x, y) == IF x >= y THEN x ELSE y

\* The table for words of the given lengths, a space between each two.
LineLens(lengths) ==
    [i \in DOMAIN lengths |->
        LET len[j \in i .. Len(lengths)] ==
              IF j = i THEN lengths[i] ELSE len[j - 1] + 1 + lengths[j]
        IN  len]

\* The last words of the lines that begin with word i and have at most `most`
\* characters.
LineEnds(len, i, most) == {j \in i .. Len(len) : len[i][j] <= most}

-----------------------------------------------------------------------------
(* The three passes. *)

\* Mutant: the last line must measure up although it does not count.
LeastLenAlways(len, j, last, shortest) == shortest

\* The greatest length the shortest line from each word on can have; -1 when no
\* line can begin with it.
LongestShortest(len, L, last) ==
    LET score[i \in DOMAIN len] ==
          IF len[i][Len(len)] <= L
          THEN IF last THEN len[i][Len(len)] ELSE L
          ELSE Max({-1} \cup {Lesser(len[i][j], score[j + 1]) : j \in LineEnds(len, i, L)})
    IN  score

\* What a line that ends with word j must measure at least.
LeastLen(len, j, last, shortest) == IF j = Len(len) /\ ~last THEN 0 ELSE shortest

Candidates(len, i, most, last, shortest) ==
    {j \in LineEnds(len, i, most) : len[i][j] >= LeastLen(len, j, last, shortest)}

\* The smallest length the longest line from each word on can have, no line
\* being shorter than `shortest`; L + 1 when there is none.
ShortestLongest(len, L, last, shortest) ==
    LET score[i \in DOMAIN len] ==
          Min({L + 1} \cup {Greater(len[i][j], IF j = Len(len) THEN 0 ELSE score[j + 1]) :
                                j \in Candidates(len, i, L, last, shortest)})
    IN  score

\* What a line of the words i to j lacks of newL, if that counts.
Gap(len, i, j, last, newL) == IF j = Len(len) /\ ~last THEN 0 ELSE newL - len[i][j]
Square(x) == x * x

NoLine == [score |-> -1, nextline |-> 0, linelen |-> 0]
Better(a, b) == a.score < b.score \/ (a.score = b.score /\ a.nextline >= b.nextline)

\* The smallest sum of squares from each word on, with the line that begins it:
\* of several the longest, which the loop meets last.  -1 when there is none.
LeastSquares(len, last, shortest, newL) ==
    LET line[i \in DOMAIN len] ==
          LET Rest(j) == IF j = Len(len) THEN 0 ELSE line[j + 1].score
              lines == {[score |-> Rest(j) + Square(Gap(len, i, j, last, newL)),
                         nextline |-> j + 1,
                         linelen |-> len[i][j]] :
                            j \in {k \in Candidates(len, i, newL, last, shortest) : Rest(k) >= 0}}
          IN  IF lines = {} THEN NoLine
              ELSE CHOOSE a \in lines : \A b \in lines : Better(a, b)
    IN  line

NoBreaks == [newL |-> 0, lines |-> <<>>, impossible |-> FALSE]

\* newL and, for each word, the line it would begin.
choosebreaks(len, L, last, min) ==
    LET scores == LongestShortest(len, L, last)
        shortest == IF len = <<>> THEN L ELSE scores[1]
        newL == IF ~min THEN L
                ELSE IF len = <<>> THEN 0
                ELSE ShortestLongest(len, L, last, shortest)[1]
        lines == LeastSquares(len, last, shortest, newL)
    IN  IF \/ \E i \in DOMAIN len : scores[i] < 0
           \/ newL > L
           \/ len # <<>> /\ lines[1].score < 0
        THEN [NoBreaks EXCEPT !.impossible = TRUE]
        ELSE [newL |-> newL, lines |-> lines, impossible |-> FALSE]

-----------------------------------------------------------------------------
(* The policy of par.doc:245-265.  A way to break the words is the set of the *)
(* words that begin a line.                                                   *)

Ways(len) == {{1} \cup S : S \in SUBSET (2 .. Len(len))}

LenIn(len, way, i) == len[i][Min({j \in way : j > i} \cup {Len(len) + 1}) - 1]
Counted(way, last) == IF last THEN way ELSE way \ {Max(way)}

ShortestIn(len, way, L, last) == Min({L} \cup {LenIn(len, way, i) : i \in Counted(way, last)})
LongestIn(len, way) == Max({LenIn(len, way, i) : i \in way})
SquaresIn(len, way, last, newL) ==
    LET sum[i \in 1 .. Len(len) + 1] ==
          IF i > Len(len) THEN 0
          ELSE sum[i + 1]
                 + IF i \in Counted(way, last) THEN Square(newL - LenIn(len, way, i)) ELSE 0
    IN  sum[1]

\* Properties 1 and 2: nothing longer than L, the shortest line the longest.
Even(len, L, last) ==
    LET fit == {way \in Ways(len) : LongestIn(len, way) <= L}
        most == Max({ShortestIn(len, way, L, last) : way \in fit})
    IN  {way \in fit : ShortestIn(len, way, L, last) = most}

\* Property 3, if min is asked for; else newL is L.
PolicyL(len, L, last, min) ==
    IF min THEN Min({LongestIn(len, way) : way \in Even(len, L, last)}) ELSE L

\* Property 4, and no break at all when everything fits on one line.
Best(len, L, last, newL) ==
    LET narrow == {way \in Even(len, L, last) : LongestIn(len, way) <= newL}
        least == Min({SquaresIn(len, way, last, newL) : way \in narrow})
    IN  IF len[1][Len(len)] <= L THEN {{1}}
        ELSE {way \in narrow : SquaresIn(len, way, last, newL) = least}

\* The words that begin a line when the lines of choosebreaks are followed.
Begun(lines) ==
    LET reached[i \in DOMAIN lines] ==
          i = 1 \/ \E j \in 1 .. i - 1 : lines[j].nextline = i /\ reached[j]
    IN  {i \in DOMAIN lines : reached[i]}
=============================================================================
