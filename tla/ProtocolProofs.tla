--------------------------- MODULE ProtocolProofs ---------------------------
(***************************************************************************)
(* What Protocol's operators compute, for every line, word and number. The *)
(* recursive functions are reasoned about by induction in the form "a      *)
(* nonempty set of numbers has a least element", the set being that of the *)
(* counterexamples.                                                        *)
(***************************************************************************)
EXTENDS Protocol, FiniteSetTheorems, WellFoundedInduction, SequenceTheorems,
        TLAPS

\* A nonempty set of natural numbers has a least element.
LEMMA Least ==
    ASSUME NEW T \in SUBSET Nat, T # {}
    PROVE  \E x \in T : \A y \in T : x <= y
<1> DEFINE R == OpToRel(<, Nat)
<1>1. PICK x \in T : \A y \in T : ~(<<y, x>> \in R)
  BY NatLessThanWellFounded, WFMin
<1>2. \A y \in T : <<y, x>> \in R <=> y < x
  BY DEF OpToRel
<1> HIDE DEF R
<1>3. x \in Nat /\ \A y \in T : y \in Nat /\ ~(y < x)
  BY <1>1, <1>2
<1>4. \A y \in T : x <= y
  BY <1>3
<1> QED BY <1>4

\* A bounded one has a greatest element.
LEMMA Greatest ==
    ASSUME NEW T \in SUBSET Nat, T # {}, NEW n \in Nat, \A y \in T : y <= n
    PROVE  \E x \in T : \A y \in T : x >= y
<1> DEFINE S == {m \in Nat : \E y \in T : m = n - y}
<1>1. S # {}
  <2>1. PICK y \in T : TRUE
    OBVIOUS
  <2>2. n - y \in S
    BY <2>1
  <2> QED BY <2>2
<1>2. PICK z \in S : \A y \in S : z <= y
  <2>1. S \in SUBSET Nat
    OBVIOUS
  <2> HIDE DEF S
  <2> QED BY <1>1, <2>1, Least
<1>3. PICK x \in T : z = n - x
  BY <1>2
<1>4. \A y \in T : n - y \in S
  OBVIOUS
<1> QED BY <1>2, <1>3, <1>4

\* Min of FiniteSetsExt is the least element.
LEMMA MinIn ==
    ASSUME NEW T \in SUBSET Nat, T # {}
    PROVE  Min(T) \in T /\ \A y \in T : Min(T) <= y
<1>1. PICK x \in T : \A y \in T : x <= y
  BY Least
<1> QED BY <1>1 DEF Min

\* The same of Max.
LEMMA MaxIn ==
    ASSUME NEW T \in SUBSET Nat, T # {}, NEW n \in Nat, \A y \in T : y <= n
    PROVE  Max(T) \in T /\ \A y \in T : y <= Max(T)
<1>1. PICK x \in T : \A y \in T : x >= y
  BY Greatest
<1>2. Max(T) \in T /\ \A y \in T : Max(T) >= y
  BY <1>1 DEF Max
<1> QED BY <1>2

\* The least element of a set is known when it is seen.
LEMMA MinIs ==
    ASSUME NEW T \in SUBSET Nat, NEW x \in T, \A y \in T : x <= y
    PROVE  Min(T) = x
<1>1. Min(T) \in T /\ \A y \in T : Min(T) <= y
  BY MinIn
<1>2. x \in Nat /\ Min(T) \in Nat /\ x <= Min(T) /\ Min(T) <= x
  BY <1>1
<1> QED BY <1>2

\* And so is the greatest.
LEMMA MaxIs ==
    ASSUME NEW T \in SUBSET Nat, NEW x \in T, \A y \in T : y <= x
    PROVE  Max(T) = x
<1>1. Max(T) \in T /\ \A y \in T : y <= Max(T)
  BY MaxIn
<1>2. x \in Nat /\ Max(T) \in Nat /\ x <= Max(T) /\ Max(T) <= x
  BY <1>1
<1> QED BY <1>2

\* What holds at 0 and goes on from one number to the next holds up to n.
LEMMA UpTo ==
    ASSUME NEW n \in Nat, NEW T \in SUBSET (0 .. n), 0 \in T,
           \A i \in 1 .. n : i - 1 \in T => i \in T
    PROVE  T = 0 .. n
<1> DEFINE C == (0 .. n) \ T
<1>1. C = {}
  <2> SUFFICES ASSUME C # {} PROVE FALSE
    OBVIOUS
  <2>1. C \in SUBSET Nat
    OBVIOUS
  <2>2. PICK x \in C : \A y \in C : x <= y
    <3> HIDE DEF C
    <3> QED BY <2>1, Least
  <2>3. x \in 1 .. n /\ x - 1 \in 0 .. n
    BY <2>2
  <2>4. x - 1 \in T
    BY <2>2, <2>3
  <2> QED BY <2>2, <2>3, <2>4
<1> QED BY <1>1

Recurs(f, n, V, base, step) ==
    /\ f \in [0 .. n -> V] /\ f[0] = base
    /\ \A i \in 1 .. n : f[i] = step[i][f[i - 1]]

\* A function can be defined by its value at 0 and a step.
LEMMA Recursion ==
    ASSUME NEW V, NEW base \in V, NEW n \in Nat,
           NEW step \in [1 .. n -> [V -> V]]
    PROVE  \E f : Recurs(f, n, V, base, step)
<1> DEFINE Is(f, m) == /\ f \in [0 .. m -> V] /\ f[0] = base
                       /\ \A i \in 1 .. m : f[i] = step[i][f[i - 1]]
           T == {m \in 0 .. n : \E f : Is(f, m)}
<1>1. 0 \in T
  <2> DEFINE f == [i \in 0 .. 0 |-> base]
  <2>1. Is(f, 0)
    OBVIOUS
  <2> HIDE DEF Is
  <2> QED BY <2>1
<1>2. ASSUME NEW m \in 1 .. n, m - 1 \in T
      PROVE  m \in T
  <2>1. PICK f : Is(f, m - 1)
    BY <1>2
  <2> DEFINE v == step[m][f[m - 1]]
             g == [i \in 0 .. m |-> IF i = m THEN v ELSE f[i]]
  <2>2. f[m - 1] \in V
    BY <2>1
  <2>3. v \in V
    BY <2>2
  <2>4. g \in [0 .. m -> V] /\ g[0] = base
    <3> HIDE DEF v
    <3> QED BY <2>1, <2>3
  <2>5. \A i \in 1 .. m : g[i] = step[i][g[i - 1]]
    <3> SUFFICES ASSUME NEW i \in 1 .. m PROVE g[i] = step[i][g[i - 1]]
      OBVIOUS
    <3>1. g[i - 1] = f[i - 1]
      OBVIOUS
    <3>2. CASE i = m
      <4>1. g[m] = v
        OBVIOUS
      <4> HIDE DEF g
      <4> QED BY <3>1, <3>2, <4>1
    <3>3. CASE i # m
      <4>1. i \in 1 .. m - 1 /\ g[i] = f[i]
        BY <3>3
      <4> QED BY <2>1, <3>1, <4>1
    <3> QED BY <3>2, <3>3
  <2>6. Is(g, m)
    BY <2>4, <2>5
  <2> HIDE DEF Is, g
  <2> QED BY <2>6
<1>3. T = 0 .. n
  <2>1. T \in SUBSET (0 .. n)
    OBVIOUS
  <2> HIDE DEF T
  <2> QED BY <1>1, <1>2, <2>1, UpTo
<1>4. n \in T
  <2> HIDE DEF T
  <2> QED BY <1>3
<1> QED BY <1>4, Zenon DEF Recurs

-----------------------------------------------------------------------------
(* Words *)

\* trim returns a part of the line.
LEMMA TrimSeq ==
    ASSUME NEW T, NEW line \in Seq(T)
    PROVE  Trim(line) \in Seq(T)
<1> DEFINE words == {i \in DOMAIN line : line[i] # Blank}
<1>1. CASE words = {}
  BY <1>1 DEF Trim
<1>2. CASE words # {}
  <2>1. /\ words \in SUBSET Nat /\ Len(line) \in Nat
        /\ words \subseteq 1 .. Len(line)
    OBVIOUS
  <2>2. \A y \in words : y <= Len(line)
    BY <2>1
  <2>3. Trim(line) = SubSeq(line, Min(words), Max(words))
    BY <1>2 DEF Trim
  <2> HIDE DEF words
  <2>4. Min(words) \in words /\ Max(words) \in words
    BY <1>2, <2>1, <2>2, MinIn, MaxIn
  <2>5. Min(words) \in 1 .. Len(line) /\ Max(words) \in 1 .. Len(line)
    BY <2>1, <2>4
  <2> QED BY <2>3, <2>5
<1> QED BY <1>1, <1>2

\* So does operator>>.
LEMMA FirstWordSeq ==
    ASSUME NEW T, NEW line \in Seq(T)
    PROVE  FirstWord(line) \in Seq(T)
<1> DEFINE text == Trim(line)
           blanks == {i \in DOMAIN text : text[i] = Blank}
<1>1. text \in Seq(T)
  BY TrimSeq
<1>2. CASE blanks = {}
  BY <1>1, <1>2 DEF FirstWord
<1>3. CASE blanks # {}
  <2>1. FirstWord(line) = SubSeq(text, 1, Min(blanks) - 1)
    BY <1>3 DEF FirstWord
  <2> HIDE DEF text
  <2>2. blanks \in SUBSET Nat /\ blanks \subseteq 1 .. Len(text)
    BY <1>1
  <2> HIDE DEF blanks
  <2>3. Min(blanks) \in 1 .. Len(text)
    BY <1>3, <2>2, MinIn
  <2> QED BY <1>1, <2>1, <2>3
<1> QED BY <1>2, <1>3

\* The name in a request is a sequence of the tokens of its line.
LEMMA ArgumentSeq ==
    ASSUME NEW T, NEW line \in Seq(T)
    PROVE  parse_request(line).argument \in Seq(T)
<1>1. Behind(line) \in Seq(T)
  <2>1. Trim(line) \in Seq(T) /\ Len(FirstWord(line)) \in Nat
    BY TrimSeq, FirstWordSeq
  <2> QED BY <2>1 DEF Behind
<1>2. Trim(Behind(line)) \in Seq(T) /\ <<>> \in Seq(T)
  BY <1>1, TrimSeq
<1> QED BY <1>2 DEF parse_request, Parsed

\* trim leaves a line alone that neither starts nor ends with a blank.
LEMMA TrimWhole ==
    ASSUME NEW U, NEW line \in Seq(U), line # <<>>,
           line[1] # Blank, line[Len(line)] # Blank
    PROVE  Trim(line) = line
<1> DEFINE words == {i \in DOMAIN line : line[i] # Blank}
<1>1. /\ Len(line) \in Nat /\ Len(line) >= 1 /\ DOMAIN line = 1 .. Len(line)
      /\ 1 \in words /\ Len(line) \in words
      /\ words \in SUBSET Nat /\ \A y \in words : 1 <= y /\ y <= Len(line)
  OBVIOUS
<1>2. Trim(line) = SubSeq(line, Min(words), Max(words))
  BY <1>1 DEF Trim
<1> HIDE DEF words
<1>4. Min(words) = 1 /\ Max(words) = Len(line)
  BY <1>1, MinIs, MaxIs
<1> QED BY <1>2, <1>4, SubSeqFull

\* And no other.
LEMMA TrimEnds ==
    ASSUME NEW U, NEW line \in Seq(U), line # <<>>, Trim(line) = line
    PROVE  line[1] # Blank /\ line[Len(line)] # Blank
<1> DEFINE words == {i \in DOMAIN line : line[i] # Blank}
           n == Len(line)
           a == Min(words)
           b == Max(words)
<1>1. n \in Nat /\ n >= 1 /\ DOMAIN line = 1 .. n
  OBVIOUS
<1>2. words # {} /\ SubSeq(line, a, b) = line
  BY DEF Trim
<1>3. words \in SUBSET Nat /\ \A y \in words : 1 <= y /\ y <= n
  BY <1>1
<1>4. \A y \in words : line[y] # Blank
  OBVIOUS
<1> HIDE DEF words, n
<1>5. a \in words /\ b \in words
  BY <1>1, <1>2, <1>3, MinIn, MaxIn
<1> HIDE DEF a, b
<1>6. a \in 1 .. n /\ b \in 1 .. n
  BY <1>1, <1>3, <1>5
<1>7. Len(SubSeq(line, a, b)) = IF a <= b THEN b - a + 1 ELSE 0
  <2>1. \A i \in a .. b : line[i] \in U
    BY <1>1, <1>6
  <2> QED BY <1>6, <2>1, SubSeqProperties
<1>8. n = IF a <= b THEN b - a + 1 ELSE 0
  BY <1>2, <1>7 DEF n
<1>9. a = 1 /\ b = n
  BY <1>1, <1>6, <1>8
<1> QED BY <1>4, <1>5, <1>9 DEF n

\* A word is its own first word.
LEMMA WordAlone ==
    ASSUME NEW U, NEW word \in Seq(U), word # <<>>, Blank \notin Range(word)
    PROVE  Trim(word) = word /\ FirstWord(word) = word
<1>1. \A i \in 1 .. Len(word) : word[i] # Blank
  BY DEF Range
<1>2. Trim(word) = word
  BY <1>1, TrimWhole
<1> QED BY <1>1, <1>2 DEF FirstWord

\* The blanks before a text are skipped.
LEMMA BlankBefore ==
    ASSUME NEW U, NEW text \in Seq(U), text # <<>>,
           text[1] # Blank, text[Len(text)] # Blank
    PROVE  Trim(<<Blank>> \o text) = text
<1> DEFINE line == <<Blank>> \o text
           words == {i \in DOMAIN line : line[i] # Blank}
           V == U \cup {Blank}
<1>1. /\ text \in Seq(V) /\ <<Blank>> \in Seq(V)
      /\ Len(<<Blank>>) = 1 /\ <<Blank>>[1] = Blank
  OBVIOUS
<1> HIDE DEF V
<1>2. /\ line \in Seq(V) /\ Len(line) = Len(text) + 1 /\ line[1] = Blank
      /\ \A i \in 2 .. Len(text) + 1 : line[i] = text[i - 1]
      /\ Len(text) \in Nat /\ Len(text) >= 1
  BY <1>1
<1> HIDE DEF line
<1>3. /\ words \in SUBSET Nat
      /\ \A y \in words : 2 <= y /\ y <= Len(text) + 1
      /\ 2 \in words /\ Len(text) + 1 \in words
  BY <1>2
<1>4. Trim(line) = SubSeq(line, Min(words), Max(words))
  BY <1>3 DEF Trim
<1> HIDE DEF words
<1>6. Min(words) = 2 /\ Max(words) = Len(text) + 1
  BY <1>3, MinIs, MaxIs
<1>7. SubSeq(line, 2, Len(text) + 1) = text
  BY <1>1, <1>2
<1> QED BY <1>4, <1>6, <1>7 DEF line

\* Two words with a token between them.
Glued(word, mark, text) == word \o <<mark>> \o text

IsGlued(line, word, mark, text, U) ==
    /\ line \in Seq(U) /\ Len(line) = Len(word) + 1 + Len(text)
    /\ \A i \in 1 .. Len(word) : line[i] = word[i]
    /\ line[Len(word) + 1] = mark
    /\ \A i \in 1 .. Len(text) : line[Len(word) + 1 + i] = text[i]

\* What they are token by token.
LEMMA GluedTokens ==
    ASSUME NEW U, NEW mark \in U, NEW word \in Seq(U), NEW text \in Seq(U)
    PROVE  IsGlued(Glued(word, mark, text), word, mark, text, U)
<1> DEFINE s == word \o <<mark>>
           line == s \o text
           n == Len(word)
           m == Len(text)
<1>1. /\ s \in Seq(U) /\ Len(s) = n + 1 /\ s[n + 1] = mark
      /\ \A i \in 1 .. n : s[i] = word[i]
      /\ n \in Nat /\ m \in Nat
  OBVIOUS
<1> HIDE DEF s, n, m
<1>2. /\ line \in Seq(U) /\ Len(line) = Len(s) + Len(text)
      /\ \A i \in 1 .. Len(s) + Len(text) :
            line[i] = IF i <= Len(s) THEN s[i] ELSE text[i - Len(s)]
  BY <1>1, ConcatProperties
<1>a. Glued(word, mark, text) = line
  BY DEF Glued, s
<1> HIDE DEF line
<1>3. Len(text) = m
  BY DEF m
<1>4. \A i \in 1 .. m : /\ n + 1 + i \in 1 .. n + 1 + m
                        /\ ~(n + 1 + i <= n + 1)
                        /\ (n + 1 + i) - (n + 1) = i
  BY <1>1
<1>5. \A i \in 1 .. n + 1 : i \in 1 .. n + 1 + m /\ i <= n + 1
  BY <1>1
<1>6. \A i \in 1 .. m : line[n + 1 + i] = text[i]
  BY <1>1, <1>2, <1>3, <1>4
<1>7. \A i \in 1 .. n + 1 : line[i] = s[i]
  BY <1>1, <1>2, <1>3, <1>5
<1>8. (\A i \in 1 .. n : line[i] = word[i]) /\ line[n + 1] = mark
  BY <1>1, <1>7
<1> QED BY <1>1, <1>2, <1>3, <1>6, <1>8, <1>a DEF n, m, IsGlued

\* Two words with a blank between them.
Spaced(word, text) == Glued(word, Blank, text)

IsSpaced(line, word, text, U) == IsGlued(line, word, Blank, text, U)

\* The same of a blank.
LEMMA SpacedTokens ==
    ASSUME NEW U, Blank \in U, NEW word \in Seq(U), NEW text \in Seq(U)
    PROVE  IsSpaced(Spaced(word, text), word, text, U)
BY GluedTokens DEF Spaced, IsSpaced

\* No newline comes in between.
LEMMA SpacedOneLine ==
    ASSUME NEW U, Blank \in U, NEW word \in Seq(U), NEW text \in Seq(U),
           NL \notin Range(word), NL \notin Range(text)
    PROVE  NL \notin Range(Spaced(word, text))
<1> DEFINE line == Spaced(word, text)
           n == Len(word)
           m == Len(text)
<1>1. /\ line \in Seq(U) /\ Len(line) = n + 1 + m
      /\ \A i \in 1 .. n : line[i] = word[i]
      /\ line[n + 1] = Blank
      /\ \A i \in 1 .. m : line[n + 1 + i] = text[i]
  <2>1. IsSpaced(line, word, text, U)
    BY SpacedTokens
  <2> HIDE DEF line
  <2> QED BY <2>1 DEF IsSpaced, IsGlued
<1>2. /\ \A i \in 1 .. n : word[i] # NL
      /\ \A i \in 1 .. m : text[i] # NL
      /\ n \in Nat /\ m \in Nat /\ Blank # NL
  <2>1. n \in Nat /\ m \in Nat
    OBVIOUS
  <2>2. Blank # NL
    BY DEF Blank, NL
  <2>3. /\ \A i \in 1 .. n : word[i] # NL
        /\ \A i \in 1 .. m : text[i] # NL
    BY DEF Range
  <2> QED BY <2>1, <2>2, <2>3
<1> HIDE DEF line, n, m
<1>3. \A i \in 1 .. n + 1 + m : line[i] # NL
  <2> SUFFICES ASSUME NEW i \in 1 .. n + 1 + m PROVE line[i] # NL
    OBVIOUS
  <2>1. CASE i \in 1 .. n
    BY <1>1, <1>2, <2>1
  <2>2. CASE i = n + 1
    BY <1>1, <1>2, <2>2
  <2>3. CASE i > n + 1
    <3>1. i - (n + 1) \in 1 .. m /\ i = n + 1 + (i - (n + 1))
      BY <1>2, <2>3
    <3>2. PICK j \in 1 .. m : i = n + 1 + j
      BY <3>1
    <3>3. line[n + 1 + j] = text[j] /\ text[j] # NL
      BY <1>1, <1>2
    <3> QED BY <3>2, <3>3
  <2> QED BY <1>2, <2>1, <2>2, <2>3
<1>4. NL \notin Range(line)
  BY <1>1, <1>3 DEF Range
<1> QED BY <1>4 DEF line

\* A word, a blank and a text are taken apart there.
LEMMA TwoWords ==
    ASSUME NEW U, NEW word \in Seq(U), word # <<>>, Blank \notin Range(word),
           NEW text \in Seq(U), text # <<>>, text[Len(text)] # Blank
    PROVE  /\ FirstWord(Spaced(word, text)) = word
           /\ Behind(Spaced(word, text)) = <<Blank>> \o text
<1> DEFINE line == Spaced(word, text)
           blanks == {i \in DOMAIN line : line[i] = Blank}
           n == Len(word)
           m == Len(text)
           V == U \cup {Blank}
<1>1. /\ word \in Seq(V) /\ text \in Seq(V) /\ <<Blank>> \in Seq(V)
      /\ Len(<<Blank>>) = 1 /\ <<Blank>>[1] = Blank
      /\ n \in Nat /\ n >= 1 /\ m \in Nat /\ m >= 1
  OBVIOUS
<1>2. \A i \in 1 .. n : word[i] # Blank
  BY DEF Range
<1> HIDE DEF V
<1>3. /\ line \in Seq(V) /\ Len(line) = n + 1 + m
      /\ \A i \in 1 .. n : line[i] = word[i]
      /\ line[n + 1] = Blank
      /\ \A i \in 1 .. m : line[n + 1 + i] = text[i]
  <2>1. Blank \in V
    BY DEF V
  <2>2. IsSpaced(line, word, text, V)
    BY <1>1, <2>1, SpacedTokens
  <2> HIDE DEF line
  <2> QED BY <2>2 DEF IsSpaced, IsGlued
<1> HIDE DEF line, n, m
<1>4. Trim(line) = line
  <2>1. line # <<>> /\ line[1] # Blank
    BY <1>1, <1>2, <1>3
  <2>2. line[Len(line)] # Blank
    <3>1. m \in 1 .. m /\ text[m] # Blank
      BY <1>1 DEF m
    <3> QED BY <1>1, <1>3, <3>1
  <2> QED BY <1>3, <2>1, <2>2, TrimWhole
<1>5. /\ blanks \in SUBSET Nat /\ n + 1 \in blanks
      /\ \A y \in blanks : n + 1 <= y
  BY <1>1, <1>2, <1>3
<1>6. Min(blanks) = n + 1
  <2> HIDE DEF blanks
  <2> QED BY <1>5, MinIs
<1>7. FirstWord(line) = word
  <2>1. FirstWord(line) = SubSeq(line, 1, Min(blanks) - 1)
    BY <1>4, <1>5 DEF FirstWord
  <2> HIDE DEF blanks
  <2>2. FirstWord(line) = SubSeq(line, 1, n)
    BY <1>1, <1>6, <2>1
  <2> QED BY <1>1, <1>3, <2>2 DEF n
<1>8. Behind(line) = <<Blank>> \o text
  <2>1. Behind(line) = SubSeq(line, n + 1, n + 1 + m)
    BY <1>3, <1>4, <1>7 DEF Behind, n
  <2> DEFINE s == <<Blank>> \o text
  <2>2. /\ s \in Seq(V) /\ Len(s) = m + 1 /\ s[1] = Blank
        /\ \A i \in 1 .. m : s[1 + i] = text[i]
    BY <1>1 DEF m
  <2> HIDE DEF s
  <2>3. /\ Behind(line) \in Seq(V) /\ Len(Behind(line)) = m + 1
        /\ \A i \in 1 .. m + 1 : Behind(line)[i] = line[n + i]
    BY <1>1, <1>3, <2>1
  <2>4. \A i \in 1 .. m + 1 : Behind(line)[i] = s[i]
    <3> SUFFICES ASSUME NEW i \in 1 .. m + 1 PROVE line[n + i] = s[i]
      BY <2>3
    <3>1. CASE i = 1
      BY <1>3, <2>2, <3>1
    <3>2. CASE i # 1
      <4>1. i - 1 \in 1 .. m /\ n + i = n + 1 + (i - 1) /\ i = 1 + (i - 1)
        BY <1>1, <3>2
      <4> QED BY <1>3, <2>2, <4>1
    <3> QED BY <3>1, <3>2
  <2>5. Behind(line) = s
    BY <2>2, <2>3, <2>4, SeqEqual
  <2> QED BY <2>5 DEF s
<1> QED BY <1>7, <1>8 DEF line
-----------------------------------------------------------------------------
(* Lines *)

\* One sequence after another: \o, where what it does is of no matter.
Cat(s, t) == s \o t

\* What matters of it.
LEMMA CatLaws ==
    ASSUME NEW U
    PROVE  /\ <<>> \in Seq(U)
           /\ \A s, t \in Seq(U) : Cat(s, t) \in Seq(U)
           /\ \A s \in Seq(U) : Cat(<<>>, s) = s /\ Cat(s, <<>>) = s
           /\ \A r, s, t \in Seq(U) : Cat(Cat(r, s), t) = Cat(r, Cat(s, t))
<1>1. \A s, t \in Seq(U) : Cat(s, t) \in Seq(U)
  BY DEF Cat
<1>2. \A s \in Seq(U) : Cat(<<>>, s) = s /\ Cat(s, <<>>) = s
  BY DEF Cat
<1>3. ASSUME NEW r \in Seq(U), NEW s \in Seq(U), NEW t \in Seq(U)
      PROVE  Cat(Cat(r, s), t) = Cat(r, Cat(s, t))
  BY ConcatAssociative DEF Cat
<1> QED BY <1>1, <1>2, <1>3

\* recv_line takes the first line off a stream and leaves the others.
LEMMA FirstLine ==
    ASSUME NEW U, NEW line \in Seq(U), NEW rest \in Seq(U), NL \in U,
           NL \notin Range(line),
           NEW s, s = Cat(Append(line, NL), rest),
           NEW ends, ends = {n \in DOMAIN s : s[n] = NL}
    PROVE  /\ ends # {}
           /\ SubSeq(s, 1, Min(ends) - 1) = line
           /\ SubSeq(s, Min(ends) + 1, Len(s)) = rest
<1> DEFINE k    == Len(line)
           m    == Len(rest)
<1>1. /\ k \in Nat /\ m \in Nat /\ Append(line, NL) \in Seq(U)
      /\ Len(Append(line, NL)) = k + 1
      /\ \A i \in 1 .. k : line[i] # NL /\ Append(line, NL)[i] = line[i]
      /\ Append(line, NL)[k + 1] = NL
  BY DEF Range
<1>2. /\ s \in Seq(U) /\ Len(s) = k + 1 + m
      /\ \A i \in 1 .. k : s[i] = line[i]
      /\ s[k + 1] = NL
      /\ \A i \in 1 .. m : s[k + 1 + i] = rest[i]
  <2> DEFINE a == Append(line, NL)
  <2> HIDE DEF a, k, m
  <2>1. /\ s \in Seq(U) /\ Len(s) = Len(a) + Len(rest)
        /\ \A i \in 1 .. Len(a) + Len(rest) :
              s[i] = IF i <= Len(a) THEN a[i] ELSE rest[i - Len(a)]
    BY <1>1, ConcatProperties DEF a, Cat
  <2>2. \A i \in 1 .. m : k + 1 + i \in 1 .. k + 1 + m
                             /\ ~(k + 1 + i <= k + 1)
                             /\ (k + 1 + i) - (k + 1) = i
    BY <1>1
  <2>3. \A i \in 1 .. k + 1 : i \in 1 .. k + 1 + m
    BY <1>1
  <2>4. Len(a) = k + 1 /\ Len(rest) = m
    BY <1>1 DEF a, m
  <2> QED BY <1>1, <2>1, <2>2, <2>3, <2>4 DEF a
<1> HIDE DEF k, m
<1>3. /\ ends \in SUBSET Nat /\ k + 1 \in ends
      /\ \A y \in ends : k + 1 <= y
  <2>1. ends = {i \in 1 .. k + 1 + m : s[i] = NL}
    BY <1>2
  <2>2. /\ k \in Nat /\ m \in Nat /\ s[k + 1] = NL
        /\ \A i \in 1 .. k : s[i] # NL
    BY <1>1, <1>2
  <2>3. \A i \in 1 .. k + 1 + m : i \in 1 .. k \/ k + 1 <= i
    BY <2>2
  <2> QED BY <2>1, <2>2, <2>3
<1>4. Min(ends) = k + 1
  BY <1>3, MinIs
<1>5. SubSeq(s, 1, k) = line
  BY <1>1, <1>2 DEF k
<1>6. SubSeq(s, k + 2, Len(s)) = rest
  <2> DEFINE r == SubSeq(s, k + 2, k + 1 + m)
  <2>1. /\ r \in Seq(U) /\ Len(r) = m
        /\ \A i \in 1 .. m : r[i] = s[k + 1 + i]
    <3> DEFINE a == k + 2
               b == k + 1 + m
    <3>1. /\ a \in Int /\ b \in Int /\ b - a + 1 = m
          /\ (IF a <= b THEN b - a + 1 ELSE 0) = m
          /\ \A i \in 1 .. m : a + i - 1 = k + 1 + i
          /\ \A i \in a .. b : i \in 1 .. k + 1 + m
      BY <1>1
    <3> HIDE DEF a, b
    <3>2. \A i \in 1 .. k + 1 + m : s[i] \in U
      BY <1>2
    <3>3. \A i \in a .. b : s[i] \in U
      BY <3>1, <3>2
    <3> DEFINE q == SubSeq(s, a, b)
    <3>4. /\ q \in Seq(U) /\ Len(q) = IF a <= b THEN b - a + 1 ELSE 0
          /\ \A i \in 1 .. b - a + 1 : q[i] = s[a + i - 1]
      BY <3>1, <3>3, SubSeqProperties
    <3>5. r = q
      BY DEF a, b
    <3> HIDE DEF q, r
    <3> QED BY <3>1, <3>4, <3>5
  <2> HIDE DEF r
  <2>2. r = rest
    BY <1>2, <2>1, SeqEqual DEF m
  <2> QED BY <1>2, <2>2 DEF r
<1>7. Min(ends) - 1 = k /\ Min(ends) + 1 = k + 2
  BY <1>1, <1>4
<1>8. ends # {}
  BY <1>3
<1>9. SubSeq(s, 1, Min(ends) - 1) = line
  BY <1>5, <1>7
<1>10. SubSeq(s, Min(ends) + 1, Len(s)) = rest
  BY <1>6, <1>7
<1> QED BY <1>8, <1>9, <1>10

\* The recursion that defines FlattenSeq.
IsFlatten(f, seqs) ==
    f = [i \in 1 .. Len(seqs) |->
           IF i = 1 THEN seqs[i] ELSE f[i - 1] \o seqs[i]]

\* FlattenSeq appends one sequence after the other.
LEMMA Flattened ==
    ASSUME NEW U, NEW seqs \in Seq(Seq(U))
    PROVE  \E g \in [0 .. Len(seqs) -> Seq(U)] :
              /\ g[0] = <<>> /\ FlattenSeq(seqs) = g[Len(seqs)]
              /\ \A i \in 1 .. Len(seqs) : g[i] = Cat(g[i - 1], seqs[i])
<1> DEFINE n == Len(seqs)
           V == Seq(U)
           F == CHOOSE f : IsFlatten(f, seqs)
<1>0. n \in Nat /\ <<>> \in V /\ \A i \in 1 .. n : seqs[i] \in V
  OBVIOUS
<1>a. /\ \A v \in V : Cat(<<>>, v) = v
      /\ \A v, w \in V : Cat(v, w) \in V
  BY CatLaws
<1>1. CASE n = 0
  <2> DEFINE g == [i \in 0 .. 0 |-> <<>>]
  <2>1. seqs = <<>>
    BY <1>1
  <2>2. FlattenSeq(seqs) = <<>>
    BY <2>1 DEF FlattenSeq
  <2>3. /\ g \in [0 .. n -> V] /\ g[0] = <<>> /\ FlattenSeq(seqs) = g[n]
        /\ \A i \in 1 .. n : g[i] = Cat(g[i - 1], seqs[i])
    BY <1>0, <1>1, <2>2
  <2> QED BY <2>3
<1>2. CASE n # 0
  <2> DEFINE step == [i \in 1 .. n |-> [v \in V |-> Cat(v, seqs[i])]]
             base == <<>>
  <2> HIDE DEF V, n
  <2>1. step \in [1 .. n -> [V -> V]] /\ base \in V /\ n \in Nat
    BY <1>0, <1>a
  <2>2. \A v \in V, i \in 1 .. n : step[i][v] = Cat(v, seqs[i])
    OBVIOUS
  <2> HIDE DEF step, base
  <2>3. PICK h \in [0 .. n -> V] :
          h[0] = base /\ \A i \in 1 .. n : h[i] = step[i][h[i - 1]]
    <3>1. \E h : Recurs(h, n, V, base, step)
      BY <2>1, Recursion
    <3> QED BY <3>1 DEF Recurs
  <2>4. \A i \in 1 .. n : h[i - 1] \in V /\ h[i] = Cat(h[i - 1], seqs[i])
    <3>1. \A i \in 1 .. n : i - 1 \in 0 .. n
      BY <1>0
    <3>2. \A i \in 1 .. n : h[i - 1] \in V /\ h[i] = step[i][h[i - 1]]
      BY <2>3, <3>1
    <3> QED BY <2>2, <3>2
  <2> DEFINE f == [i \in 1 .. n |-> h[i]]
  <2>5. IsFlatten(f, seqs)
    <3>1. \A i \in 1 .. n :
            f[i] = IF i = 1 THEN seqs[i] ELSE Cat(f[i - 1], seqs[i])
      <4> SUFFICES ASSUME NEW i \in 1 .. n
                   PROVE  h[i] = IF i = 1 THEN seqs[i]
                                 ELSE Cat(f[i - 1], seqs[i])
        OBVIOUS
      <4>1. CASE i = 1
        <5>1. i - 1 = 0 /\ h[0] = <<>>
          BY <2>3, <4>1 DEF base
        <5> QED BY <1>0, <1>a, <2>4, <4>1, <5>1
      <4>2. CASE i # 1
        <5>1. i - 1 \in 1 .. n /\ f[i - 1] = h[i - 1]
          BY <1>0, <4>2
        <5> QED BY <2>4, <4>2, <5>1
      <4> QED BY <4>1, <4>2
    <3>2. f = [i \in 1 .. n |-> f[i]]
      OBVIOUS
    <3> HIDE DEF f
    <3>3. f = [i \in 1 .. n |->
                 IF i = 1 THEN seqs[i] ELSE Cat(f[i - 1], seqs[i])]
      BY <3>1, <3>2
    <3> QED BY <3>3, Zenon DEF IsFlatten, n, Cat
  <2>6. IsFlatten(F, seqs)
    <3> HIDE DEF f
    <3> QED BY <2>5
  <2>7. FlattenSeq(seqs) = F[n]
    BY <1>2 DEF FlattenSeq, IsFlatten, n
  <2> HIDE DEF F
  <2>8. \A i \in 1 .. n :
          F[i] = IF i = 1 THEN seqs[i] ELSE Cat(F[i - 1], seqs[i])
    <3>1. F = [i \in 1 .. n |->
                 IF i = 1 THEN seqs[i] ELSE Cat(F[i - 1], seqs[i])]
      BY <2>6, Zenon DEF IsFlatten, n, Cat
    <3> QED BY <3>1
  <2> DEFINE g == [i \in 0 .. n |-> IF i = 0 THEN <<>> ELSE F[i]]
  <2>9. g[0] = <<>> /\ g[n] = F[n] /\ DOMAIN g = 0 .. n
        /\ g = [i \in 0 .. n |-> g[i]]
    BY <1>0, <1>2
  <2>10. \A i \in 1 .. n : g[i] = Cat(g[i - 1], seqs[i])
    <3> SUFFICES ASSUME NEW i \in 1 .. n PROVE g[i] = Cat(g[i - 1], seqs[i])
      OBVIOUS
    <3>1. g[i] = F[i]
      BY <1>0
    <3>2. CASE i = 1
      <4>1. g[i - 1] = <<>>
        BY <3>2, <1>0
      <4> HIDE DEF g
      <4> QED BY <1>0, <1>a, <2>8, <3>1, <3>2, <4>1
    <3>3. CASE i # 1
      <4>1. g[i - 1] = F[i - 1]
        BY <1>0, <3>3
      <4> HIDE DEF g
      <4> QED BY <2>8, <3>1, <3>3, <4>1
    <3> QED BY <3>2, <3>3
  <2> HIDE DEF g
  <2>11. \A i \in 0 .. n : g[i] \in V
    <3> DEFINE T == {i \in 0 .. n : g[i] \in V}
    <3>1. T \in SUBSET (0 .. n) /\ 0 \in T
      BY <1>0, <2>9
    <3>2. ASSUME NEW i \in 1 .. n, i - 1 \in T
          PROVE  i \in T
      <4>1. /\ g[i - 1] \in V /\ seqs[i] \in V
            /\ g[i] = Cat(g[i - 1], seqs[i])
        BY <1>0, <2>10, <3>2
      <4>2. g[i] \in V /\ i \in 0 .. n
        BY <1>a, <4>1
      <4> QED BY <4>2
    <3>3. T = 0 .. n
      <4> HIDE DEF T
      <4> QED BY <1>0, <3>1, <3>2, UpTo
    <3> QED BY <3>3
  <2>12. g \in [0 .. n -> V]
    BY <2>9, <2>11
  <2> QED BY <2>7, <2>9, <2>10, <2>12 DEF V, n
<1> QED BY <1>1, <1>2

\* One sequence off the front.
LEMMA FlattenTail ==
    ASSUME NEW U, NEW seqs \in Seq(Seq(U)), seqs # <<>>
    PROVE  FlattenSeq(seqs) = Cat(seqs[1], FlattenSeq(Tail(seqs)))
<1> DEFINE n    == Len(seqs)
           rest == Tail(seqs)
           V    == Seq(U)
<1>1. /\ n \in Nat /\ n >= 1 /\ \A i \in 1 .. n : seqs[i] \in V
      /\ rest \in Seq(V)
      /\ Len(rest) = n - 1 /\ \A i \in 1 .. n - 1 : rest[i] = seqs[i + 1]
  OBVIOUS
<1>2. PICK g \in [0 .. n -> V] :
        /\ g[0] = <<>> /\ FlattenSeq(seqs) = g[n]
        /\ \A i \in 1 .. n : g[i] = Cat(g[i - 1], seqs[i])
  BY Flattened
<1>3. PICK h \in [0 .. n - 1 -> V] :
        /\ h[0] = <<>> /\ FlattenSeq(rest) = h[n - 1]
        /\ \A i \in 1 .. n - 1 : h[i] = Cat(h[i - 1], rest[i])
  <2> HIDE DEF rest, n
  <2>1. \E h \in [0 .. Len(rest) -> Seq(U)] :
          /\ h[0] = <<>> /\ FlattenSeq(rest) = h[Len(rest)]
          /\ \A i \in 1 .. Len(rest) : h[i] = Cat(h[i - 1], rest[i])
    BY <1>1, Flattened
  <2>2. Len(rest) = n - 1
    BY <1>1
  <2> QED BY <2>1, <2>2, Zenon
<1>4. /\ \A r, s, t \in V : Cat(Cat(r, s), t) = Cat(r, Cat(s, t))
      /\ \A s \in V : Cat(<<>>, s) = s /\ Cat(s, <<>>) = s
  BY CatLaws
<1> HIDE DEF V, rest, n
<1> DEFINE T == {i \in 0 .. n - 1 : g[i + 1] = Cat(seqs[1], h[i])}
<1>5. 0 \in T
  <2>1. 1 \in 1 .. n /\ 1 - 1 = 0 /\ 0 + 1 = 1 /\ 0 \in 0 .. n - 1
    BY <1>1
  <2>2. g[1] = Cat(g[0], seqs[1]) /\ seqs[1] \in V
    BY <1>1, <1>2, <2>1
  <2>3. g[0 + 1] = Cat(seqs[1], h[0])
    BY <1>2, <1>3, <1>4, <2>1, <2>2
  <2> QED BY <2>1, <2>3
<1>6. ASSUME NEW i \in 1 .. n - 1, i - 1 \in T
      PROVE  i \in T
  <2>1. /\ i \in Nat /\ i + 1 \in 1 .. n /\ i + 1 - 1 = i /\ i - 1 + 1 = i
        /\ i - 1 \in 0 .. n - 1 /\ 1 \in 1 .. n
    BY <1>1
  <2>2. g[i + 1] = Cat(g[i], seqs[i + 1])
    BY <1>2, <2>1
  <2>3. g[i] = Cat(seqs[1], h[i - 1])
    BY <1>6, <2>1
  <2>4. h[i] = Cat(h[i - 1], rest[i]) /\ rest[i] = seqs[i + 1]
    BY <1>1, <1>3
  <2>5. h[i - 1] \in V /\ seqs[i + 1] \in V /\ seqs[1] \in V
    BY <1>1, <1>3, <2>1
  <2>6. g[i + 1] = Cat(seqs[1], h[i])
    BY <1>4, <2>2, <2>3, <2>4, <2>5
  <2>7. i \in 0 .. n - 1
    BY <1>1
  <2> QED BY <2>6, <2>7
<1>7. T = 0 .. n - 1
  <2>1. n - 1 \in Nat /\ T \in SUBSET (0 .. n - 1)
    BY <1>1
  <2> HIDE DEF T
  <2> QED BY <1>5, <1>6, <2>1, UpTo
<1>8. g[n] = Cat(seqs[1], h[n - 1])
  <2>1. n - 1 \in 0 .. n - 1 /\ n - 1 + 1 = n
    BY <1>1
  <2>2. n - 1 \in T
    <3> HIDE DEF T
    <3> QED BY <1>7, <2>1
  <2> QED BY <2>1, <2>2
<1> QED BY <1>2, <1>3, <1>8 DEF rest

\* A response is its lines, each ended by a newline.
LEMMA ResponseTail ==
    ASSUME NEW U, NL \in U, NEW lines \in Seq(Seq(U))
    PROVE  /\ Response(lines) \in Seq(U)
           /\ lines = <<>> => Response(lines) = <<>>
           /\ lines # <<>> =>
                Response(lines)
                  = Cat(Append(lines[1], NL), Response(Tail(lines)))
<1> DEFINE Ended(ls) == [i \in DOMAIN ls |-> Append(ls[i], NL)]
           V == Seq(U)
<1>0. \A v \in V : Append(v, NL) \in V
  OBVIOUS
<1>1. \A ls \in Seq(V) : /\ Ended(ls) \in Seq(V) /\ Len(Ended(ls)) = Len(ls)
                           /\ \A i \in 1 .. Len(ls) :
                                Ended(ls)[i] = Append(ls[i], NL)
  <2> HIDE DEF V
  <2> SUFFICES ASSUME NEW ls \in Seq(V)
               PROVE  /\ Ended(ls) \in Seq(V) /\ Len(Ended(ls)) = Len(ls)
                      /\ \A i \in 1 .. Len(ls) :
                           Ended(ls)[i] = Append(ls[i], NL)
    OBVIOUS
  <2>1. Len(ls) \in Nat /\ DOMAIN ls = 1 .. Len(ls)
        /\ \A i \in 1 .. Len(ls) : ls[i] \in V
    OBVIOUS
  <2>2. Ended(ls) \in [1 .. Len(ls) -> V]
    BY <1>0, <2>1
  <2>3. \A i \in 1 .. Len(ls) : Ended(ls)[i] = Append(ls[i], NL)
    BY <2>1
  <2> DEFINE e == Ended(ls)
  <2>4. e \in Seq(V) /\ Len(e) = Len(ls)
    <3> HIDE DEF e
    <3>1. e \in [1 .. Len(ls) -> V]
      BY <2>2 DEF e
    <3> QED BY <2>1, <3>1
  <2> QED BY <2>3, <2>4
<1>2. \A ls : Response(ls) = FlattenSeq(Ended(ls))
  BY DEF Response
<1> HIDE DEF Ended
<1>3. Response(lines) \in V
  <2>1. PICK g \in [0 .. Len(Ended(lines)) -> V] :
          FlattenSeq(Ended(lines)) = g[Len(Ended(lines))]
    BY <1>1, Flattened
  <2>2. Len(lines) \in Nat /\ Len(Ended(lines)) = Len(lines)
    BY <1>1
  <2> HIDE DEF V
  <2> QED BY <1>2, <2>1, <2>2
<1>4. ASSUME lines = <<>> PROVE Response(lines) = <<>>
  <2>1. Ended(lines) \in Seq(V) /\ Len(Ended(lines)) = 0
    BY <1>1, <1>4
  <2>2. Ended(lines) = <<>>
    BY <2>1
  <2> QED BY <1>2, <2>2 DEF FlattenSeq
<1>5. ASSUME lines # <<>>
      PROVE  Response(lines)
               = Cat(Append(lines[1], NL), Response(Tail(lines)))
  <2>1. /\ Len(lines) \in Nat /\ Len(lines) >= 1 /\ Tail(lines) \in Seq(V)
        /\ Len(Tail(lines)) = Len(lines) - 1
        /\ \A i \in 1 .. Len(lines) - 1 : Tail(lines)[i] = lines[i + 1]
    BY <1>5
  <2> DEFINE e == Ended(lines)
             t == Ended(Tail(lines))
  <2>2. /\ e \in Seq(V) /\ Len(e) = Len(lines)
        /\ \A i \in 1 .. Len(lines) : e[i] = Append(lines[i], NL)
    BY <1>1
  <2>3. /\ t \in Seq(V) /\ Len(t) = Len(lines) - 1
        /\ \A i \in 1 .. Len(lines) - 1 : t[i] = Append(lines[i + 1], NL)
    <3> DEFINE r == Tail(lines)
    <3> HIDE DEF r
    <3>1. /\ Ended(r) \in Seq(V) /\ Len(Ended(r)) = Len(r)
          /\ \A i \in 1 .. Len(r) : Ended(r)[i] = Append(r[i], NL)
      BY <1>1, <2>1 DEF r
    <3>2. /\ Len(r) = Len(lines) - 1
          /\ \A i \in 1 .. Len(lines) - 1 : r[i] = lines[i + 1]
      BY <2>1 DEF r
    <3> HIDE DEF V
    <3> QED BY <3>1, <3>2 DEF r
  <2> HIDE DEF e, t
  <2>4. e # <<>>
    BY <2>1, <2>2
  <2>5. FlattenSeq(e) = Cat(e[1], FlattenSeq(Tail(e)))
    BY <2>2, <2>4, FlattenTail
  <2>6. Tail(e) = t
    <3> HIDE DEF V
    <3>1. /\ Tail(e) \in Seq(V) /\ Len(Tail(e)) = Len(lines) - 1
          /\ \A i \in 1 .. Len(lines) - 1 : Tail(e)[i] = e[i + 1]
      BY <2>2, <2>4
    <3>2. \A i \in 1 .. Len(lines) - 1 : i + 1 \in 1 .. Len(lines)
      BY <2>1
    <3>3. \A i \in 1 .. Len(lines) - 1 : Tail(e)[i] = t[i]
      BY <2>2, <2>3, <3>1, <3>2
    <3> QED BY <2>3, <3>1, <3>3, SeqEqual
  <2>7. e[1] = Append(lines[1], NL)
    BY <2>1, <2>2
  <2> QED BY <1>2, <2>5, <2>6, <2>7 DEF e, t
<1> QED BY <1>3, <1>4, <1>5
-----------------------------------------------------------------------------
(* Numbers *)

Digit == Range(Digits)

\* The ten digits.
LEMMA TenDigits ==
    /\ \A i \in 0 .. 9 : Digits[i + 1] \in Digit /\ DigitOf(Digits[i + 1]) = i
    /\ \A d \in Digit : DigitOf(d) \in 0 .. 9
    /\ Blank \notin Digit /\ NL \notin Digit
<1>1. DOMAIN Digits = 1 .. 10
  BY DEF Digits
<1>2. \A i, j \in 0 .. 9 : Digits[i + 1] = Digits[j + 1] => i = j
  BY DEF Digits
<1>3. \A i \in 0 .. 9 : Digits[i + 1] \in Digit
  BY <1>1 DEF Digit, Range
<1>4. \A i \in 0 .. 9 : DigitOf(Digits[i + 1]) = i
  <2> SUFFICES ASSUME NEW i \in 0 .. 9 PROVE DigitOf(Digits[i + 1]) = i
    OBVIOUS
  <2> DEFINE Is(j) == Digits[j + 1] = Digits[i + 1]
  <2>1. \A j \in 0 .. 9 : Is(j) => j = i
    BY <1>2
  <2>2. Is(i)
    OBVIOUS
  <2>3. DigitOf(Digits[i + 1]) = CHOOSE j \in 0 .. 9 : Is(j)
    BY DEF DigitOf
  <2> HIDE DEF Is
  <2> QED BY <2>1, <2>2, <2>3
<1>5. \A d \in Digit : \E i \in 0 .. 9 : d = Digits[i + 1]
  <2> SUFFICES ASSUME NEW d \in Digit
               PROVE  \E i \in 0 .. 9 : d = Digits[i + 1]
    OBVIOUS
  <2>1. PICK k \in 1 .. 10 : d = Digits[k]
    BY <1>1 DEF Digit, Range
  <2>2. k - 1 \in 0 .. 9 /\ k - 1 + 1 = k
    OBVIOUS
  <2> QED BY <2>1, <2>2
<1>6. \A i \in 0 .. 9 : Digits[i + 1] # Blank /\ Digits[i + 1] # NL
  <2>1. \A i \in 0 .. 9 :
          Digits[i + 1] \in {"0", "1", "2", "3", "4", "5", "6", "7", "8", "9"}
    BY DEF Digits
  <2> QED BY <2>1 DEF Blank, NL
<1> QED BY <1>3, <1>4, <1>5, <1>6

\* The recursion that defines Value.
IsValue(f, word) ==
    f = [i \in 0 .. Len(word) |->
           IF i = 0 THEN 0 ELSE 10 * f[i - 1] + DigitOf(word[i])]

\* Value reads a word of digits from the left.
LEMMA ValueDef ==
    ASSUME NEW word \in Seq(Digit)
    PROVE  /\ Value(word)[0] = 0
           /\ \A i \in 1 .. Len(word) :
                Value(word)[i] = 10 * Value(word)[i - 1] + DigitOf(word[i])
           /\ \A i \in 0 .. Len(word) : Value(word)[i] \in Nat
<1> DEFINE n == Len(word)
           D(i) == DigitOf(word[i])
           step == [i \in 1 .. n |-> [v \in Nat |-> 10 * v + D(i)]]
           F == Value(word)
<1>1. n \in Nat /\ \A i \in 1 .. n : D(i) \in 0 .. 9
  BY TenDigits
<1> HIDE DEF n, D
<1>2. /\ step \in [1 .. n -> [Nat -> Nat]]
      /\ \A i \in 1 .. n, v \in Nat : step[i][v] = 10 * v + D(i)
  BY <1>1
<1>3. PICK h \in [0 .. n -> Nat] :
        h[0] = 0 /\ \A i \in 1 .. n : h[i] = step[i][h[i - 1]]
  <2> DEFINE V == Nat
             base == 0
  <2> HIDE DEF step, V, base
  <2>1. step \in [1 .. n -> [V -> V]] /\ base \in V /\ n \in Nat
    BY <1>1, <1>2 DEF V, base
  <2>2. PICK h : Recurs(h, n, V, base, step)
    BY <2>1, Recursion
  <2> QED BY <2>2 DEF V, base, Recurs
<1>4. IsValue(h, word)
  <2> HIDE DEF step
  <2>1. \A i \in 1 .. n : h[i - 1] \in Nat /\ h[i] = 10 * h[i - 1] + D(i)
    <3>1. \A i \in 1 .. n : i - 1 \in 0 .. n
      BY <1>1
    <3>2. \A i \in 1 .. n : h[i - 1] \in Nat
      BY <1>3, <3>1
    <3> QED BY <1>2, <1>3, <3>2
  <2>2. h = [i \in 0 .. n |-> IF i = 0 THEN 0 ELSE 10 * h[i - 1] + D(i)]
    BY <1>1, <1>3, <2>1
  <2> QED BY <2>2, Zenon DEF IsValue, n, D
<1>5. IsValue(F, word)
  <2>1. F = CHOOSE f : IsValue(f, word)
    BY DEF Value, IsValue
  <2> QED BY <1>4, <2>1
<1> HIDE DEF F
<1>6. \A i \in 0 .. n : F[i] = IF i = 0 THEN 0 ELSE 10 * F[i - 1] + D(i)
  <2>1. F = [i \in 0 .. n |-> IF i = 0 THEN 0 ELSE 10 * F[i - 1] + D(i)]
    BY <1>5, Zenon DEF IsValue, n, D
  <2> QED BY <2>1
<1>7. F[0] = 0 /\ \A i \in 1 .. n : F[i] = 10 * F[i - 1] + D(i)
  BY <1>1, <1>6
<1>8. \A i \in 0 .. n : F[i] \in Nat
  <2> DEFINE T == {i \in 0 .. n : F[i] \in Nat}
  <2>1. T \in SUBSET (0 .. n) /\ 0 \in T
    BY <1>1, <1>7
  <2>2. ASSUME NEW i \in 1 .. n, i - 1 \in T
        PROVE  i \in T
    <3>1. F[i - 1] \in Nat /\ D(i) \in 0 .. 9
      BY <1>1, <2>2
    <3>2. 10 * F[i - 1] + D(i) \in Nat
      <4>1. \A a \in Nat, b \in 0 .. 9 : 10 * a + b \in Nat
        OBVIOUS
      <4> QED BY <3>1, <4>1, Zenon
    <3>3. F[i] \in Nat /\ i \in 0 .. n
      BY <1>7, <3>2
    <3> QED BY <3>3
  <2>3. T = 0 .. n
    <3> HIDE DEF T
    <3> QED BY <1>1, <2>1, <2>2, UpTo
  <2> QED BY <2>3
<1> QED BY <1>7, <1>8 DEF F, n, D

\* operator>> reads a number, whatever the word.
LEMMA NumberNat ==
    ASSUME NEW U, NEW word \in Seq(U)
    PROVE  Number(word) \in Nat
<1>1. CASE word # <<>> /\ Range(word) \subseteq Digit
  <2>1. word \in Seq(Digit)
    BY <1>1, SeqOfRange, SeqMonotonic
  <2>2. Len(word) \in 0 .. Len(word)
    OBVIOUS
  <2>3. Value(word)[Len(word)] \in Nat
    BY <2>1, <2>2, ValueDef
  <2> QED BY <1>1, <2>3 DEF Number, Digit
<1>2. CASE ~(word # <<>> /\ Range(word) \subseteq Digit)
  <2>1. Number(word) = 0
    BY <1>2 DEF Number, Digit
  <2> QED BY <2>1
<1> QED BY <1>1, <1>2

\* A word of digits is a number.
LEMMA NumberValue ==
    ASSUME NEW word \in Seq(Digit), word # <<>>
    PROVE  Number(word) = Value(word)[Len(word)]
<1>1. Range(word) \subseteq Digit
  BY RangeOfSeq
<1> QED BY <1>1 DEF Number, Digit

\* One more digit.
LEMMA ValueAppend ==
    ASSUME NEW word \in Seq(Digit), NEW d \in Digit
    PROVE  LET more == Append(word, d)
           IN  Value(more)[Len(more)]
                 = 10 * Value(word)[Len(word)] + DigitOf(d)
<1> DEFINE more == Append(word, d)
           n == Len(word)
           f == Value(word)
           g == Value(more)
           T == {i \in 0 .. n : f[i] = g[i]}
<1>1. /\ n \in Nat /\ more \in Seq(Digit) /\ Len(more) = n + 1
      /\ \A i \in 1 .. n : more[i] = word[i]
      /\ more[n + 1] = d
  OBVIOUS
<1> HIDE DEF more
<1>2. f[0] = 0 /\ \A i \in 1 .. n : f[i] = 10 * f[i - 1] + DigitOf(word[i])
  BY ValueDef
<1>3. /\ g[0] = 0
      /\ \A i \in 1 .. n + 1 : g[i] = 10 * g[i - 1] + DigitOf(more[i])
  <2>1. /\ g[0] = 0
        /\ \A i \in 1 .. Len(more) :
             g[i] = 10 * g[i - 1] + DigitOf(more[i])
    BY <1>1, ValueDef
  <2> HIDE DEF g, n
  <2> QED BY <1>1, <2>1
<1> HIDE DEF f, g, n
<1>4. T = 0 .. n
  <2>1. T \in SUBSET (0 .. n) /\ 0 \in T
    BY <1>1, <1>2, <1>3
  <2>2. ASSUME NEW i \in 1 .. n, i - 1 \in T
        PROVE  i \in T
    <3>1. i \in 1 .. n + 1 /\ f[i - 1] = g[i - 1] /\ more[i] = word[i]
      BY <1>1, <2>2
    <3> QED BY <1>2, <1>3, <3>1
  <2> HIDE DEF T
  <2> QED BY <1>1, <2>1, <2>2, UpTo
<1>5. f[n] = g[n]
  <2>1. n \in T
    <3> HIDE DEF T
    <3> QED BY <1>1, <1>4
  <2> QED BY <2>1
<1>6. n + 1 \in 1 .. n + 1 /\ n + 1 - 1 = n
  BY <1>1
<1>7. g[n + 1] = 10 * f[n] + DigitOf(d)
  BY <1>1, <1>3, <1>5, <1>6
<1> QED BY <1>1, <1>7 DEF f, g, n, more
\* The recursion that defines Decimal, up to n.
IsDecimal(f, n) ==
    f = [i \in 0 .. n |->
           IF i < 10 THEN <<Digits[i + 1]>>
           ELSE Append(f[i \div 10], Digits[(i % 10) + 1])]

\* Dividing by ten.
LEMMA TenDivides ==
    ASSUME NEW i \in Nat, ~(i < 10)
    PROVE  /\ i \div 10 \in 0 .. i - 1 /\ i % 10 \in 0 .. 9
           /\ i = 10 * (i \div 10) + (i % 10)
<1>1. i = 10 * (i \div 10) + (i % 10)
  OBVIOUS
<1>2. i % 10 \in 0 .. 9
  OBVIOUS
<1>3. i \div 10 \in Int
  OBVIOUS
<1>4. i \div 10 \in 0 .. i - 1
  BY <1>1, <1>2, <1>3
<1> QED BY <1>1, <1>2, <1>4

\* The digits of every number can be written.
LEMMA DecimalExists ==
    ASSUME NEW n \in Nat
    PROVE  \E f : IsDecimal(f, n)
<1> DEFINE Last10(i) == Digits[(i % 10) + 1]
           Is(f, m) == f = [i \in 0 .. m |->
                              IF i < 10 THEN <<Digits[i + 1]>>
                              ELSE Append(f[i \div 10], Last10(i))]
           T == {m \in 0 .. n : \E f : Is(f, m)}
<1>1. 0 \in T
  <2> DEFINE f == [i \in 0 .. 0 |-> <<Digits[i + 1]>>]
  <2>1. \A i \in 0 .. 0 : i < 10
    OBVIOUS
  <2>2. Is(f, 0)
    BY <2>1
  <2> HIDE DEF Is
  <2> QED BY <2>2
<1> HIDE DEF Last10
<1>2. ASSUME NEW m \in 1 .. n, m - 1 \in T
      PROVE  m \in T
  <2>1. PICK f : Is(f, m - 1)
    BY <1>2
  <2> DEFINE v == IF m < 10 THEN <<Digits[m + 1]>>
                  ELSE Append(f[m \div 10], Last10(m))
             g == [i \in 0 .. m |-> IF i = m THEN v ELSE f[i]]
  <2>2. \A i \in 0 .. m - 1 :
          /\ g[i] = f[i]
          /\ f[i] = IF i < 10 THEN <<Digits[i + 1]>>
                    ELSE Append(f[i \div 10], Last10(i))
    <3>1. \A i \in 0 .. m - 1 : g[i] = f[i]
      OBVIOUS
    <3>2. \A i \in 0 .. m - 1 :
            f[i] = IF i < 10 THEN <<Digits[i + 1]>>
                   ELSE Append(f[i \div 10], Last10(i))
      BY <2>1
    <3> QED BY <3>1, <3>2
  <2>3. g[m] = v /\ g = [i \in 0 .. m |-> g[i]]
    OBVIOUS
  <2> HIDE DEF g
  <2>4. \A i \in 0 .. m : ~(i < 10) => g[i \div 10] = f[i \div 10]
    <3> SUFFICES ASSUME NEW i \in 0 .. m, ~(i < 10)
                 PROVE  g[i \div 10] = f[i \div 10]
      OBVIOUS
    <3>1. i \div 10 \in 0 .. m - 1
      BY TenDivides
    <3> QED BY <2>2, <3>1
  <2>5. \A i \in 0 .. m :
          g[i] = IF i < 10 THEN <<Digits[i + 1]>>
                 ELSE Append(g[i \div 10], Last10(i))
    <3> SUFFICES ASSUME NEW i \in 0 .. m
                 PROVE  g[i] = IF i < 10 THEN <<Digits[i + 1]>>
                               ELSE Append(g[i \div 10], Last10(i))
      OBVIOUS
    <3>1. CASE i = m
      BY <2>3, <2>4, <3>1
    <3>2. CASE i # m
      <4>1. i \in 0 .. m - 1
        BY <3>2
      <4> QED BY <2>2, <2>4, <4>1
    <3> QED BY <3>1, <3>2
  <2>6. Is(g, m)
    BY <2>3, <2>5
  <2> HIDE DEF Is
  <2> QED BY <2>6
<1>3. T = 0 .. n
  <2>1. T \in SUBSET (0 .. n)
    OBVIOUS
  <2> HIDE DEF T
  <2> QED BY <1>1, <1>2, <2>1, UpTo
<1>4. n \in T
  <2> HIDE DEF T
  <2> QED BY <1>3
<1>5. \E f : Is(f, n)
  <2> HIDE DEF Is
  <2> QED BY <1>4
<1> QED BY <1>5, Zenon DEF IsDecimal, Last10

\* A number that operator<< has written as digits, operator>> reads back.
THEOREM DecimalNumber ==
    ASSUME NEW n \in Nat
    PROVE  /\ Decimal(n) \in Seq(Digit) /\ Decimal(n) # <<>>
           /\ Number(Decimal(n)) = n
<1> DEFINE F == CHOOSE f : IsDecimal(f, n)
           V(w) == Value(w)[Len(w)]
           Good(i) == F[i] \in Seq(Digit) /\ F[i] # <<>> /\ V(F[i]) = i
           C == {i \in 0 .. n : ~Good(i)}
<1>1. Decimal(n) = F[n]
  BY DEF Decimal, IsDecimal
<1>2. IsDecimal(F, n)
  BY DecimalExists
<1> HIDE DEF F
<1>3. \A i \in 0 .. n :
        F[i] = IF i < 10 THEN <<Digits[i + 1]>>
               ELSE Append(F[i \div 10], Digits[(i % 10) + 1])
  BY <1>2 DEF IsDecimal
<1>4. C = {}
  <2> SUFFICES ASSUME C # {} PROVE FALSE
    OBVIOUS
  <2>1. PICK i \in C : \A j \in C : i <= j
    <3>1. C \in SUBSET Nat
      OBVIOUS
    <3> HIDE DEF C
    <3> QED BY <3>1, Least
  <2>2. i \in 0 .. n /\ ~Good(i)
    BY <2>1
  <2>3. CASE i < 10
    <3> DEFINE e == <<>>
               d == Digits[i + 1]
    <3>0. i \in 0 .. 9
      BY <2>2, <2>3
    <3>1. d \in Digit /\ DigitOf(d) = i /\ i \in 0 .. 9
      BY <3>0, TenDigits
    <3> HIDE DEF d
    <3>a. F[i] = <<d>>
      BY <1>3, <2>2, <2>3 DEF d
    <3>b. /\ <<d>> = Append(e, d) /\ e \in Seq(Digit) /\ Len(e) = 0
          /\ Append(e, d) \in Seq(Digit) /\ Append(e, d) # <<>>
      BY <3>1
    <3>2. /\ F[i] = Append(e, d) /\ e \in Seq(Digit) /\ Len(e) = 0
          /\ Append(e, d) \in Seq(Digit) /\ Append(e, d) # <<>>
      BY <3>a, <3>b
    <3>3. Value(e)[0] = 0
      BY <3>2, ValueDef
    <3>4. V(Append(e, d)) = 10 * Value(e)[Len(e)] + DigitOf(d)
      BY <3>1, <3>2, ValueAppend
    <3>5. V(F[i]) = i
      BY <3>1, <3>2, <3>3, <3>4
    <3> HIDE DEF V
    <3> QED BY <2>2, <3>2, <3>5
  <2>4. CASE ~(i < 10)
    <3> DEFINE k == i \div 10
               r == i % 10
               d == Digits[r + 1]
               w == F[k]
    <3>1. k \in 0 .. i - 1 /\ r \in 0 .. 9 /\ i = 10 * k + r
      BY <2>2, <2>4, TenDivides
    <3>2. d \in Digit /\ DigitOf(d) = r
      BY <3>1, TenDigits
    <3>3. F[i] = Append(w, d)
      BY <1>3, <2>2, <2>4
    <3>4. Good(k)
      BY <2>1, <2>2, <3>1
    <3>5. w \in Seq(Digit) /\ V(w) = k
      BY <3>4
    <3> HIDE DEF w, d, r, k
    <3>6. V(Append(w, d)) = 10 * V(w) + DigitOf(d)
      BY <3>2, <3>5, ValueAppend
    <3>7. V(F[i]) = i
      BY <3>1, <3>2, <3>3, <3>5, <3>6
    <3>8. F[i] \in Seq(Digit) /\ F[i] # <<>>
      BY <3>2, <3>3, <3>5
    <3> QED BY <2>2, <3>7, <3>8
  <2> QED BY <2>3, <2>4
<1>5. Good(n)
  <2>1. n \in 0 .. n /\ n \notin C
    BY <1>4
  <2> HIDE DEF Good
  <2> QED BY <2>1
<1> QED BY <1>1, <1>5, NumberValue
=============================================================================
