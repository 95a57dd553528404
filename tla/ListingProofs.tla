--------------------------- MODULE ListingProofs ---------------------------
(***************************************************************************)
(* ShownIsListed and ShownCanBeFetched of Requests, and its types, for     *)
(* every directory, number of files and fault: ListingInv is inductive, if *)
(* no name holds a newline.                                                *)
(***************************************************************************)
EXTENDS RequestsProofs

Everything == Files \cup DOMAIN Links

-----------------------------------------------------------------------------
(* The list that build_list_response is given *)

\* The recursion that defines Listed.
IsListed(f, found) ==
    f = [k \in 0 .. Len(Order) |->
           IF k = 0 THEN <<>>
           ELSE IF Append(Root, Order[k]) \in found
                THEN Append(f[k - 1], Order[k]) ELSE f[k - 1]]

\* The sort gives the names of what was found.
LEMMA ListedNames ==
    ASSUME NEW found
    PROVE  /\ Listed(found) \in Seq(Names)
           /\ \A i \in 1 .. Len(Listed(found)) :
                 Append(Root, Listed(found)[i]) \in found
<1> DEFINE n == Len(Order)
           In(k) == Append(Root, Order[k]) \in found
           V == {s \in Seq(Names) :
                   \A i \in 1 .. Len(s) : Append(Root, s[i]) \in found}
           More(k, s) == IF In(k) THEN Append(s, Order[k]) ELSE s
           step == [k \in 1 .. n |-> [s \in V |-> More(k, s)]]
           base == <<>>
           F == CHOOSE f : IsListed(f, found)
<1>1. n \in Nat /\ \A k \in 1 .. n : Order[k] \in Names
  BY RequestsAssumption
<1>2. ASSUME NEW k \in 1 .. n, NEW s \in V PROVE More(k, s) \in V
  <2>1. CASE In(k)
    <3> DEFINE t == Append(s, Order[k])
    <3>1. /\ t \in Seq(Names) /\ Len(t) = Len(s) + 1 /\ Len(s) \in Nat
          /\ \A i \in 1 .. Len(s) : t[i] = s[i]
          /\ t[Len(s) + 1] = Order[k]
      BY <1>1
    <3> HIDE DEF t
    <3>2. \A i \in 1 .. Len(t) : Append(Root, t[i]) \in found
      BY <2>1, <3>1
    <3>3. t \in V
      BY <3>1, <3>2
    <3> QED BY <2>1, <3>3 DEF t
  <2>2. CASE ~In(k)
    BY <2>2
  <2> QED BY <2>1, <2>2
<1>3. base \in V
  OBVIOUS
<1> HIDE DEF V, More, In, n, base
<1>4. /\ step \in [1 .. n -> [V -> V]]
      /\ \A k \in 1 .. n, s \in V : step[k][s] = More(k, s)
  BY <1>2
<1> HIDE DEF step
<1>5. PICK h : Recurs(h, n, V, base, step)
  BY <1>1, <1>3, <1>4, Recursion
<1>6. h = [k \in 0 .. n |-> IF k = 0 THEN base ELSE More(k, h[k - 1])]
  <2>1. \A k \in 1 .. n : k - 1 \in 0 .. n
    BY <1>1
  <2>2. \A k \in 1 .. n : h[k - 1] \in V
    BY <1>5, <2>1 DEF Recurs
  <2>3. \A k \in 1 .. n : h[k] = More(k, h[k - 1])
    BY <1>4, <1>5, <2>2 DEF Recurs
  <2> QED BY <1>1, <1>5, <2>3 DEF Recurs
<1>7. IsListed(h, found)
  BY <1>6, Zenon DEF IsListed, More, In, n, base
<1>8. IsListed(F, found)
  BY <1>7
<1>9. Listed(found) = F[n]
  BY DEF Listed, IsListed, n
<1> HIDE DEF F
<1>10. F = [k \in 0 .. n |-> IF k = 0 THEN base ELSE More(k, F[k - 1])]
  BY <1>8, Zenon DEF IsListed, More, In, n, base
<1> DEFINE T == {k \in 0 .. n : F[k] \in V}
<1>11. T = 0 .. n
  <2>1. T \in SUBSET (0 .. n) /\ 0 \in T
    BY <1>1, <1>3, <1>10
  <2>2. ASSUME NEW k \in 1 .. n, k - 1 \in T PROVE k \in T
    <3>1. F[k - 1] \in V /\ k \in 0 .. n /\ k # 0
      BY <1>1, <2>2
    <3>2. F[k] = More(k, F[k - 1])
      BY <1>10, <3>1
    <3> QED BY <1>2, <3>1, <3>2
  <2> HIDE DEF T
  <2> QED BY <1>1, <2>1, <2>2, UpTo
<1>12. F[n] \in V
  <2>1. n \in T
    <3> HIDE DEF T
    <3> QED BY <1>1, <1>11
  <2> QED BY <2>1
<1> QED BY <1>9, <1>12 DEF V

\* What is visible stays so when more exists.
LEMMA VisibleGrows ==
    ASSUME NEW H, NEW G, H \subseteq G
    PROVE  Visible(H) \subseteq Visible(G)
<1> SUFFICES ASSUME NEW p \in Visible(H) PROVE p \in Visible(G)
  OBVIOUS
<1>1. p \in Entries(G) /\ ~Hidden(p) /\ is_regular_file(H, p)
  BY EntriesGrow DEF Visible
<1>2. is_regular_file(G, p)
  BY <1>1, FilesAssumption DEF is_regular_file, Follow
<1> QED BY <1>1, <1>2 DEF Visible

\* The files of the list, each with its name and the digits of its size.
LEMMA SortedFiles ==
    ASSUME files \subseteq Visible(Everything)
    PROVE  /\ Len(Sorted) \in Nat /\ DOMAIN Sorted = 1 .. Len(Sorted)
           /\ Sorted \in Seq(Range(Sorted))
           /\ \A i \in 1 .. Len(Sorted) :
                /\ Sorted[i].name \in Names
                /\ Append(Root, Sorted[i].name) \in files
                /\ Sorted[i].size \in Seq(Digit) /\ Sorted[i].size # <<>>
<1> DEFINE names == Listed(files)
           Size(i) == SizeOf[Follow(Everything, Append(Root, names[i]))]
           n == Len(names)
<1>1. /\ names \in Seq(Names) /\ n \in Nat /\ DOMAIN names = 1 .. n
      /\ \A i \in 1 .. n : /\ names[i] \in Names
                           /\ Append(Root, names[i]) \in files
  BY ListedNames
<1>2. \A i \in 1 .. n : Size(i) \in Seq(Digit) /\ Size(i) # <<>>
  <2> SUFFICES ASSUME NEW i \in 1 .. n
               PROVE  Size(i) \in Seq(Digit) /\ Size(i) # <<>>
    OBVIOUS
  <2>1. Append(Root, names[i]) \in Visible(Everything)
    BY <1>1
  <2>2. Follow(Everything, Append(Root, names[i])) \in Files
    BY <2>1 DEF Visible, is_regular_file
  <2> QED BY <2>2, RequestsAssumption DEF Digit
<1>3. Sorted = [i \in 1 .. n |-> [name |-> names[i], size |-> Size(i)]]
  BY <1>1 DEF Sorted, Everything
<1> HIDE DEF names, Size, n
<1>4. DOMAIN Sorted = 1 .. n
  BY <1>3
<1>5. Sorted \in [1 .. n -> Range(Sorted)]
  <2>1. Sorted = [i \in 1 .. n |-> Sorted[i]]
    BY <1>3
  <2>2. \A i \in 1 .. n : Sorted[i] \in Range(Sorted)
    BY <1>4 DEF Range
  <2> HIDE DEF Sorted
  <2> QED BY <2>1, <2>2
<1>6. Sorted \in Seq(Range(Sorted)) /\ Len(Sorted) = n
  BY <1>1, <1>5
<1>7. \A i \in 1 .. n : Sorted[i].name = names[i] /\ Sorted[i].size = Size(i)
  BY <1>3
<1> QED BY <1>1, <1>2, <1>4, <1>6, <1>7
-----------------------------------------------------------------------------
(* The lines of the answer *)

Token == {"O", "K", Blank, NL} \cup Digit \cup (UNION {Range(n) : n \in Names})

\* What the lines are made of.
LEMMA Alphabet ==
    /\ NL \in Token /\ Blank \in Token
    /\ \A word \in Seq(Digit) : word \in Seq(Token)
    /\ \A name \in Names : name \in Seq(Token) /\ name # <<>>
    /\ OK \in Seq(Token) /\ Len(OK) = 2
    /\ OK[1] = "O" /\ OK[2] = "K"
<1>1. NL \in Token /\ Blank \in Token /\ Digit \subseteq Token
      /\ "O" \in Token /\ "K" \in Token
  BY DEF Token
<1>2. \A name \in Names : Range(name) \subseteq Token
  BY DEF Token
<1> HIDE DEF Token
<1>3. \A name \in Names : name \in Seq(Token) /\ name # <<>>
  <2> SUFFICES ASSUME NEW name \in Names
               PROVE  name \in Seq(Token) /\ name # <<>>
    OBVIOUS
  <2>1. name \in Seq(Range(name)) /\ name # <<>>
    BY RequestsAssumption DEF IsName
  <2> QED BY <1>2, <2>1, SeqMonotonic
<1>4. \A word \in Seq(Digit) : word \in Seq(Token)
  BY <1>1, SeqMonotonic
<1>5. OK \in Seq(Token) /\ Len(OK) = 2 /\ OK[1] = "O" /\ OK[2] = "K"
  BY <1>1 DEF OK
<1> QED BY <1>1, <1>3, <1>4, <1>5

\* The header, and one line for each file.
LEMMA AnswerLines ==
    ASSUME files \subseteq Visible(Everything)
    PROVE  /\ ListAnswer \in Seq(Seq(Token))
           /\ Len(ListAnswer) = Len(Sorted) + 1
           /\ ListAnswer[1] = Spaced(OK, Decimal(Len(Sorted)))
           /\ \A i \in 1 .. Len(Sorted) :
                ListAnswer[i + 1]
                  = Spaced(Sorted[i].name, Sorted[i].size)
           /\ NoNewlines =>
                \A k \in 1 .. Len(ListAnswer) : NL \notin Range(ListAnswer[k])
<1> DEFINE n == Len(Sorted)
           V == Seq(Token)
           Entry(i) == Spaced(Sorted[i].name, Sorted[i].size)
           head == Spaced(OK, Decimal(n))
           h == <<head>>
           body == [i \in 1 .. n |-> Entry(i)]
<1>1. /\ n \in Nat /\ DOMAIN Sorted = 1 .. n
      /\ \A i \in 1 .. n : /\ Sorted[i].name \in Names
                           /\ Sorted[i].size \in Seq(Digit)
  BY SortedFiles
<1>2. Decimal(n) \in Seq(Digit)
  BY <1>1, DecimalNumber
<1>3. head \in V /\ NL \notin Range(head)
  <2>1. Decimal(n) \in Seq(Token) /\ OK \in Seq(Token) /\ Blank \in Token
    BY <1>2, Alphabet
  <2>2. Range(Decimal(n)) \subseteq Digit /\ NL \notin Range(Decimal(n))
    BY <1>2, RangeOfSeq, TenDigits
  <2>3. NL \notin Range(OK)
    BY Alphabet DEF Range, NL
  <2> QED BY <2>1, <2>2, <2>3, SpacedTokens, SpacedOneLine
         DEF IsSpaced, IsGlued
<1>4. \A i \in 1 .. n : Entry(i) \in V
  <2> SUFFICES ASSUME NEW i \in 1 .. n PROVE Entry(i) \in V
    OBVIOUS
  <2>1. /\ Sorted[i].name \in Seq(Token) /\ Sorted[i].size \in Seq(Token)
        /\ Blank \in Token
    BY <1>1, Alphabet
  <2> QED BY <2>1, SpacedTokens DEF IsSpaced, IsGlued
<1>5. NoNewlines => \A i \in 1 .. n : NL \notin Range(Entry(i))
  <2> SUFFICES ASSUME NoNewlines, NEW i \in 1 .. n
               PROVE  NL \notin Range(Entry(i))
    OBVIOUS
  <2>1. /\ Sorted[i].name \in Seq(Token) /\ Sorted[i].size \in Seq(Token)
        /\ Blank \in Token
    BY <1>1, Alphabet
  <2>2. NL \notin Range(Sorted[i].name)
    BY <1>1 DEF NoNewlines
  <2>3. NL \notin Range(Sorted[i].size)
    BY <1>1, RangeOfSeq, TenDigits
  <2> QED BY <2>1, <2>2, <2>3, SpacedOneLine
<1>6. ListAnswer = h \o body
  BY <1>1, Zenon DEF ListAnswer, build_list_response, ListLines, OkLine,
                     Spaced, Glued
<1> HIDE DEF Entry, head, V, n
<1>7. body \in Seq(V) /\ Len(body) = n /\ \A i \in 1 .. n : body[i] = Entry(i)
  <2>1. body \in [1 .. n -> V] /\ \A i \in 1 .. n : body[i] = Entry(i)
    BY <1>4
  <2> HIDE DEF body
  <2> QED BY <1>1, <2>1
<1>8. h \in Seq(V) /\ Len(h) = 1 /\ h[1] = head
  BY <1>3
<1> HIDE DEF h, body
<1>9. /\ ListAnswer \in Seq(V) /\ Len(ListAnswer) = n + 1
      /\ ListAnswer[1] = head
      /\ \A i \in 1 .. n : ListAnswer[i + 1] = Entry(i)
  <2>1. /\ ListAnswer \in Seq(V)
        /\ Len(ListAnswer) = Len(h) + Len(body)
        /\ \A i \in 1 .. Len(h) + Len(body) :
             ListAnswer[i] = IF i <= Len(h) THEN h[i] ELSE body[i - Len(h)]
    BY <1>6, <1>7, <1>8, ConcatProperties
  <2>2. /\ 1 \in 1 .. 1 + n
        /\ \A i \in 1 .. n : /\ i + 1 \in 1 .. 1 + n /\ ~(i + 1 <= 1)
                             /\ i + 1 - 1 = i
    BY <1>1
  <2> QED BY <1>1, <1>7, <1>8, <2>1, <2>2
<1>10. ASSUME NoNewlines, NEW k \in 1 .. n + 1
       PROVE  NL \notin Range(ListAnswer[k])
  <2>1. CASE k = 1
    BY <1>3, <1>9, <2>1
  <2>2. CASE k # 1
    <3>1. k - 1 \in 1 .. n /\ k - 1 + 1 = k
      BY <1>1, <2>2
    <3>2. ListAnswer[k] = Entry(k - 1)
      BY <1>9, <3>1
    <3> QED BY <1>5, <1>10, <3>1, <3>2
  <2> QED BY <2>1, <2>2
<1> QED BY <1>9, <1>10 DEF V, n, head, Entry

\* The lines that are left are the next one and those behind it.
LEMMA LinesLeft ==
    ASSUME files \subseteq Visible(Everything), NEW k \in 1 .. Len(Sorted) + 1
    PROVE  /\ ListAnswer[k] \in Seq(Token)
           /\ Response(LinesFrom(k + 1)) \in Seq(Token)
           /\ Response(LinesFrom(k))
                = Cat(Append(ListAnswer[k], NL), Response(LinesFrom(k + 1)))
<1> DEFINE L == ListAnswer
           n == Len(L)
           V == Seq(Token)
           s == LinesFrom(k)
<1>1. L \in Seq(V) /\ n \in Nat /\ k \in 1 .. n /\ k \in Nat
  <2>1. L \in Seq(V) /\ n = Len(Sorted) + 1 /\ Len(Sorted) \in Nat
    BY AnswerLines, SortedFiles
  <2> HIDE DEF L, n, V
  <2> QED BY <2>1
<1>2. s = SubSeq(L, k, n) /\ LinesFrom(k + 1) = SubSeq(L, k + 1, n)
  BY DEF LinesFrom
<1> HIDE DEF V, L, n, s
<1>3. L[k] \in V /\ s \in Seq(V) /\ Len(s) = n - k + 1 /\ s[1] = L[k]
  <2>1. \A i \in k .. n : L[i] \in V
    BY <1>1 DEF n
  <2>2. /\ s \in Seq(V) /\ Len(s) = IF k <= n THEN n - k + 1 ELSE 0
        /\ \A i \in 1 .. n - k + 1 : s[i] = L[k + i - 1]
    BY <1>1, <1>2, <2>1, SubSeqProperties
  <2>3. 1 \in 1 .. n - k + 1 /\ k + 1 - 1 = k /\ k <= n /\ k \in k .. n
    BY <1>1
  <2> QED BY <2>1, <2>2, <2>3
<1>4. LinesFrom(k + 1) \in Seq(V)
  <2>1. \A i \in k + 1 .. n : L[i] \in V
    BY <1>1 DEF n
  <2>2. k + 1 \in Int /\ n \in Int
    BY <1>1
  <2>3. SubSeq(L, k + 1, n) \in Seq(V)
    BY <2>1, <2>2, SubSeqProperties
  <2> QED BY <1>2, <2>3
<1>5. Tail(s) = LinesFrom(k + 1)
  <2>1. n \in k .. Len(L)
    BY <1>1 DEF n
  <2>2. Tail(SubSeq(L, k, n)) = SubSeq(L, k + 1, n)
    BY <1>1, <2>1, HeadTailOfSubSeq DEF n
  <2> QED BY <1>2, <2>2
<1>6. s # <<>>
  BY <1>1, <1>3
<1>7. NL \in Token
  BY Alphabet
<1>8. Response(s) = Cat(Append(s[1], NL), Response(Tail(s)))
  BY <1>3, <1>6, <1>7, ResponseTail DEF V
<1>9. Response(LinesFrom(k + 1)) \in Seq(Token)
  BY <1>4, <1>7, ResponseTail DEF V
<1> QED BY <1>3, <1>5, <1>8, <1>9 DEF V, L, s

\* All lines are left at first, and none in the end.
LEMMA AllLines ==
    ASSUME files \subseteq Visible(Everything)
    PROVE  LinesFrom(1) = ListAnswer
BY AnswerLines, SubSeqFull DEF LinesFrom

\* recv_line takes the next line off the answer.
LEMMA NextLine ==
    ASSUME NoNewlines, files \subseteq Visible(Everything),
           NEW k \in 1 .. Len(Sorted) + 1, s2c = Response(LinesFrom(k))
    PROVE  /\ HasLine /\ Line = ListAnswer[k]
           /\ Rest = Response(LinesFrom(k + 1))
<1> DEFINE line == ListAnswer[k]
           rest == Response(LinesFrom(k + 1))
           s == Cat(Append(line, NL), rest)
           ends == {n \in DOMAIN s : s[n] = NL}
<1>1. line \in Seq(Token) /\ rest \in Seq(Token) /\ NL \in Token
  BY LinesLeft, Alphabet
<1>2. NL \notin Range(line)
  <2>1. Len(Sorted) + 1 = Len(ListAnswer)
    BY AnswerLines
  <2> QED BY <2>1, AnswerLines
<1>3. s2c = s
  BY LinesLeft
<1>4. LineEnds = ends
  BY <1>3 DEF LineEnds
<1>a. s = Cat(Append(line, NL), rest) /\ ends = {n \in DOMAIN s : s[n] = NL}
  OBVIOUS
<1> HIDE DEF line, rest, s, ends
<1>5. /\ ends # {} /\ SubSeq(s, 1, Min(ends) - 1) = line
      /\ SubSeq(s, Min(ends) + 1, Len(s)) = rest
  BY <1>1, <1>2, <1>a, FirstLine
<1>6. HasLine /\ Line = line /\ Rest = rest
  BY <1>3, <1>4, <1>5 DEF HasLine, Line, Rest
<1> QED BY <1>6 DEF line, rest

\* do_list reads the count behind "OK ".
LEMMA HeaderRead ==
    ASSUME NEW n \in Nat
    PROVE  LET line == Spaced(OK, Decimal(n))
           IN  /\ IsPrefix(OK, line) /\ line # OK
               /\ Number(FirstWord(SubSeq(line, 4, Len(line)))) = n
<1> DEFINE d == Decimal(n)
           line == Spaced(OK, d)
           m == Len(d)
<1>1. d \in Seq(Digit) /\ d # <<>> /\ Number(d) = n
  BY DecimalNumber
<1> HIDE DEF d
<1>2. d \in Seq(Token) /\ OK \in Seq(Token) /\ Blank \in Token /\ Len(OK) = 2
  BY <1>1, Alphabet
<1>3. m \in Nat /\ m >= 1
  BY <1>1
<1>4. /\ line \in Seq(Token) /\ Len(line) = 3 + m
      /\ \A i \in 1 .. 2 : line[i] = OK[i]
      /\ \A i \in 1 .. m : line[3 + i] = d[i]
  <2> HIDE DEF m
  <2>1. /\ line \in Seq(Token) /\ Len(line) = Len(OK) + 1 + Len(d)
        /\ \A i \in 1 .. Len(OK) : line[i] = OK[i]
        /\ \A i \in 1 .. Len(d) : line[Len(OK) + 1 + i] = d[i]
    <3>1. IsSpaced(line, OK, d, Token)
      BY <1>2, SpacedTokens
    <3> HIDE DEF line
    <3> QED BY <3>1 DEF IsSpaced, IsGlued
  <2>2. 2 + 1 = 3 /\ Len(d) = m
    BY DEF m
  <2> QED BY <1>2, <1>3, <2>1, <2>2
<1> HIDE DEF line, m
<1>5. IsPrefix(OK, line) /\ line # OK
  <2>1. Len(line) # 2 /\ 2 <= Len(line)
    BY <1>3, <1>4
  <2>2. SubSeq(line, 1, 2) = SubSeq(OK, 1, 2)
    BY <1>2, <1>3, <1>4
  <2> QED BY <1>2, <2>1, <2>2 DEF IsPrefix
<1>6. SubSeq(line, 4, Len(line)) = d
  <2> DEFINE r == SubSeq(line, 4, 3 + m)
  <2>1. /\ r \in Seq(Token) /\ Len(r) = m
        /\ \A i \in 1 .. m : r[i] = line[3 + i]
    BY <1>3, <1>4
  <2> HIDE DEF r
  <2>2. r = d
    BY <1>2, <1>4, <2>1, SeqEqual DEF m
  <2> QED BY <1>4, <2>2 DEF r
<1>7. Blank \notin Range(d)
  BY <1>1, RangeOfSeq, TenDigits
<1>8. FirstWord(d) = d
  BY <1>1, <1>7, WordAlone
<1> QED BY <1>1, <1>5, <1>6, <1>8 DEF d, line

\* do_list reads a name without blanks and the size behind it.
LEMMA EntryRead ==
    ASSUME NEW U, NEW name \in Seq(U), name # <<>>, Blank \notin Range(name),
           NEW digits \in Seq(Digit), digits # <<>>
    PROVE  LET line == Spaced(name, digits)
           IN  FirstWord(line) = name /\ FirstWord(Behind(line)) = digits
<1> DEFINE line == Spaced(name, digits)
           V == U \cup Digit
<1>1. name \in Seq(V) /\ digits \in Seq(V)
  OBVIOUS
<1> HIDE DEF V
<1>2. Blank \notin Range(digits) /\ Len(digits) \in Nat /\ Len(digits) >= 1
  BY RangeOfSeq, TenDigits
<1>3. \A i \in 1 .. Len(digits) : digits[i] # Blank
  BY <1>2 DEF Range
<1>4. digits[1] # Blank /\ digits[Len(digits)] # Blank
  BY <1>2, <1>3
<1>5. FirstWord(line) = name /\ Behind(line) = <<Blank>> \o digits
  BY <1>1, <1>4, TwoWords
<1>6. Trim(<<Blank>> \o digits) = digits
  BY <1>4, BlankBefore
<1>7. {i \in DOMAIN digits : digits[i] = Blank} = {}
  BY <1>3
<1>8. FirstWord(<<Blank>> \o digits) = digits
  BY <1>6, <1>7 DEF FirstWord
<1> QED BY <1>5, <1>8
-----------------------------------------------------------------------------
(* ListingInv is inductive *)

\* The steps of the list's scan leave the client and the stream alone.
LEMMA ScanAlone ==
    ASSUME ScanOpen \/ ScanEntry \/ ScanSize \/ ScanBreak \/ ScanEnd
    PROVE  /\ UNCHANGED <<c2s, s2c, cpc, request, count, shown, cut>>
           /\ spc \in {"open", "scan", "size"}
           /\ spc' \in {"scan", "size", "send"}
           /\ spc' = "send" => /\ out' = Response(ListAnswer)
                              /\ files' = files
           /\ UNCHANGED files \/ ScanSize
BY DEF ScanOpen, ScanEntry, Visits, ScanSize, ScanBreak, ScanEnd, ScanLeaves,
       SGoto, notScan, notSession, clientVars, replyVars, ListAnswer

\* Of the other steps of the session only those that send touch the stream.
LEMMA ElsewhereSends ==
    ASSUME Elsewhere
    PROVE  /\ UNCHANGED <<files, c2s, cpc, request, count, shown>>
           /\ \/ UNCHANGED <<s2c, cut>>
              \/ SessionError \/ SessionQuit \/ SendAll \/ SendFail
BY DEF Elsewhere, SessionRecvFail, SessionTail, ScanThrow, GetSize, GetOpen,
       GetDenied, SessionError, SessionQuit, SendAll, SendFail, Tells,
       notSession, notReply, clientVars, scanVars

\* Where those steps lead.
LEMMA ElsewherePlaces ==
    ASSUME Elsewhere
    PROVE  /\ spc = "recv" => spc' = "tail"
           /\ spc = "error" => spc' = "recv"
           /\ spc = "bye" => spc' = "tail"
           /\ spc = "send" => (SendAll /\ spc' = "recv") \/ SendFail
           /\ spc = "tail" => spc' = "done"
           /\ spc = "scan" => spc' = "terminated"
           /\ spc = "getsize" => spc' \in {"getopen", "error"}
           /\ spc = "getopen" => spc' \in {"send", "error"}
           /\ spc \in {"recv", "error", "bye", "send", "tail", "scan",
                       "getsize", "getopen"}
           /\ SendFail => spc' = "tail" /\ cut'
           /\ SendFail \/ UNCHANGED cut
BY DEF Elsewhere, SessionRecvFail, SessionTail, ScanThrow, GetSize, GetOpen,
       GetDenied, SessionError, SessionQuit, SendAll, SendFail, Tells, SGoto,
       notSession, notReply, scanVars

\* Before the request, and what was found.
LEMMA BeginStep ==
    ASSUME RequestsInv, BeginInv, [Next]_vars
    PROVE  BeginInv'
<1> USE DEF BeginInv
<1>0. OneRequestInv /\ EntriesInv
  BY DEF RequestsInv
<1>1. CASE SessionRecv
  <2>1. UNCHANGED <<cpc, request, shown, count, s2c, cut, files>>
        /\ spc = "recv"
    BY <1>1 DEF SessionRecv, SGoto, notSession, scanVars, clientVars
  <2> QED BY <2>1
<1>2. CASE ScanOpen \/ ScanEntry \/ ScanSize \/ ScanBreak \/ ScanEnd
  <2>1. files' \subseteq Visible(Files \cup DOMAIN Links)
    <3>1. CASE UNCHANGED files
      BY <3>1
    <3>2. CASE ScanSize
      <4>1. spc = "size" /\ files' = IF is_regular_file(here, cur)
                                     THEN files \cup {cur} ELSE files
        BY <3>2 DEF ScanSize, SGoto
      <4>2. is_regular_file(here, cur) => cur \in Visible(here)
        BY <1>0, <4>1, VisibleNow DEF EntriesInv
      <4>3. Visible(here) \subseteq Visible(Files \cup DOMAIN Links)
        BY <1>0, VisibleGrows DEF EntriesInv
      <4> QED BY <4>1, <4>2, <4>3
    <3> QED BY <1>2, <3>1, <3>2, ScanAlone
  <2>2. /\ UNCHANGED <<cpc, request, shown, count, s2c, cut>>
        /\ spc \in {"open", "scan", "size"}
    BY <1>2, ScanAlone
  <2> QED BY <2>1, <2>2
<1>3. CASE Elsewhere
  <2>1. UNCHANGED <<files, cpc, request, count, shown>>
    BY <1>3, ElsewhereSends
  <2>2. cut' => spc' \in {"tail", "done"}
    BY <1>3, ElsewherePlaces
  <2>3. cpc \in {"start", "connected"} => s2c' = s2c
    <3>1. SessionError \/ SessionQuit \/ SendAll \/ SendFail
            => spc \in {"error", "bye", "send"}
      BY DEF SessionError, SessionQuit, SendAll, SendFail, Tells, SGoto
    <3> QED BY <1>0, <1>3, <3>1, ElsewhereSends DEF OneRequestInv, Waiting
  <2> QED BY <2>1, <2>2, <2>3
<1>4. CASE Connect
  BY <1>4 DEF Connect, CGoto, SGoto, scanVars
<1>5. CASE ClientSends
  BY <1>5 DEF ClientSends, CGoto, notClient, scanVars
<1>6. CASE ClientListed
  <2>1. cpc' = "success" /\ UNCHANGED <<spc, cut, files>>
    <3> HIDE DEF BeginInv
    <3> QED BY <1>6 DEF ClientListed, CGoto, notClient, scanVars
  <2>2. cpc' \notin {"start", "connected", "header"}
    BY <2>1
  <2> QED BY <2>1, <2>2
<1>7. CASE ClientAlone
  <2>1. /\ UNCHANGED <<spc, cut, files>>
        /\ cpc' \notin {"start", "connected", "header"}
    <3> HIDE DEF BeginInv
    <3> QED BY <1>7 DEF ClientAlone, ClientHeader, ClientLine, ClientRecvFail,
                        ClientClose, CGoto, notClient, scanVars, Finished
  <2> QED BY <2>1
<1>8. CASE DirectoryChanges
  BY <1>8 DEF DirectoryChanges, clientVars
<1>9. CASE UNCHANGED vars
  BY <1>9 DEF vars, scanVars, clientVars
<1> QED BY Steps, <1>1, <1>2, <1>3, <1>4, <1>5, <1>6, <1>7, <1>8, <1>9

\* The answer depends on what was found only.
LEMMA SameAnswer ==
    ASSUME files' = files
    PROVE  /\ Sorted' = Sorted /\ ListAnswer' = ListAnswer
           /\ \A k : LinesFrom(k)' = LinesFrom(k)
BY DEF Sorted, ListAnswer, LinesFrom

\* A session with a LIST in hand scans, sends the list and takes a QUIT.
LEMMA SessionStep ==
    ASSUME RequestsInv, ListingInv, [Next]_vars
    PROVE  SessionInv'
<1> USE DEF SessionInv
<1>0. OneRequestInv /\ BeginInv /\ SessionInv /\ FlightInv
  BY DEF RequestsInv, ListingInv
<1> SUFFICES ASSUME IsList', ~cut'
             PROVE  /\ spc' \notin {"error", "getsize", "getopen"}
                    /\ c2s' \in {NoLine, request', Quit}
                    /\ c2s' = Quit \/ spc' = "bye" => cpc' = "success"
                    /\ spc' = "send" => out' = Response(ListAnswer)'
  OBVIOUS
<1>1. CASE SessionRecv
  <2>1. /\ UNCHANGED <<cpc, request, cut>> /\ c2s' = NoLine /\ c2s # NoLine
        /\ spc' = Handlers[parse_request(c2s).type]
    BY <1>1 DEF SessionRecv, SGoto, notSession, clientVars
  <2>2. IsList /\ ~cut
    BY <2>1 DEF IsList
  <2>3. c2s = <<"LIST">> \/ (c2s = Quit /\ cpc = "success")
    <3>1. /\ c2s \in {NoLine, request, Quit}
          /\ c2s = Quit \/ spc = "bye" => cpc = "success"
      BY <1>0, <2>2
    <3>2. request = <<"LIST">>
      BY <2>2 DEF IsList
    <3>3. c2s # NoLine
      BY <2>1
    <3> QED BY <3>1, <3>2, <3>3
  <2>4. \/ c2s = <<"LIST">> /\ spc' = "open"
        \/ cpc = "success" /\ spc' = "bye"
    BY <2>1, <2>3, LoneCommand DEF Handlers
  <2>5. Quit # NoLine
    BY DEF Quit, NoLine, NL
  <2> QED BY <2>1, <2>4, <2>5
<1>2. CASE ScanOpen \/ ScanEntry \/ ScanSize \/ ScanBreak \/ ScanEnd
  <2>1. UNCHANGED <<c2s, cpc, request, cut>> /\ IsList /\ ~cut
    BY <1>2, ScanAlone DEF IsList
  <2>2. spc' \in {"scan", "size", "send"}
    BY <1>2, ScanAlone
  <2>3. spc' = "send" => out' = Response(ListAnswer)'
    BY <1>2, ScanAlone, SameAnswer
  <2> QED BY <1>0, <2>1, <2>2, <2>3
<1>3. CASE Elsewhere
  <2>1. UNCHANGED <<files, c2s, cpc, request, cut>> /\ IsList /\ ~cut
    BY <1>3, ElsewhereSends, ElsewherePlaces DEF IsList
  <2>2. spc' \notin {"error", "getsize", "getopen", "send", "bye"}
    BY <1>0, <1>3, <2>1, ElsewherePlaces
  <2> QED BY <1>0, <2>1, <2>2
<1>4. CASE Connect
  BY <1>0, <1>4 DEF Connect, CGoto, SGoto, IsList, BeginInv, NoLine, NL
<1>5. CASE ClientSends
  <2>1. /\ spc' = spc /\ c2s' = request' /\ cpc = "connected"
        /\ spc \in Waiting
    BY <1>0, <1>5 DEF ClientSends, CGoto, notClient, OneRequestInv
  <2>2. c2s' # Quit
    BY <2>1 DEF IsList, Quit
  <2> QED BY <2>1, <2>2 DEF Waiting
<1>6. CASE ClientListed
  <2>1. /\ UNCHANGED <<spc, out, request, cut, files>> /\ c2s' = Quit
        /\ cpc' = "success" /\ IsList /\ ~cut
    BY <1>6 DEF ClientListed, CGoto, notClient, scanVars, replyVars, IsList,
                Quit
  <2> QED BY <1>0, <2>1, SameAnswer
<1>7. CASE ClientAlone
  <2>1. /\ UNCHANGED <<spc, out, c2s, request, cut, files>> /\ IsList /\ ~cut
        /\ cpc = "success" => cpc' = "success"
    BY <1>7 DEF ClientAlone, ClientHeader, ClientLine, ClientRecvFail,
                ClientClose, CGoto, notClient, scanVars, replyVars, IsList
  <2> QED BY <1>0, <2>1, SameAnswer
<1>8. CASE DirectoryChanges
  <2>1. UNCHANGED <<spc, out, c2s, cpc, request, cut, files>> /\ IsList
        /\ ~cut
    BY <1>8 DEF DirectoryChanges, clientVars, replyVars, IsList
  <2> QED BY <1>0, <2>1, SameAnswer
<1>9. CASE UNCHANGED vars
  <2>1. UNCHANGED <<spc, out, c2s, cpc, request, cut, files>> /\ IsList
        /\ ~cut
    BY <1>9 DEF vars, scanVars, clientVars, replyVars, IsList
  <2> QED BY <1>0, <2>1, SameAnswer
<1> QED BY Steps, <1>1, <1>2, <1>3, <1>4, <1>5, <1>6, <1>7, <1>8, <1>9

\* do_list takes the header.
LEMMA HeaderStep ==
    ASSUME NoNewlines, BeginInv, FlightInv, IsList, ~cut, ClientHeader
    PROVE  /\ cpc' = "lines" /\ Answered /\ shown = <<>>
           /\ count' = Len(Sorted) /\ s2c' = Response(LinesFrom(2))
<1>1. /\ cpc = "header" /\ HasLine /\ s2c' = Rest
      /\ IsPrefix(OK, Line) /\ Line # OK =>
            /\ cpc' = "lines"
            /\ count' = Number(FirstWord(SubSeq(Line, 4, Len(Line))))
  BY DEF ClientHeader, CGoto
<1>2. s2c # <<>>
  <2> SUFFICES ASSUME s2c = <<>> PROVE FALSE
    OBVIOUS
  <2>1. DOMAIN s2c = {}
    OBVIOUS
  <2> QED BY <1>1, <2>1 DEF HasLine, LineEnds
<1>3. s2c = Response(ListAnswer) /\ Answered
  BY <1>1, <1>2 DEF FlightInv
<1>4. shown = <<>> /\ files \subseteq Visible(Everything)
  BY <1>1 DEF BeginInv, Everything
<1>5. s2c = Response(LinesFrom(1))
  BY <1>3, <1>4, AllLines
<1>6. Len(Sorted) \in Nat /\ 1 \in 1 .. Len(Sorted) + 1 /\ 1 + 1 = 2
  BY <1>4, SortedFiles
<1>7. Line = ListAnswer[1] /\ Rest = Response(LinesFrom(2))
  BY <1>4, <1>5, <1>6, NextLine
<1>8. Line = Spaced(OK, Decimal(Len(Sorted)))
  BY <1>4, <1>7, AnswerLines
<1>9. /\ IsPrefix(OK, Line) /\ Line # OK
      /\ Number(FirstWord(SubSeq(Line, 4, Len(Line)))) = Len(Sorted)
  BY <1>6, <1>8, HeaderRead
<1> QED BY <1>1, <1>3, <1>4, <1>7, <1>9

\* do_list takes a line and prints it.
LEMMA LineStep ==
    ASSUME NoNewlines, TypeOK, BeginInv, FlightInv, IsList, ~cut, ClientLine
    PROVE  /\ ShownSoFar'
           /\ s2c' = Response(LinesFrom(Len(shown') + 2))
<1> DEFINE k == Len(shown) + 1
           entry == Sorted[k]
           new == [name |-> FirstWord(Line),
                   size |-> Number(FirstWord(Behind(Line)))]
<1>1. /\ cpc = "lines" /\ Len(shown) < count /\ s2c' = Rest
      /\ shown' = Append(shown, new) /\ files' = files
  BY DEF ClientLine, notClient, scanVars
<1>2. /\ ShownSoFar /\ count = Len(Sorted)
      /\ s2c = Response(LinesFrom(Len(shown) + 2))
  BY <1>1 DEF FlightInv
<1>3. files \subseteq Visible(Everything) /\ Len(Sorted) \in Nat
  BY SortedFiles DEF BeginInv, Everything
<1>4. shown \in Seq(Range(shown)) /\ Len(shown) \in Nat
  BY DEF TypeOK
<1>5. /\ k \in 1 .. Len(Sorted) /\ k + 1 \in 1 .. Len(Sorted) + 1
      /\ Len(shown) + 2 = k + 1
  BY <1>1, <1>2, <1>3, <1>4
<1>6. Line = ListAnswer[k + 1] /\ Rest = Response(LinesFrom(k + 2))
  <2> HIDE DEF k
  <2>1. s2c = Response(LinesFrom(k + 1)) /\ k + 1 + 1 = k + 2
    BY <1>2, <1>5
  <2> QED BY <1>3, <1>5, <2>1, NextLine
<1>7. Line = Spaced(entry.name, entry.size)
  BY <1>3, <1>5, <1>6, AnswerLines
<1>8. /\ entry.name \in Names /\ entry.size \in Seq(Digit)
      /\ entry.size # <<>>
  BY <1>3, <1>5, SortedFiles
<1>9. Blank \in Range(entry.name)
        \/ new = [name |-> entry.name, size |-> Number(entry.size)]
  <2>1. entry.name \in Seq(Token) /\ entry.name # <<>>
    BY <1>8, Alphabet
  <2> HIDE DEF entry
  <2>2. CASE Blank \notin Range(entry.name)
    <3>1. FirstWord(Line) = entry.name /\ FirstWord(Behind(Line)) = entry.size
      BY <1>7, <1>8, <2>1, <2>2, EntryRead
    <3> QED BY <3>1
  <2> QED BY <2>2
<1> HIDE DEF new
<1>10. /\ DOMAIN shown' = 1 .. k /\ shown'[k] = new /\ Len(shown') = k
       /\ DOMAIN shown = 1 .. k - 1
       /\ \A i \in 1 .. k - 1 : shown'[i] = shown[i]
  <2> DEFINE S == Range(shown) \cup {new}
             t == Append(shown, new)
  <2>1. shown \in Seq(S) /\ new \in S
    BY <1>4, SeqMonotonic
  <2> HIDE DEF S
  <2>2. /\ t \in Seq(S) /\ Len(t) = Len(shown) + 1
        /\ \A i \in 1 .. Len(shown) : t[i] = shown[i]
        /\ t[Len(shown) + 1] = new
    BY <2>1, AppendProperties
  <2>3. shown' = t
    BY <1>1
  <2> HIDE DEF t
  <2>4. k - 1 = Len(shown)
    BY <1>4
  <2>5. DOMAIN t = 1 .. Len(t) /\ DOMAIN shown = 1 .. Len(shown)
    BY <2>1, <2>2
  <2> QED BY <2>2, <2>3, <2>4, <2>5
<1>11. Sorted' = Sorted
  BY <1>1, SameAnswer
<1>12. ShownSoFar'
  <2> DEFINE Fits(i, line) ==
               \/ Blank \in Range(Sorted[i].name)
               \/ line = [name |-> Sorted[i].name,
                          size |-> Number(Sorted[i].size)]
  <2>1. \A i \in 1 .. k - 1 : Fits(i, shown[i])
    BY <1>2, <1>10 DEF ShownSoFar
  <2>2. Fits(k, new)
    BY <1>9
  <2> HIDE DEF Fits
  <2>3. \A i \in 1 .. k : i \in 1 .. k - 1 \/ i = k
    BY <1>4
  <2>4. \A i \in DOMAIN shown' : Fits(i, shown'[i])
    BY <1>10, <2>1, <2>2, <2>3
  <2> QED BY <1>11, <2>4 DEF ShownSoFar, Fits
<1>13. s2c' = Response(LinesFrom(Len(shown') + 2))
  BY <1>1, <1>6, <1>10
<1> QED BY <1>12, <1>13

\* What was printed fits the list as long as both stay.
LEMMA SameShown ==
    ASSUME files' = files, shown' = shown
    PROVE  /\ ShownSoFar' <=> ShownSoFar
           /\ Len(shown') = Len(Sorted') <=> Len(shown) = Len(Sorted)
BY SameAnswer DEF ShownSoFar

\* What is in flight are the lines that are not yet printed.
LEMMA StreamStep ==
    ASSUME NoNewlines, TypeOK, RequestsInv, ListingInv, [Next]_vars
    PROVE  FlightInv'
<1>0. OneRequestInv /\ BeginInv /\ SessionInv /\ FlightInv
  BY DEF RequestsInv, ListingInv
<1> DEFINE Header == cpc = "header" =>
                       \/ s2c = <<>>
                       \/ s2c = Response(ListAnswer) /\ Answered
           Printing == cpc = "lines" =>
                       /\ Answered /\ ShownSoFar
                       /\ count = Len(Sorted)
                       /\ s2c = Response(LinesFrom(Len(shown) + 2))
           Printed == cpc = "success" =>
                       /\ ShownSoFar /\ Len(shown) = Len(Sorted)
                       /\ c2s \in {NoLine, Quit}
                       /\ spc \in {"recv", "bye", "tail", "done"}
<1> SUFFICES ASSUME IsList', ~cut' PROVE Header' /\ Printing' /\ Printed'
  BY DEF FlightInv
<1>a. ASSUME IsList, ~cut PROVE Header /\ Printing /\ Printed
  BY <1>0, <1>a DEF FlightInv
<1>b. ASSUME cpc' \notin {"header", "lines", "success"}
      PROVE  Header' /\ Printing' /\ Printed'
  BY <1>b
<1>c. ASSUME UNCHANGED <<spc, c2s, s2c, cpc, request, count, shown, cut,
                         files>>
      PROVE  Header' /\ Printing' /\ Printed'
  <2>1. IsList /\ ~cut
    BY <1>c DEF IsList
  <2>2. Answered' <=> Answered
    BY <1>c DEF Answered
  <2>3. /\ ListAnswer' = ListAnswer /\ Sorted' = Sorted
        /\ LinesFrom(Len(shown) + 2)' = LinesFrom(Len(shown) + 2)
    BY <1>c DEF Sorted, ListAnswer, LinesFrom
  <2> QED BY <1>a, <1>c, <2>1, <2>2, <2>3, SameShown
<1>1. CASE SessionRecv
  <2>1. /\ UNCHANGED <<cpc, request, cut, s2c, shown, count, files>>
        /\ c2s' = NoLine /\ c2s # NoLine
        /\ spc' = Handlers[parse_request(c2s).type]
    BY <1>1 DEF SessionRecv, SGoto, notSession, scanVars, clientVars
  <2>2. IsList /\ ~cut
    BY <2>1 DEF IsList
  <2>3. ~Answered
    BY <2>1 DEF Answered
  <2>4. Header' /\ Printing'
    BY <1>a, <2>1, <2>2, <2>3
  <2>5. cpc = "success" => spc' = "bye"
    BY <1>a, <2>1, <2>2, LoneCommand DEF Handlers, Quit
  <2> QED BY <1>a, <2>1, <2>2, <2>4, <2>5, SameShown
<1>2. CASE ScanOpen \/ ScanEntry \/ ScanSize \/ ScanBreak \/ ScanEnd
  <2>1. /\ UNCHANGED <<c2s, s2c, cpc, request, count, shown, cut>>
        /\ spc \in {"open", "scan", "size"}
    BY <1>2, ScanAlone
  <2>2. IsList /\ ~cut /\ ~Answered
    BY <2>1 DEF IsList, Answered
  <2> QED BY <1>a, <2>1, <2>2
<1>3. CASE Elsewhere
  <2>1. UNCHANGED <<files, c2s, cpc, request, count, shown, cut>>
    BY <1>3, ElsewhereSends, ElsewherePlaces
  <2>2. IsList /\ ~cut /\ ~SendFail
    BY <1>3, <2>1, ElsewherePlaces DEF IsList
  <2>3. spc \notin {"error", "getsize", "getopen"}
    BY <1>0, <2>2 DEF SessionInv
  <2>4. CASE UNCHANGED s2c
    <3>1. Answered => Answered'
      BY <1>3, <2>1, ElsewherePlaces DEF Answered
    <3>2. spc \in {"recv", "bye", "tail", "done"} => spc' \in {"tail", "done"}
      BY <1>3, ElsewherePlaces
    <3>3. /\ ListAnswer' = ListAnswer /\ Sorted' = Sorted
          /\ LinesFrom(Len(shown) + 2)' = LinesFrom(Len(shown) + 2)
      BY <2>1 DEF Sorted, ListAnswer, LinesFrom
    <3> QED BY <1>a, <2>1, <2>2, <2>4, <3>1, <3>2, <3>3, SameShown
  <2>5. CASE SessionQuit
    <3>1. spc = "bye" /\ spc' = "tail"
      BY <2>5 DEF SessionQuit, Tells, SGoto
    <3>2. cpc = "success"
      BY <1>0, <2>2, <3>1 DEF SessionInv
    <3> QED BY <1>a, <2>1, <2>2, <3>1, <3>2, SameShown
  <2>6. CASE SendAll
    <3>1. spc = "send" /\ spc' = "recv" /\ s2c' = s2c \o out
      BY <2>6 DEF SendAll, SGoto
    <3>2. cpc \notin {"lines", "success", "start", "connected"}
      BY <1>0, <1>a, <2>2, <3>1 DEF Answered, OneRequestInv, Waiting
    <3>3. c2s = NoLine /\ out = Response(ListAnswer)
      BY <1>0, <2>2, <3>1, <3>2 DEF SessionInv, OneRequestInv, Waiting
    <3>4. cpc = "header" => s2c' = Response(ListAnswer)' /\ Answered'
      <4>1. cpc = "header" => s2c = <<>>
        BY <1>a, <2>2, <3>1 DEF Answered
      <4>2. out \in Seq(Range(out))
        BY DEF TypeOK
      <4>3. <<>> \o out = out
        BY <4>2
      <4>4. ListAnswer' = ListAnswer
        BY <2>1, SameAnswer
      <4> QED BY <2>1, <3>1, <3>3, <4>1, <4>3, <4>4 DEF Answered
    <3> QED BY <2>1, <3>2, <3>4
  <2>7. spc # "error" => ~SessionError
    BY DEF SessionError, Tells, SGoto
  <2> QED BY <1>3, <2>2, <2>3, <2>4, <2>5, <2>6, <2>7, ElsewhereSends
<1>4. CASE Connect
  BY <1>4, <1>b DEF Connect, CGoto
<1>5. CASE ClientSends
  <2>1. cpc = "connected" /\ cpc' = "header" /\ s2c' = s2c
    BY <1>5 DEF ClientSends, CGoto
  <2> QED BY <1>0, <2>1 DEF BeginInv
<1>6. CASE ClientListed
  <2>1. /\ UNCHANGED <<spc, request, shown, cut, files>> /\ c2s' = Quit
        /\ cpc = "lines" /\ cpc' = "success" /\ Len(shown) = count
    BY <1>6 DEF ClientListed, CGoto, notClient, scanVars, Quit
  <2>2. IsList /\ ~cut
    BY <2>1 DEF IsList
  <2> QED BY <1>a, <2>1, <2>2, SameShown DEF Answered
<1>7. CASE ClientAlone
  <2>1. UNCHANGED <<spc, c2s, request, cut, files>> /\ IsList /\ ~cut
    BY <1>7 DEF ClientAlone, ClientHeader, ClientLine, ClientRecvFail,
                ClientClose, CGoto, notClient, scanVars, IsList
  <2>2. Answered' <=> Answered
    BY <2>1 DEF Answered
  <2>3. Sorted' = Sorted /\ \A k : LinesFrom(k)' = LinesFrom(k)
    BY <2>1, SameAnswer
  <2>4. CASE ClientHeader
    <3>1. /\ cpc' = "lines" /\ Answered /\ shown = <<>>
          /\ count' = Len(Sorted) /\ s2c' = Response(LinesFrom(2))
      BY <1>0, <2>1, <2>4, HeaderStep
    <3>2. shown' = <<>>
      BY <2>4, <3>1 DEF ClientHeader
    <3>3. ShownSoFar'
      BY <3>2 DEF ShownSoFar
    <3>4. LinesFrom(Len(shown) + 2)' = LinesFrom(2)
      BY <2>1, <3>2, SameAnswer DEF LinesFrom
    <3> QED BY <2>2, <2>3, <3>1, <3>3, <3>4
  <2>5. CASE ClientLine
    <3>1. ShownSoFar' /\ s2c' = Response(LinesFrom(Len(shown') + 2))
      BY <1>0, <2>1, <2>5, LineStep
    <3>2. cpc = "lines" /\ UNCHANGED <<cpc, count>>
      BY <2>5 DEF ClientLine
    <3>3. LinesFrom(Len(shown) + 2)' = LinesFrom(Len(shown') + 2)
      BY <2>1, SameAnswer DEF LinesFrom
    <3> QED BY <1>a, <2>1, <2>2, <2>3, <3>1, <3>2, <3>3
  <2>6. CASE ClientRecvFail
    BY <1>b, <2>6 DEF ClientRecvFail, CGoto
  <2>7. CASE ClientClose
    <3>1. UNCHANGED <<s2c, cpc, count, shown>>
      BY <2>7 DEF ClientClose
    <3> QED BY <1>c, <2>1, <3>1
  <2> QED BY <1>7, <2>4, <2>5, <2>6, <2>7 DEF ClientAlone
<1>8. CASE DirectoryChanges
  BY <1>8, <1>c DEF DirectoryChanges, clientVars
<1>9. CASE UNCHANGED vars
  BY <1>9, <1>c DEF vars, scanVars, clientVars
<1> QED BY Steps, <1>1, <1>2, <1>3, <1>4, <1>5, <1>6, <1>7, <1>8, <1>9
-----------------------------------------------------------------------------
(* Types *)

\* A text is a sequence of whatever it is made of.
IsText(s) == s \in Seq(Range(s))

\* Texts put together, and parts of a text, are texts.
LEMMA Texts ==
    /\ \A U : \A s \in Seq(U) : IsText(s)
    /\ \A s, t : IsText(s) /\ IsText(t) => IsText(s \o t)
    /\ \A s : \A m, n \in Int :
         IsText(s) /\ 1 <= m /\ n <= Len(s) => IsText(SubSeq(s, m, n))
    /\ IsText(<<>>)
<1>1. ASSUME NEW U, NEW s \in Seq(U) PROVE IsText(s)
  BY SeqOfRange DEF IsText
<1>2. ASSUME NEW s, NEW t, IsText(s), IsText(t) PROVE IsText(s \o t)
  <2> DEFINE U == Range(s) \cup Range(t)
  <2>1. s \in Seq(U) /\ t \in Seq(U)
    BY <1>2, SeqMonotonic DEF IsText
  <2> HIDE DEF U
  <2>2. s \o t \in Seq(U)
    BY <2>1
  <2> QED BY <1>1, <2>2
<1>3. ASSUME NEW s, NEW m \in Int, NEW n \in Int, IsText(s), 1 <= m,
             n <= Len(s)
      PROVE  IsText(SubSeq(s, m, n))
  <2>1. s \in Seq(Range(s))
    BY <1>3 DEF IsText
  <2>2. \A i \in m .. n : s[i] \in Range(s)
    BY <1>3, <2>1
  <2>3. SubSeq(s, m, n) \in Seq(Range(s))
    BY <2>2, SubSeqProperties
  <2> QED BY <1>1, <2>3
<1>4. IsText(<<>>)
  <2>1. <<>> \in Seq({})
    OBVIOUS
  <2> QED BY <1>1, <2>1
<1> QED BY <1>1, <1>2, <1>3, <1>4

\* Every response that a session builds is a text.
LEMMA Responses ==
    /\ files \subseteq Visible(Everything) => IsText(Response(ListAnswer))
    /\ IsText(Response(<<ErrorLine("reason")>>))
    /\ IsText(Response(<<OkLine(<<"BYE">>)>>))
    /\ \A digits \in Seq(Range(Digits)) : IsText(Response(<<OkLine(digits)>>))
<1>1. files \subseteq Visible(Everything) => IsText(Response(ListAnswer))
  BY AnswerLines, Alphabet, ResponseTail, Texts
<1>2. ASSUME NEW U, NL \in U, NEW line \in Seq(U)
      PROVE  IsText(Response(<<line>>))
  <2> DEFINE lines == <<line>>
  <2>1. lines \in Seq(Seq(U))
    BY <1>2
  <2> HIDE DEF lines
  <2>2. Response(lines) \in Seq(U)
    BY <1>2, <2>1, ResponseTail
  <2>3. IsText(Response(lines))
    BY <2>2, Texts
  <2> QED BY <2>3 DEF lines
<1>3. ASSUME NEW U, OK \in Seq(U), Blank \in U, NEW text \in Seq(U)
      PROVE  OkLine(text) \in Seq(U)
  BY <1>3, SpacedTokens DEF OkLine, Spaced, Glued, IsSpaced, IsGlued
<1>4. IsText(Response(<<ErrorLine("reason")>>))
  <2> DEFINE U == {"ERROR", Blank, "reason", NL}
  <2>1. ErrorLine("reason") \in Seq(U) /\ NL \in U
    BY DEF ErrorLine
  <2> HIDE DEF U
  <2> QED BY <1>2, <2>1
<1>5. IsText(Response(<<OkLine(<<"BYE">>)>>))
  <2> DEFINE U == Token \cup {"BYE"}
             bye == <<"BYE">>
  <2>1. bye \in Seq(U) /\ Token \subseteq U
    OBVIOUS
  <2> HIDE DEF U, bye
  <2>2. OK \in Seq(U) /\ Blank \in U /\ NL \in U
    BY <2>1, Alphabet, SeqMonotonic
  <2>3. OkLine(bye) \in Seq(U)
    BY <1>3, <2>1, <2>2
  <2>4. IsText(Response(<<OkLine(bye)>>))
    BY <1>2, <2>2, <2>3
  <2> QED BY <2>4 DEF bye
<1>6. ASSUME NEW digits \in Seq(Range(Digits))
      PROVE  IsText(Response(<<OkLine(digits)>>))
  <2>1. digits \in Seq(Digit)
    BY DEF Digit
  <2>2. digits \in Seq(Token)
    BY <2>1, Alphabet
  <2>3. OkLine(digits) \in Seq(Token)
    BY <1>3, <2>2, Alphabet
  <2> QED BY <1>2, <2>3, Alphabet
<1> QED BY <1>1, <1>4, <1>5, <1>6

\* A line and what is behind it are texts.
LEMMA LineText ==
    ASSUME IsText(s2c)
    PROVE  IsText(Line) /\ IsText(Rest)
<1>1. s2c \in Seq(Range(s2c)) /\ Len(s2c) \in Nat
  BY DEF IsText
<1>2. CASE LineEnds # {}
  <2> DEFINE e == Min(LineEnds)
  <2>1. LineEnds \in SUBSET Nat /\ LineEnds \subseteq 1 .. Len(s2c)
    BY <1>1 DEF LineEnds
  <2>2. e \in 1 .. Len(s2c)
    BY <1>2, <2>1, MinIn
  <2> HIDE DEF e
  <2>3. /\ e - 1 \in Int /\ e + 1 \in Int /\ e - 1 <= Len(s2c)
        /\ 1 <= e + 1 /\ Len(s2c) \in Int
    BY <1>1, <2>2
  <2>4. IsText(SubSeq(s2c, 1, e - 1))
    BY <2>3, Texts
  <2>5. IsText(SubSeq(s2c, e + 1, Len(s2c)))
    BY <2>3, Texts
  <2> QED BY <1>2, <2>4, <2>5 DEF Line, Rest, e
<1>3. CASE LineEnds = {}
  BY <1>3, Texts DEF Line, Rest
<1> QED BY <1>2, <1>3
\* Where everyone is, and what the file system and the scan are made of.
LEMMA PlacesStep ==
    ASSUME TypeOK, RequestsInv, BeginInv, [Next]_vars
    PROVE  /\ changes' \in 0 .. MaxChanges
           /\ spc' \in SessionPC /\ sside' \in {"open", "shut"}
           /\ cpc' \in ClientPC /\ cside' \in {"open", "closed"}
           /\ ec' \in BOOLEAN /\ gaveUp' \in BOOLEAN /\ cut' \in BOOLEAN
           /\ steady' \subseteq known'
<1> USE DEF SessionPC, ClientPC
<1>0. /\ changes \in 0 .. MaxChanges
      /\ spc \in SessionPC /\ sside \in {"open", "shut"}
      /\ cpc \in ClientPC /\ cside \in {"open", "closed"}
      /\ ec \in BOOLEAN /\ gaveUp \in BOOLEAN /\ cut \in BOOLEAN
      /\ steady \subseteq known /\ MaxChanges \in Nat
  BY RequestsAssumption DEF TypeOK
<1>1. CASE SessionRecv
  BY <1>0, <1>1, Types DEF SessionRecv, SGoto, notSession, fsVars, pastVars,
                           scanVars, clientVars
<1>2. CASE ScanOpen
  BY <1>0, <1>2 DEF ScanOpen, SGoto, fsVars, clientVars
<1>3. CASE ScanEntry
  <2>1. /\ UNCHANGED <<changes, sside, cpc, cside, gaveUp, cut, steady, known>>
        /\ spc' \in {"size", "scan"} /\ ec' \in BOOLEAN
    BY <1>3 DEF ScanEntry, Visits, notScan, notSession, fsVars, pastVars,
                clientVars
  <2> QED BY <1>0, <2>1
<1>4. CASE ScanSize
  <2>1. /\ UNCHANGED <<changes, sside, cpc, cside, gaveUp, cut, steady, known>>
        /\ spc' = "scan" /\ ec' \in BOOLEAN
    BY <1>4 DEF ScanSize, SGoto, notScan, notSession, fsVars, pastVars,
                clientVars
  <2> QED BY <1>0, <2>1
<1>5. CASE ScanBreak \/ ScanEnd
  BY <1>0, <1>5 DEF ScanBreak, ScanEnd, ScanLeaves, SGoto, notSession, fsVars,
                    pastVars, clientVars
<1>6. CASE Elsewhere
  <2>1. /\ UNCHANGED <<changes, cpc, cside, ec, gaveUp, steady, known>>
        /\ spc' \in SessionPC /\ sside' \in {"open", "shut"}
        /\ cut' \in BOOLEAN
    BY <1>0, <1>6 DEF Elsewhere, SessionRecvFail, SessionError, SessionQuit,
       SendAll, SendFail, SessionTail, ScanThrow, GetSize, GetOpen, GetDenied,
       Tells, SGoto, notSession, notReply, fsVars, pastVars, clientVars,
       scanVars
  <2> QED BY <1>0, <2>1
<1>7. CASE Connect \/ ClientSends \/ ClientListed
  <2>1. /\ UNCHANGED <<changes, sside, cside, ec, gaveUp, cut, steady, known>>
        /\ spc' \in SessionPC /\ cpc' \in ClientPC
    BY <1>0, <1>7 DEF Connect, ClientSends, ClientListed, CGoto, SGoto,
                      notClient, fsVars, pastVars, scanVars, Finished
  <2> QED BY <1>0, <2>1
<1>8. CASE ClientAlone
  <2>1. /\ UNCHANGED <<changes, spc, sside, ec, gaveUp, cut, steady, known>>
        /\ cpc' \in ClientPC /\ cside' \in {"open", "closed"}
    BY <1>0, <1>8 DEF ClientAlone, ClientHeader, ClientLine, ClientRecvFail,
       ClientClose, CGoto, notClient, fsVars, pastVars, scanVars, Finished
  <2> QED BY <1>0, <2>1
<1>9. CASE DirectoryChanges
  BY <1>0, <1>9 DEF DirectoryChanges, clientVars
<1>10. CASE UNCHANGED vars
  BY <1>0, <1>10 DEF vars, fsVars, pastVars, scanVars, clientVars
<1> QED BY Steps, <1>1, <1>2, <1>3, <1>4, <1>5, <1>6, <1>7, <1>8, <1>9, <1>10

\* list_files looks at files and links only, and a GET opens a file or a
\* directory.
LEMMA PathsStep ==
    ASSUME TypeOK, RequestsInv, BeginInv, [Next]_vars
    PROVE  /\ here' \subseteq Everything
           /\ todo' \subseteq Entries(Everything)
           /\ files' \subseteq {Append(Root, n) : n \in Names}
           /\ cur' \in {NoPath} \cup Everything
           /\ served' \in {NoPath} \cup Files \cup Dirs
<1>0. EntriesInv /\ EntriesInv' /\ BeginInv'
  BY BeginStep, EntriesStep DEF RequestsInv
<1>1. here' \subseteq Everything /\ todo' \subseteq Entries(Everything)
  BY <1>0 DEF EntriesInv, Everything
<1>2. files' \subseteq {Append(Root, n) : n \in Names}
  BY <1>0, RequestsAssumption DEF BeginInv, Visible
<1>3. cur' \in {NoPath} \cup Everything
  <2>1. cur \in {NoPath} \cup Everything
    BY DEF TypeOK, Everything
  <2>2. CASE ScanEntry
    <3>1. PICK e \in todo :
            \/ cur' = NoPath
            \/ /\ cur' = e
               /\ IF e \in DOMAIN Links THEN is_regular_file(here, e)
                                         ELSE e \in Files
      BY <2>2, Zenon DEF ScanEntry, Visits
    <3>2. is_regular_file(here, e) => e \in Everything
      BY <1>0, RegularHere DEF EntriesInv, Everything
    <3> QED BY <3>1, <3>2 DEF Everything
  <2>3. CASE ScanBreak \/ ScanEnd
    BY <2>3 DEF ScanBreak, ScanEnd, ScanLeaves
  <2>4. CASE \/ SessionRecv \/ ScanOpen \/ ScanSize \/ Elsewhere \/ Connect
             \/ ClientSends \/ ClientListed \/ ClientAlone
             \/ DirectoryChanges \/ UNCHANGED vars
    <3>1. cur' = cur
      BY <2>4, ElsewhereMoves, ClientMoves
      DEF SessionRecv, ScanOpen, ScanSize, Connect, ClientSends, ClientListed,
          DirectoryChanges, vars, scanVars, notClient, scanned
    <3> QED BY <2>1, <3>1
  <2> QED BY Steps, <2>2, <2>3, <2>4
<1>4. served' \in {NoPath} \cup Files \cup Dirs
  <2>1. CASE GetOpen
    BY <2>1 DEF GetOpen
  <2>2. CASE ~GetOpen
    BY <2>2, ServedStays DEF TypeOK
  <2> QED BY <2>1, <2>2
<1> QED BY <1>1, <1>2, <1>3, <1>4

\* The size that a GET answers with is made of digits.
LEMMA SizeStep ==
    ASSUME TypeOK, [Next]_vars
    PROVE  size' \in Seq(Range(Digits)) /\ denied' \in BOOLEAN
<1>0. size \in Seq(Range(Digits)) /\ denied \in BOOLEAN
  BY DEF TypeOK
<1>1. CASE GetSize
  <2> DEFINE path  == resolve_safe_path(here, argument)
             found == path # NoPath /\ is_regular_file(here, path)
  <2>1. /\ size' = IF found THEN SizeOf[Follow(here, path)] ELSE size
        /\ denied' = denied
    BY <1>1 DEF GetSize
  <2>2. found => SizeOf[Follow(here, path)] \in Seq(Range(Digits))
    BY RequestsAssumption DEF is_regular_file
  <2> HIDE DEF found, path
  <2> QED BY <1>0, <2>1, <2>2
<1>2. CASE GetDenied
  BY <1>0, <1>2 DEF GetDenied
<1>3. CASE ~GetSize /\ ~GetDenied
  <2>1. UNCHANGED <<size, denied>>
    BY <1>3 DEF Next, Session, Client, Ended, SessionRecv, SessionRecvFail,
       SessionError, SessionQuit, SendAll, SendFail, SessionTail, ScanOpen,
       ScanEntry, Visits, ScanSize, ScanBreak, ScanEnd, ScanLeaves, ScanThrow,
       GetOpen, Tells, Connect, ClientSends, ClientHeader, ClientLine,
       ClientRecvFail, ClientListed, ClientClose, DirectoryChanges, vars,
       notScan, notReply, notClient, replyVars
  <2> QED BY <1>0, <2>1
<1> QED BY <1>1, <1>2, <1>3

\* What is sent, what is in flight and what is printed are sequences, and
\* do_list prints no more lines than the header counts.
LEMMA TextsStep ==
    ASSUME TypeOK, RequestsInv, BeginInv, [Next]_vars
    PROVE  /\ IsText(out') /\ IsText(s2c') /\ IsText(shown')
           /\ count' \in Nat /\ Len(shown') <= count'
<1>0. /\ IsText(out) /\ IsText(s2c) /\ IsText(shown)
      /\ count \in Nat /\ Len(shown) \in Nat /\ Len(shown) <= count
  BY DEF TypeOK, IsText
<1>1. CASE SessionRecv
  <2>1. UNCHANGED <<out, s2c, shown, count>>
    BY <1>1 DEF SessionRecv, notSession, clientVars
  <2> QED BY <1>0, <2>1
<1>2. CASE ScanOpen \/ ScanEntry \/ ScanSize \/ ScanBreak \/ ScanEnd
  <2>1. UNCHANGED <<s2c, shown, count>>
    BY <1>2, ScanAlone
  <2>2. out' = out \/ out' = Response(ListAnswer)
    BY <1>2 DEF ScanOpen, ScanEntry, Visits, ScanSize, ScanBreak, ScanEnd,
                ScanLeaves, notScan, replyVars, ListAnswer
  <2>3. IsText(Response(ListAnswer))
    BY Responses DEF BeginInv, Everything
  <2> QED BY <1>0, <2>1, <2>2, <2>3
<1>3. CASE Elsewhere
  <2>1. UNCHANGED <<shown, count>>
    BY <1>3, ElsewhereSends
  <2>2. IsText(out')
    <3>1. CASE GetOpen
      <4>1. out' = out \/ out' = Response(<<OkLine(size)>>)
        BY <3>1 DEF GetOpen
      <4>2. IsText(Response(<<OkLine(size)>>))
        BY Responses DEF TypeOK
      <4> QED BY <1>0, <4>1, <4>2
    <3>2. CASE ~GetOpen
      <4>1. out' = out
        BY <1>3, <3>2 DEF Elsewhere, SessionRecvFail, SessionError,
           SessionQuit, SendAll, SendFail, SessionTail, ScanThrow, GetSize,
           GetDenied, Tells, replyVars
      <4> QED BY <1>0, <4>1
    <3> QED BY <3>1, <3>2
  <2>3. CASE UNCHANGED s2c
    BY <1>0, <2>1, <2>2, <2>3
  <2>4. CASE SessionError \/ SessionQuit \/ SendAll
    <3>1. \/ s2c' = s2c
          \/ s2c' = s2c \o Response(<<ErrorLine("reason")>>)
          \/ s2c' = s2c \o Response(<<OkLine(<<"BYE">>)>>)
          \/ s2c' = s2c \o out
      BY <2>4, Zenon DEF SessionError, SessionQuit, SendAll, Tells
    <3>2. IsText(s2c')
      BY <1>0, <3>1, Responses, Texts
    <3> QED BY <1>0, <2>1, <2>2, <3>2
  <2>5. CASE SendFail
    <3>1. PICK n \in 0 .. Len(out) - 1 :
            s2c' = s2c \o (IF cside = "open" THEN SubSeq(out, 1, n) ELSE <<>>)
      BY <2>5 DEF SendFail
    <3>2. n \in Int /\ 1 \in Int /\ n <= Len(out) /\ 1 <= 1
      BY <1>0 DEF IsText
    <3>3. IsText(SubSeq(out, 1, n)) /\ IsText(<<>>)
      BY <1>0, <3>2, Texts
    <3>4. IsText(IF cside = "open" THEN SubSeq(out, 1, n) ELSE <<>>)
      BY <3>3, Zenon
    <3>5. IsText(s2c')
      BY <1>0, <3>1, <3>4, Texts, Zenon
    <3> QED BY <1>0, <2>1, <2>2, <3>5
  <2> QED BY <1>3, <2>3, <2>4, <2>5, ElsewhereSends
<1>4. CASE Connect \/ ClientSends \/ ClientListed
  <2>1. UNCHANGED <<out, s2c, shown, count>>
    BY <1>4 DEF Connect, ClientSends, ClientListed, notClient, replyVars
  <2> QED BY <1>0, <2>1
<1>5. CASE ClientAlone
  <2>1. out' = out
    BY <1>5 DEF ClientAlone, ClientHeader, ClientLine, ClientRecvFail,
                ClientClose, notClient, replyVars
  <2>2. IsText(Line) /\ IsText(Rest)
    BY <1>0, LineText
  <2>3. CASE ClientHeader
    <3> DEFINE word == FirstWord(SubSeq(Line, 4, Len(Line)))
    <3>1. /\ s2c' = Rest /\ shown' = shown /\ cpc = "header"
          /\ count' = count \/ count' = Number(word)
      BY <2>3 DEF ClientHeader, CGoto
    <3>2. shown = <<>>
      BY <3>1 DEF BeginInv
    <3>3. Number(word) \in Nat
      <4>1. Line \in Seq(Range(Line)) /\ Len(Line) \in Nat
        BY <2>2 DEF IsText
      <4>2. SubSeq(Line, 4, Len(Line)) \in Seq(Range(Line))
        BY <4>1
      <4> QED BY <4>2, FirstWordSeq, NumberNat
    <3> HIDE DEF word
    <3> QED BY <1>0, <2>1, <2>2, <3>1, <3>2, <3>3
  <2>4. CASE ClientLine
    <3> DEFINE new == [name |-> FirstWord(Line),
                       size |-> Number(FirstWord(Behind(Line)))]
               S == Range(shown) \cup {new}
    <3>1. /\ s2c' = Rest /\ shown' = Append(shown, new) /\ count' = count
          /\ Len(shown) < count
      BY <2>4 DEF ClientLine
    <3>2. shown \in Seq(S) /\ new \in S
      BY <1>0, SeqMonotonic DEF IsText
    <3> HIDE DEF new, S
    <3>3. Append(shown, new) \in Seq(S)
          /\ Len(Append(shown, new)) = Len(shown) + 1
      BY <3>2, AppendProperties
    <3>4. IsText(Append(shown, new))
      BY <3>3, Texts
    <3>5. Len(shown') <= count'
      BY <1>0, <3>1, <3>3
    <3> QED BY <1>0, <2>1, <2>2, <3>1, <3>4, <3>5
  <2>5. CASE ClientRecvFail \/ ClientClose
    BY <1>0, <2>1, <2>5 DEF ClientRecvFail, ClientClose
  <2> QED BY <1>5, <2>3, <2>4, <2>5 DEF ClientAlone
<1>6. CASE DirectoryChanges \/ UNCHANGED vars
  <2>1. UNCHANGED <<out, s2c, shown, count>>
    BY <1>6 DEF DirectoryChanges, vars, clientVars, replyVars
  <2> QED BY <1>0, <2>1
<1> QED BY Steps, <1>1, <1>2, <1>3, <1>4, <1>5, <1>6

-----------------------------------------------------------------------------
(* The theorems *)

\* The types of Requests, for every directory, request line and fault: among
\* them that do_list never prints more lines than the header counted, and that
\* list_files finds entries of the media directory only.
THEOREM RequestsTypes == Spec => []TypeOK
<1>1. Init => TypeOK /\ BeginInv
  <2> SUFFICES ASSUME Init PROVE TypeOK /\ BeginInv
    OBVIOUS
  <2>1. IsText(out) /\ IsText(s2c) /\ IsText(shown)
    BY Texts DEF Init
  <2>2. /\ count = 0 /\ Len(shown) = 0
    BY DEF Init
  <2>3. /\ here \subseteq Files \cup DOMAIN Links /\ changes \in 0 .. MaxChanges
        /\ spc \in SessionPC /\ cpc \in ClientPC
    BY RequestsAssumption DEF Init, SessionPC, ClientPC
  <2>4. /\ ec \in BOOLEAN /\ gaveUp \in BOOLEAN /\ cut \in BOOLEAN
        /\ sside \in {"open", "shut"} /\ cside \in {"open", "closed"}
        /\ todo = {} /\ files = {} /\ steady = {} /\ cur = NoPath
        /\ served = NoPath /\ size = <<>> /\ denied \in BOOLEAN
    BY DEF Init
  <2>5. TypeOK
    BY <2>1, <2>2, <2>3, <2>4 DEF TypeOK, IsText
  <2>6. BeginInv
    BY DEF Init, BeginInv
  <2> QED BY <2>5, <2>6
<1>2. RequestsInv /\ TypeOK /\ BeginInv /\ [Next]_vars => TypeOK' /\ BeginInv'
  BY PlacesStep, PathsStep, SizeStep, TextsStep, BeginStep
  DEF TypeOK, IsText, Everything
<1> QED BY <1>1, <1>2, RequestsInvariance, PTL DEF Spec

\* Between handle_list and do_list nothing is lost, doubled or taken apart in
\* the wrong place, for every directory whose names hold no newline: what is
\* found, in flight and printed make up one list.
THEOREM ListingInvariance ==
    ASSUME NoNewlines
    PROVE  Spec => []ListingInv
<1>1. Init => ListingInv
  BY DEF Init, ListingInv, BeginInv, SessionInv, FlightInv, IsList, NoLine, NL
<1>2. TypeOK /\ RequestsInv /\ ListingInv /\ [Next]_vars => ListingInv'
  BY BeginStep, SessionStep, StreamStep DEF ListingInv
<1> QED BY <1>1, <1>2, RequestsTypes, RequestsInvariance, PTL DEF Spec

\* A client that reports success has printed the list that list_files made,
\* however many files there are.
THEOREM ListShown ==
    ASSUME NoNewlines
    PROVE  Spec => []ShownIsListed
<1>1. ListingInv => ShownIsListed
  BY DEF ListingInv, FlightInv, ShownIsListed, Whole, ShownSoFar
<1> QED BY <1>1, ListingInvariance, PTL

\* The path of an entry of the media directory, and its plain name.
LEMMA EntryName ==
    ASSUME NEW name, IsName(name)
    PROVE  LET entry == Append(Root, name)
           IN  Below(entry) /\ Join(Inner(entry)) = name
<1> DEFINE entry == Append(Root, name)
           r == Len(Root)
           U == Range(Root) \cup {name}
           one == <<name>>
<1>1. Root \in Seq(U) /\ name \in U /\ r \in Nat /\ Root \in Dirs
  BY FilesAssumption, SeqMonotonic
<1>2. name \in Seq(Range(name)) /\ name # <<>>
  BY DEF IsName
<1> HIDE DEF U
<1>3. /\ entry \in Seq(U) /\ Len(entry) = r + 1 /\ entry[r + 1] = name
      /\ \A i \in 1 .. r : entry[i] = Root[i]
  BY <1>1, AppendProperties
<1>4. SubSeq(entry, 1, r) = Root
  <2> HIDE DEF entry
  <2> DEFINE v == SubSeq(entry, 1, r)
  <2>1. /\ v \in Seq(U) /\ Len(v) = r /\ \A i \in 1 .. r : v[i] = entry[i]
    BY <1>1, <1>3
  <2> HIDE DEF v
  <2>2. v = Root
    BY <1>1, <1>3, <2>1, SeqEqual
  <2> QED BY <2>2 DEF v
<1> HIDE DEF entry, r
<1>5. Below(entry)
  <2>1. entry \in Seq(Range(entry))
    BY <1>3, SeqOfRange
  <2>2. entry # Root
    BY <1>1, <1>3 DEF r
  <2>3. IsPrefix(Root, entry)
    <3>1. SubSeq(Root, 1, r) = Root
      BY <1>1 DEF r
    <3> QED BY <1>1, <1>3, <1>4, <3>1 DEF IsPrefix, r
  <2>4. ASSUME NEW i \in r + 1 .. Len(entry)
        PROVE  IsName(entry[i]) /\ SubSeq(entry, 1, i - 1) \in Dirs
    <3>1. i = r + 1 /\ i - 1 = r
      BY <1>1, <1>3
    <3> QED BY <1>1, <1>3, <1>4, <3>1
  <2> QED BY <2>1, <2>2, <2>3, <2>4 DEF Below, r
<1>6. Inner(entry) = one
  <2> DEFINE v == SubSeq(entry, r + 1, r + 1)
  <2>1. v \in Seq(U) /\ Len(v) = 1 /\ v[1] = name
    BY <1>1, <1>3
  <2>2. one \in Seq(U) /\ Len(one) = 1 /\ one[1] = name
    BY <1>1
  <2> HIDE DEF v, one
  <2>3. v = one
    BY <2>1, <2>2, SeqEqual
  <2> QED BY <1>3, <2>3 DEF Inner, v, r
<1>7. Join(one) = name
  <2> DEFINE V == Range(name) \cup {"/"}
  <2>1. name \in Seq(V) /\ "/" \in V
    BY <1>2, SeqMonotonic
  <2>2. one \in Seq(Seq(V)) /\ Len(one) = 1 /\ one[1] = name /\ 1 \in 1 .. 1
    BY <2>1
  <2> HIDE DEF V, one
  <2>3. PICK f : Joins(f, one, V) /\ Join(one) = f[Len(one)]
    BY <2>1, <2>2, JoinDef
  <2> QED BY <2>2, <2>3 DEF Joins
<1> QED BY <1>5, <1>6, <1>7 DEF entry

\* Every name that a successful client has printed can be given to a GET, for
\* every directory and whatever has changed in it since: what is at that name
\* now, or where a link there leads, is what is found.
THEOREM ShownFetchable ==
    ASSUME NoNewlines
    PROVE  Spec => []ShownCanBeFetched
<1>1. TypeOK /\ ListingInv => ShownCanBeFetched
  <2> DEFINE Entry(i) == Append(Root, Sorted[i].name)
             Target(i) == Follow(here, Entry(i))
             Asked(i) == parse_request(<<"GET", Blank>>
                                         \o shown[i].name).argument
             Path(i) == resolve_safe_path(here, Asked(i))
  <2> SUFFICES ASSUME TypeOK, ListingInv, Whole, NEW i \in DOMAIN shown,
                      Blank \notin Range(Sorted[i].name),
                      IsPrefix(Root, Target(i)),
                      Target(i)[Len(Root) + 1][1] # "..",
                      Entry(i) \in Visible(here)
               PROVE  Path(i) = Target(i) /\ is_regular_file(here, Path(i))
    BY DEF ShownCanBeFetched
  <2> DEFINE name == Sorted[i].name
  <2>1. /\ shown[i].name = name /\ i \in 1 .. Len(Sorted)
        /\ files \subseteq Visible(Everything)
    <3>1. ShownSoFar /\ Len(shown) = Len(Sorted)
      BY DEF ListingInv, FlightInv, Whole
    <3>2. DOMAIN shown = 1 .. Len(shown)
      BY DEF TypeOK
    <3>3. shown[i] = [name |-> name, size |-> Number(Sorted[i].size)]
      BY <3>1 DEF ShownSoFar
    <3>4. files \subseteq Visible(Everything)
      BY DEF ListingInv, BeginInv, Everything
    <3>5. i \in 1 .. Len(Sorted)
      BY <3>1, <3>2
    <3>6. shown[i].name = name
      <4> HIDE DEF name
      <4> QED BY <3>3
    <3> QED BY <3>4, <3>5, <3>6
  <2>2. IsName(name)
    BY <2>1, SortedFiles, RequestsAssumption
  <2>3. Asked(i) = name
    <3>1. name \in Seq(Range(name)) /\ name # <<>>
      BY <2>2 DEF IsName
    <3> HIDE DEF name
    <3>2. Blank \notin Range(name)
      BY DEF name
    <3>3. Trim(name) = name
      BY <3>1, <3>2, WordAlone
    <3>4. parse_request(<<"GET", Blank>> \o name).argument = name
      BY <3>1, <3>3, GetParsed
    <3> QED BY <2>1, <3>4
  <2>4. Below(Entry(i)) /\ Join(Inner(Entry(i))) = name
    BY <2>2, EntryName
  <2>5. Path(i) = Target(i)
    <3> HIDE DEF Entry, name, Asked
    <3> QED BY <2>3, <2>4, PlainResolved
  <2>6. Target(i) \in Files \cap here
    BY DEF Visible, is_regular_file
  <2> HIDE DEF Entry, Path
  <2>7. is_regular_file(here, Target(i))
    <3> HIDE DEF Target
    <3> QED BY <2>6, FilesAssumption DEF is_regular_file, Follow
  <2> QED BY <2>5, <2>7
<1> QED BY <1>1, RequestsTypes, ListingInvariance, PTL
=============================================================================
