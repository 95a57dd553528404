------------------------------ MODULE Protocol ------------------------------
(***************************************************************************)
(* The text protocol: Protocol::parse_request, the responses it builds,    *)
(* and how the client's operator>> takes them apart.                       *)
(*                                                                         *)
(* A line is a sequence of tokens: a piece of a word, one digit, a slash,  *)
(* or Blank for white space. A word is a run of tokens without Blank; NL   *)
(* ends a line in the stream.                                              *)
(***************************************************************************)
EXTENDS Integers, Sequences, SequencesExt

Blank == " "
NL    == "newline"
OK    == <<"O", "K">>

Trim(line) ==
    LET words == {i \in DOMAIN line : line[i] # Blank}
    IN  IF words = {} THEN <<>> ELSE SubSeq(line, Min(words), Max(words))

\* operator>> into a string, and what it leaves in the stream.
FirstWord(line) ==
    LET blanks == {i \in DOMAIN Trim(line) : Trim(line)[i] = Blank}
    IN  IF blanks = {} THEN Trim(line)
                       ELSE SubSeq(Trim(line), 1, Min(blanks) - 1)

Behind(line) ==
    SubSeq(Trim(line), Len(FirstWord(line)) + 1, Len(Trim(line)))

\* Words that upper-casing makes a command.
Spellings == [LIST |-> {"LIST", "list"}, GET |-> {"GET", "get"},
              QUIT |-> {"QUIT", "exit", "CLOSE"}]

TypeOf(word) ==
    IF \E type \in DOMAIN Spellings : word \in {<<w>> : w \in Spellings[type]}
    THEN CHOOSE type \in DOMAIN Spellings :
            word \in {<<w>> : w \in Spellings[type]}
    ELSE "UNKNOWN"

\* The argument of an unknown command is only logged and is left out.
Parsed(raw_line, filename) ==
    LET type == TypeOf(FirstWord(raw_line))
    IN  [type |-> type, argument |-> IF type = "GET" THEN filename ELSE <<>>]

\* Mutant: the blank between the command and the name is not skipped.
parse_untrimmed(raw_line) == Parsed(raw_line, Behind(raw_line))

parse_request(raw_line) == Parsed(raw_line, Trim(Behind(raw_line)))

Digits == <<"0", "1", "2", "3", "4", "5", "6", "7", "8", "9">>

DigitOf(token) == CHOOSE i \in 0 .. 9 : Digits[i + 1] = token

\* The values of the first digits of a word: one, two, ...
Value(word) ==
    LET value[i \in 0 .. Len(word)] ==
            IF i = 0 THEN 0 ELSE 10 * value[i - 1] + DigitOf(word[i])
    IN  value

\* operator>> into a number: zero unless the word is one.
Number(word) ==
    IF word # <<>> /\ Range(word) \subseteq Range(Digits)
    THEN Value(word)[Len(word)] ELSE 0

\* operator<< of a number.
Decimal(number) ==
    LET digits[n \in 0 .. number] ==
            IF n < 10 THEN <<Digits[n + 1]>>
            ELSE Append(digits[n \div 10], Digits[(n % 10) + 1])
    IN  digits[number]

\* The lines of a response, each with its newline.
Response(lines) == FlattenSeq([i \in DOMAIN lines |-> Append(lines[i], NL)])

OkLine(text)   == OK \o <<Blank>> \o text
ErrorLine(why) == <<"ERROR", Blank, why>>

\* A file is [name, size], the size in digits.
ListLines(count, files) ==
    << OkLine(Decimal(count)) >>
    \o [i \in DOMAIN files |-> files[i].name \o <<Blank>> \o files[i].size]

\* Mutant: the header counts one file too few.
list_lines_short(files) ==
    ListLines(IF files = <<>> THEN 0 ELSE Len(files) - 1, files)

build_list_response(files) == ListLines(Len(files), files)
=============================================================================
