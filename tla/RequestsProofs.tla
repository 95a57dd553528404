--------------------------- MODULE RequestsProofs ---------------------------
(***************************************************************************)
(* ListingBounds, OpensInside and PlainNamesServed of Requests for every   *)
(* directory, set of request lines and fault: RequestsInv is inductive.    *)
(***************************************************************************)
EXTENDS RequestsInvariant, FileManagerProofs

-----------------------------------------------------------------------------
(* What FileManager's operators say of a path *)

\* A path that is_regular_file accepts exists.
LEMMA RegularHere ==
    ASSUME NEW H, NEW p, is_regular_file(H, p)
    PROVE  p \in H
BY DEF is_regular_file, Follow

\* The type that comes with an entry is the one is_regular_file would ask for.
LEMMA RegularEntry ==
    ASSUME NEW H, NEW p, is_regular_file(H, p), p \notin DOMAIN Links
    PROVE  p \in Files
BY DEF is_regular_file, Follow

\* An entry of the root that is regular and not hidden is visible now.
LEMMA VisibleNow ==
    ASSUME NEW H, NEW G, NEW p \in Entries(G), is_regular_file(H, p),
           ~Hidden(p)
    PROVE  p \in Visible(H)
BY RegularHere DEF Entries, Visible

\* A larger directory has no fewer entries.
LEMMA EntriesGrow ==
    ASSUME NEW H, NEW G, H \subseteq G
    PROVE  Entries(H) \subseteq Entries(G)
BY DEF Entries

-----------------------------------------------------------------------------
(* What parse_request makes of a line *)

\* The switch knows every type, and sends only an unknown one to the error.
LEMMA Types ==
    ASSUME NEW line
    PROVE  LET type == parse_request(line).type
           IN  /\ Handlers[type] \in {"open", "getsize", "bye", "error"}
               /\ Handlers[type] = "error" => type = "UNKNOWN"
<1> DEFINE word == FirstWord(line)
           Is(type) == word \in {<<w>> : w \in Spellings[type]}
<1>1. TypeOf(word) \in {"LIST", "GET", "QUIT", "UNKNOWN"}
  <2>1. DOMAIN Spellings = {"LIST", "GET", "QUIT"}
    BY DEF Spellings
  <2>2. CASE \E type \in DOMAIN Spellings : Is(type)
    <3>1. (CHOOSE type \in DOMAIN Spellings : Is(type)) \in DOMAIN Spellings
      BY <2>2
    <3> QED BY <2>1, <2>2, <3>1 DEF TypeOf
  <2>3. CASE ~\E type \in DOMAIN Spellings : Is(type)
    BY <2>3 DEF TypeOf
  <2> QED BY <2>2, <2>3
<1>2. parse_request(line).type = TypeOf(word)
  BY DEF parse_request, Parsed
<1> QED BY <1>1, <1>2 DEF Handlers

\* The spellings of one command are no other's.
LEMMA Commands ==
    /\ TypeOf(<<"LIST">>) = "LIST" /\ TypeOf(<<"GET">>) = "GET"
    /\ TypeOf(Quit) = "QUIT"
<1> DEFINE Is(word, type) == word \in {<<w>> : w \in Spellings[type]}
<1>1. DOMAIN Spellings = {"LIST", "GET", "QUIT"}
  BY DEF Spellings
<1>2. /\ Is(<<"LIST">>, "LIST") /\ ~Is(<<"LIST">>, "GET")
      /\ ~Is(<<"LIST">>, "QUIT")
  BY DEF Spellings
<1>3. /\ Is(<<"GET">>, "GET") /\ ~Is(<<"GET">>, "LIST")
      /\ ~Is(<<"GET">>, "QUIT")
  BY DEF Spellings
<1>4. Is(Quit, "QUIT") /\ ~Is(Quit, "LIST") /\ ~Is(Quit, "GET")
  BY DEF Spellings, Quit
<1>5. \A word : TypeOf(word) = IF \E type \in DOMAIN Spellings : Is(word, type)
                               THEN CHOOSE type \in DOMAIN Spellings :
                                       Is(word, type)
                               ELSE "UNKNOWN"
  BY DEF TypeOf
<1> HIDE DEF Is
<1>6. ASSUME NEW word, NEW type \in DOMAIN Spellings, Is(word, type),
             \A other \in DOMAIN Spellings : Is(word, other) => other = type
      PROVE  TypeOf(word) = type
  BY <1>5, <1>6
<1> QED BY <1>1, <1>2, <1>3, <1>4, <1>6

\* A line of one word is a command without an argument.
LEMMA LoneCommand ==
    /\ parse_request(Quit).type = "QUIT"
    /\ parse_request(<<"LIST">>).type = "LIST"
<1>1. ASSUME NEW w, w # Blank PROVE FirstWord(<<w>>) = <<w>>
  <2>1. <<w>> \in Seq({w}) /\ <<w>> # <<>>
    OBVIOUS
  <2>2. Blank \notin Range(<<w>>)
    <3>1. Range(<<w>>) \subseteq {w}
      BY <2>1, RangeOfSeq
    <3> QED BY <1>1, <3>1
  <2> QED BY <2>1, <2>2, WordAlone
<1>2. FirstWord(Quit) = Quit /\ FirstWord(<<"LIST">>) = <<"LIST">>
  BY <1>1 DEF Quit, Blank
<1> QED BY <1>2, Commands DEF parse_request, Parsed

\* A GET has the name behind it for its argument, if no blank would be cut off
\* there.
LEMMA GetParsed ==
    ASSUME NEW U, NEW text \in Seq(U), text # <<>>, Trim(text) = text
    PROVE  LET line == <<"GET", Blank>> \o text
           IN  /\ parse_request(line).type = "GET"
               /\ parse_request(line).argument = text
<1> DEFINE word == <<"GET">>
           V == U \cup {"GET"}
           line == Spaced(word, text)
<1>1. <<"GET", Blank>> \o text = line
  <2>1. <<"GET", Blank>> = word \o <<Blank>>
    OBVIOUS
  <2> QED BY <2>1, Zenon DEF Spaced, Glued
<1>2. text[1] # Blank /\ text[Len(text)] # Blank
  BY TrimEnds
<1>3. /\ word \in Seq(V) /\ word # <<>> /\ text \in Seq(V)
      /\ Blank \notin Range(word)
  <2>1. word \in Seq(V) /\ word # <<>> /\ word \in Seq({"GET"})
    OBVIOUS
  <2>2. text \in Seq(V)
    BY SeqMonotonic
  <2>3. Range(word) \subseteq {"GET"}
    BY <2>1, RangeOfSeq
  <2> QED BY <2>1, <2>2, <2>3 DEF Blank
<1> HIDE DEF V, word
<1>4. FirstWord(line) = word /\ Behind(line) = <<Blank>> \o text
  BY <1>2, <1>3, TwoWords
<1>5. Trim(<<Blank>> \o text) = text
  BY <1>2, BlankBefore
<1> HIDE DEF line
<1>6. TypeOf(FirstWord(line)) = "GET"
  BY <1>4, Commands DEF word
<1>7. parse_request(line).type = "GET" /\ parse_request(line).argument = text
  BY <1>4, <1>5, <1>6 DEF parse_request, Parsed
<1> QED BY <1>1, <1>7

-----------------------------------------------------------------------------
\* Steps of the session that touch neither the scan nor the file system.
Elsewhere ==
    \/ SessionRecvFail \/ SessionError \/ SessionQuit \/ SendAll \/ SendFail
    \/ SessionTail \/ ScanThrow \/ GetSize \/ GetOpen \/ GetDenied

\* What the invariant says is about these.
scanned == <<here, todo, cur, files, gaveUp, steady, known>>

\* Such a step takes the session from one place to another, and only GetSize
\* goes on with a request that has not been scanned.
LEMMA ElsewhereMoves ==
    ASSUME Elsewhere
    PROVE  /\ UNCHANGED <<scanned, c2s, cpc>>
           /\ spc \notin {"scan", "size", "open"} \/ spc' = "terminated"
           /\ spc' \notin {"scan", "size", "open", "getsize"}
           /\ spc' = "getopen" => spc = "getsize"
           /\ spc' = "send" => spc = "getopen"
           /\ spc \in Waiting => spc' \in Waiting
BY DEF Elsewhere, SessionRecvFail, SessionError, SessionQuit, SendAll,
       SendFail, SessionTail, ScanThrow, GetSize, GetOpen, GetDenied, Tells,
       SGoto, notSession, notReply, fsVars, pastVars, clientVars, scanVars,
       scanned, replyVars, Waiting

\* Steps of the client that send nothing.
ClientAlone ==
    \/ ClientHeader \/ ClientLine \/ ClientRecvFail \/ ClientClose

\* These steps of the client change nothing that the invariant is about,
\* except that the client moves on.
LEMMA ClientMoves ==
    ASSUME ClientAlone
    PROVE  /\ UNCHANGED <<scanned, c2s, spc>>
           /\ cpc' \notin {"start", "connected"} \/ cpc' = cpc
BY DEF ClientAlone, ClientHeader, ClientLine, ClientRecvFail, ClientClose,
       CGoto, notClient, fsVars, pastVars, scanVars, replyVars, scanned

\* The steps of Next, as the proofs below tell them apart.
LEMMA Steps ==
    ASSUME [Next]_vars
    PROVE  \/ SessionRecv \/ ScanOpen \/ ScanEntry \/ ScanSize
           \/ ScanBreak \/ ScanEnd \/ Elsewhere
           \/ Connect \/ ClientSends \/ ClientListed \/ ClientAlone
           \/ DirectoryChanges \/ UNCHANGED vars
BY DEF Next, Session, Client, Ended, Elsewhere, ClientAlone

-----------------------------------------------------------------------------
\* One request for each connection.
LEMMA OneRequestStep ==
    ASSUME OneRequestInv, [Next]_vars
    PROVE  OneRequestInv'
<1> USE DEF OneRequestInv, Unscanned
<1>1. CASE SessionRecv
  <2>1. cpc \notin {"start", "connected"} /\ spc' # "getopen"
    BY <1>1, Types DEF SessionRecv, SGoto
  <2>2. UNCHANGED <<files, steady, cpc>> /\ c2s' = NoLine
    BY <1>1 DEF SessionRecv, notSession, scanVars, pastVars, clientVars
  <2>3. CASE c2s = Quit
    <3>1. spc' = "bye"
      BY <1>1, <2>3, LoneCommand DEF SessionRecv, SGoto, Handlers
    <3> QED BY <2>1, <2>2, <3>1
  <2>4. CASE c2s # Quit
    <3>1. files = {} /\ steady = {}
      BY <1>1, <2>4 DEF SessionRecv
    <3> QED BY <2>1, <2>2, <3>1
  <2> QED BY <2>3, <2>4
<1>2. CASE ScanOpen
  BY <1>2 DEF ScanOpen, SGoto, Waiting, clientVars
<1>3. CASE ScanEntry
  BY <1>3 DEF ScanEntry, Visits, Waiting, notScan, notSession, clientVars
<1>4. CASE ScanSize
  BY <1>4 DEF ScanSize, SGoto, Waiting, notScan, notSession, clientVars
<1>5. CASE ScanBreak \/ ScanEnd
  BY <1>5 DEF ScanBreak, ScanEnd, ScanLeaves, SGoto, Waiting, notSession,
              clientVars
<1>6. CASE Elsewhere
  BY <1>6, ElsewhereMoves DEF scanned, Waiting
<1>7. CASE Connect
  BY <1>7 DEF Connect, CGoto, SGoto, Waiting, scanVars, pastVars
<1>8. CASE ClientSends
  BY <1>8 DEF ClientSends, CGoto, notClient, scanVars, pastVars, Waiting
<1>9. CASE ClientListed
  BY <1>9 DEF ClientListed, CGoto, notClient, scanVars, pastVars, Quit
<1>10. CASE ClientAlone
  BY <1>10, ClientMoves DEF scanned
<1>11. CASE DirectoryChanges
  BY <1>11 DEF DirectoryChanges, clientVars
<1>12. CASE UNCHANGED vars
  BY <1>12 DEF vars, scanVars, pastVars, clientVars
<1> QED
  BY Steps, <1>1, <1>2, <1>3, <1>4, <1>5, <1>6, <1>7, <1>8, <1>9, <1>10,
     <1>11, <1>12

-----------------------------------------------------------------------------
\* What the scan holds are entries of the root.
LEMMA EntriesStep ==
    ASSUME EntriesInv, [Next]_vars
    PROVE  EntriesInv'
<1> USE DEF EntriesInv
<1>1. CASE SessionRecv
  BY <1>1, Types DEF SessionRecv, SGoto, notSession, fsVars, scanVars
<1>2. CASE ScanOpen
  BY <1>2, EntriesGrow DEF ScanOpen, SGoto, fsVars
<1>3. CASE ScanEntry
  BY <1>3 DEF ScanEntry, Visits, notScan, notSession, fsVars
<1>4. CASE ScanSize
  BY <1>4 DEF ScanSize, SGoto, notScan, notSession, fsVars
<1>5. CASE ScanBreak \/ ScanEnd
  BY <1>5 DEF ScanBreak, ScanEnd, ScanLeaves, SGoto, notSession, fsVars
<1>6. CASE Elsewhere
  BY <1>6, ElsewhereMoves DEF scanned
<1>7. CASE Connect
  BY <1>7 DEF Connect, SGoto, scanVars, fsVars
<1>8. CASE ClientSends \/ ClientListed
  BY <1>8 DEF ClientSends, ClientListed, notClient, scanVars, fsVars
<1>9. CASE ClientAlone
  BY <1>9, ClientMoves DEF scanned
<1>10. CASE DirectoryChanges
  <2>1. PICK p \in Files \cup DOMAIN Links :
          /\ here' = IF p \in here THEN here \ {p} ELSE here \cup {p}
          /\ \/ todo' \subseteq todo
             \/ todo' = todo \cup {p} /\ p \in Entries({p})
    BY <1>10 DEF DirectoryChanges
  <2>2. p \in Entries({p}) => p \in Entries(Files \cup DOMAIN Links)
    BY EntriesGrow
  <2>3. UNCHANGED <<spc, cur>>
    BY <1>10 DEF DirectoryChanges
  <2> QED BY <2>1, <2>2, <2>3
<1>11. CASE UNCHANGED vars
  BY <1>11 DEF vars, fsVars, scanVars
<1> QED
  BY Steps, <1>1, <1>2, <1>3, <1>4, <1>5, <1>6, <1>7, <1>8, <1>9, <1>10,
     <1>11

-----------------------------------------------------------------------------
\* A file that stays is found, and what is found was there.
LEMMA ScanStep ==
    ASSUME RequestsInv, [Next]_vars
    PROVE  ScanInv'
<1> USE DEF ScanInv, Scanning
<1>0. ScanInv /\ OneRequestInv /\ EntriesInv
  BY DEF RequestsInv
<1>1. CASE SessionRecv
  BY <1>0, <1>1, Types
  DEF SessionRecv, SGoto, notSession, fsVars, scanVars, pastVars
<1>2. CASE ScanOpen
  <2>1. files = {} /\ files' = {} /\ here' = here /\ spc' = "scan"
    BY <1>0, <1>2 DEF ScanOpen, SGoto, OneRequestInv, Unscanned, fsVars
  <2>2. steady' = Visible(here) /\ known' = Visible(here)
    BY <1>2 DEF ScanOpen
  <2>3. gaveUp' \/ todo' = Entries(here)
    BY <1>2 DEF ScanOpen
  <2> QED BY <2>1, <2>2, <2>3 DEF Visible
<1>3. CASE ScanEntry
  <2>1. UNCHANGED <<here, files, steady, known, gaveUp>> /\ spc = "scan"
    BY <1>3 DEF ScanEntry, Visits, notScan, notSession, fsVars, pastVars
  <2>2. PICK e \in todo :
          LET regular == IF e \in DOMAIN Links THEN is_regular_file(here, e)
                                               ELSE e \in Files
          IN  /\ todo' = todo \ {e}
              /\ regular => cur' = e
              /\ spc' = IF regular /\ ~Hidden(e) THEN "size" ELSE "scan"
    BY <1>3 DEF ScanEntry, Visits
  <2>3. e \in steady => spc' = "size" /\ cur' = e
    <3> SUFFICES ASSUME e \in steady PROVE spc' = "size" /\ cur' = e
      OBVIOUS
    <3>1. is_regular_file(here, e) /\ ~Hidden(e)
      BY <1>0, <2>1 DEF Visible
    <3> QED BY <2>2, <3>1, RegularEntry
  <2>4. spc' \in {"scan", "size"} /\ todo \subseteq todo' \cup {e}
    BY <2>2
  <2> QED BY <1>0, <2>1, <2>3, <2>4
<1>4. CASE ScanSize
  <2>1. UNCHANGED <<here, todo, steady, known, gaveUp>>
        /\ spc = "size" /\ spc' = "scan"
    BY <1>4 DEF ScanSize, SGoto, notScan, notSession, fsVars, pastVars
  <2>2. files' = IF is_regular_file(here, cur) THEN files \cup {cur} ELSE files
    BY <1>4 DEF ScanSize
  <2>3. is_regular_file(here, cur) => cur \in known
    BY <1>0, <2>1, VisibleNow DEF EntriesInv
  <2>4. cur \in steady => is_regular_file(here, cur)
    BY <1>0, <2>1 DEF Visible
  <2> QED BY <1>0, <2>1, <2>2, <2>3, <2>4
<1>5. CASE ScanBreak \/ ScanEnd
  BY <1>0, <1>5 DEF ScanBreak, ScanEnd, ScanLeaves, SGoto, notSession, fsVars,
                    pastVars
<1>6. CASE Elsewhere
  <2>1. spc' = "send" => steady = {}
    BY <1>0, <1>6, ElsewhereMoves DEF OneRequestInv, Unscanned
  <2> QED BY <1>0, <1>6, <2>1, ElsewhereMoves DEF scanned
<1>7. CASE Connect
  BY <1>0, <1>7 DEF Connect, SGoto, scanVars, pastVars, fsVars
<1>8. CASE ClientSends \/ ClientListed
  BY <1>0, <1>8 DEF ClientSends, ClientListed, notClient, scanVars, pastVars,
                    fsVars
<1>9. CASE ClientAlone
  BY <1>0, <1>9, ClientMoves DEF scanned
<1>10. CASE DirectoryChanges
  <2>1. UNCHANGED <<spc, cur, files, gaveUp>>
    BY <1>10 DEF DirectoryChanges
  <2>2. /\ steady' = steady \cap Visible(here')
        /\ known' = known \cup (IF Scanning THEN Visible(here') ELSE {})
    BY <1>10 DEF DirectoryChanges
  <2>3. PICK p \in Files \cup DOMAIN Links :
          /\ here' = IF p \in here THEN here \ {p} ELSE here \cup {p}
          /\ IF p \in here THEN todo \ {p} \subseteq todo'
                          ELSE todo \subseteq todo'
    BY <1>10 DEF DirectoryChanges
  <2>4. p \in here => p \notin Visible(here')
    BY <2>3, RegularHere DEF Visible
  <2>5. steady' \cap todo \subseteq todo'
    BY <2>2, <2>3, <2>4
  <2> QED BY <1>0, <2>1, <2>2, <2>5
<1>11. CASE UNCHANGED vars
  BY <1>0, <1>11 DEF vars, fsVars, scanVars, pastVars
<1> QED
  BY Steps, <1>1, <1>2, <1>3, <1>4, <1>5, <1>6, <1>7, <1>8, <1>9, <1>10,
     <1>11

-----------------------------------------------------------------------------
\* The name is the client's.
LEMMA ArgumentStep ==
    ASSUME ArgumentInv, [Next]_vars
    PROVE  ArgumentInv'
<1> USE DEF ArgumentInv
<1>1. CASE SessionRecv
  <2>1. parse_request(Quit).argument = <<>>
    BY LoneCommand DEF parse_request, Parsed
  <2> QED BY <1>1, <2>1 DEF SessionRecv, Arguments
<1>2. CASE \/ ScanOpen \/ ScanEntry \/ ScanSize \/ ScanBreak \/ ScanEnd
           \/ Elsewhere
  BY <1>2
  DEF ScanOpen, ScanEntry, Visits, ScanSize, ScanBreak, ScanEnd, ScanLeaves,
      Elsewhere, SessionRecvFail, SessionError, SessionQuit, SendAll, SendFail,
      SessionTail, ScanThrow, GetSize, GetOpen, GetDenied, Tells, notReply,
      notScan, replyVars
<1>3. CASE ClientSends
  BY <1>3 DEF ClientSends, notClient, replyVars
<1>4. CASE Connect \/ ClientListed \/ ClientAlone
  BY <1>4
  DEF Connect, ClientListed, ClientAlone, ClientHeader, ClientLine,
      ClientRecvFail, ClientClose, notClient, replyVars, Quit
<1>5. CASE DirectoryChanges \/ UNCHANGED vars
  BY <1>5 DEF DirectoryChanges, vars, replyVars
<1> QED BY Steps, <1>1, <1>2, <1>3, <1>4, <1>5

\* A name that was refused was not one of a file.
LEMMA RefusedStep ==
    ASSUME OneRequestInv, RefusedInv, [Next]_vars
    PROVE  RefusedInv'
<1> DEFINE Asked == parse_request(request)
<1>0. /\ changes \in Nat /\ c2s \in {NoLine, request, Quit}
      /\ spc \in {"getsize", "getopen"} => argument = Asked.argument
      /\ spc = "error" /\ changes = 0 /\ ~denied =>
            Asked.type = "UNKNOWN" \/ ~Fetches(here, Asked.argument)
  BY DEF RefusedInv
<1> SUFFICES /\ changes' \in Nat /\ c2s' \in {NoLine, request', Quit}
             /\ spc' \in {"getsize", "getopen"} => argument' = Asked'.argument
             /\ spc' = "error" /\ changes' = 0 /\ ~denied' =>
                  Asked'.type = "UNKNOWN" \/ ~Fetches(here', Asked'.argument)
  BY DEF RefusedInv, Fetches
<1>a. ASSUME request' = request PROVE Asked' = Asked
  BY <1>a
<1> HIDE DEF Asked
<1>1. CASE SessionRecv
  <2>1. /\ UNCHANGED <<changes, here, request>> /\ c2s' = NoLine /\ c2s # NoLine
        /\ spc' = Handlers[parse_request(c2s).type]
        /\ argument' = parse_request(c2s).argument
    BY <1>1 DEF SessionRecv, SGoto, notSession, fsVars, clientVars
  <2>2. CASE c2s = Quit
    <3>1. spc' = "bye"
      BY <2>1, <2>2, LoneCommand DEF Handlers
    <3> QED BY <1>0, <2>1, <3>1
  <2>3. CASE c2s = request
    <3>1. parse_request(c2s) = Asked
      BY <2>3 DEF Asked
    <3>2. spc' # "getopen" /\ spc' = "error" => Asked.type = "UNKNOWN"
      BY <2>1, <3>1, Types
    <3> QED BY <1>0, <1>a, <2>1, <3>1, <3>2
  <2> QED BY <1>0, <2>1, <2>2, <2>3
<1>2. CASE ScanOpen \/ ScanEntry \/ ScanSize \/ ScanBreak \/ ScanEnd
  <2>1. UNCHANGED <<changes, c2s, request>> /\ spc' \in {"scan", "size", "send"}
    BY <1>2 DEF ScanOpen, ScanEntry, Visits, ScanSize, ScanBreak, ScanEnd,
       ScanLeaves, SGoto, notScan, notSession, fsVars, clientVars
  <2> QED BY <1>0, <2>1
<1>3. CASE GetSize \/ GetOpen
  <2>1. /\ UNCHANGED <<changes, here, c2s, request, argument, denied>>
        /\ spc \in {"getsize", "getopen"}
        /\ spc' = "error" => ~Fetches(here, argument)
    BY <1>3 DEF GetSize, GetOpen, SGoto, Fetches, is_regular_file, notReply,
                notSession, fsVars, clientVars, replyVars
  <2> QED BY <1>0, <1>a, <2>1
<1>4. CASE GetDenied
  <2>1. /\ UNCHANGED <<changes, c2s, request>> /\ denied'
        /\ spc' = "error"
    BY <1>4 DEF GetDenied, SGoto, notReply, notSession, fsVars, clientVars
  <2> QED BY <1>0, <2>1
<1>5. CASE Elsewhere /\ ~GetSize /\ ~GetOpen /\ ~GetDenied
  <2>1. /\ UNCHANGED <<changes, c2s, request>>
        /\ spc' \notin {"getsize", "getopen", "error"}
    BY <1>5 DEF Elsewhere, SessionRecvFail, SessionError, SessionQuit, SendAll,
       SendFail, SessionTail, ScanThrow, Tells, SGoto, notSession, notReply,
       fsVars, clientVars
  <2> QED BY <1>0, <2>1
<1>6. CASE Connect \/ ClientListed \/ ClientAlone
  <2>1. /\ UNCHANGED <<changes, here, request, argument, denied>>
        /\ c2s' = c2s \/ c2s' = Quit
        /\ spc' = spc \/ spc' = "recv"
    BY <1>6 DEF Connect, ClientListed, ClientAlone, ClientHeader, ClientLine,
       ClientRecvFail, ClientClose, CGoto, SGoto, notClient, fsVars, replyVars,
       Quit
  <2> QED BY <1>0, <1>a, <2>1
<1>7. CASE ClientSends
  <2>1. UNCHANGED <<changes, spc>> /\ c2s' = request' /\ cpc = "connected"
    BY <1>7 DEF ClientSends, CGoto, notClient, fsVars
  <2>2. spc \in Waiting
    BY <2>1 DEF OneRequestInv
  <2> QED BY <1>0, <2>1, <2>2 DEF Waiting
<1>8. CASE DirectoryChanges
  <2>1. UNCHANGED <<c2s, request, spc, argument>> /\ changes' = changes + 1
    BY <1>8 DEF DirectoryChanges, clientVars, replyVars
  <2> QED BY <1>0, <1>a, <2>1
<1>9. CASE UNCHANGED vars
  <2>1. UNCHANGED <<changes, here, c2s, request, spc, argument,
                    denied>>
    BY <1>9 DEF vars, fsVars, clientVars, replyVars
  <2> QED BY <1>0, <1>a, <2>1
<1> QED BY Steps, <1>1, <1>2, <1>3, <1>4, <1>5, <1>6, <1>7, <1>8,
   <1>9

-----------------------------------------------------------------------------
\* The invariant holds in every reachable state, whatever the directory, the
\* request and the faults.
THEOREM RequestsInvariance == Spec => []RequestsInv
<1>1. Init => RequestsInv
  BY RequestsAssumption
  DEF Init, RequestsInv, OneRequestInv, EntriesInv, ScanInv, Unscanned, Waiting,
      Scanning, ArgumentInv, Arguments, RefusedInv
<1>2. RequestsInv /\ [Next]_vars => RequestsInv'
  BY OneRequestStep, EntriesStep, ScanStep, ArgumentStep, RefusedStep
  DEF RequestsInv
<1> QED BY <1>1, <1>2, PTL DEF Spec

\* What list_files returns lies between the files that were visible from its
\* beginning to its end and those that were visible at some time of it.
THEOREM ListingBounded == Spec => []ListingBounds
<1>1. RequestsInv => ListingBounds
  BY DEF RequestsInv, ScanInv, ListingBounds
<1> QED BY <1>1, RequestsInvariance, PTL

-----------------------------------------------------------------------------
(* What a GET opens *)

\* What a session works on is a sequence of tokens.
LEMMA ArgumentsSeq ==
    ASSUME NEW filename \in Arguments
    PROVE  \E S : filename \in Seq(S)
<1>1. CASE filename = <<>>
  BY <1>1
<1>2. CASE filename # <<>>
  <2>1. PICK line \in Lines : filename = parse_request(line).argument
    BY <1>2 DEF Arguments
  <2> QED BY <2>1, ArgumentSeq, RequestsAssumption
<1> QED BY <1>1, <1>2

\* What is opened at a resolved path is below the root, or the target of a
\* link there that weakly_canonical had no directory to follow it from.
LEMMA OpenedInside ==
    ASSUME NEW filename \in Arguments, NEW H,
           resolve_safe_path(H, filename) # NoPath
    PROVE  LET opened == Follow(H, resolve_safe_path(H, filename))
           IN  \/ IsPrefix(Root, opened)
               \/ /\ ~Reaches(H, filename)
                  /\ \E link \in DOMAIN Links \cap H :
                        IsPrefix(Root, link) /\ Links[link] = opened
<1> DEFINE path == resolve_safe_path(H, filename)
<1>1. PICK S : filename \in Seq(S)
  BY ArgumentsSeq
<1>2. path = Canonical(H, filename) /\ IsPrefix(Root, path)
  BY <1>1, ResolvedInside
<1>3. CASE Reaches(H, filename)
  <2>1. Follow(H, path) = path
    BY <1>1, <1>2, <1>3, ReachedFollowed
  <2> QED BY <1>2, <2>1
<1>4. CASE ~Reaches(H, filename)
  <2> HIDE DEF path
  <2>1. \/ Follow(H, path) = path
        \/ path \in DOMAIN Links \cap H /\ Links[path] = Follow(H, path)
    BY DEF Follow
  <2>2. \/ IsPrefix(Root, Follow(H, path))
        \/ \E link \in DOMAIN Links \cap H :
              IsPrefix(Root, link) /\ Links[link] = Follow(H, path)
    BY <1>2, <2>1
  <2> QED BY <1>4, <2>2 DEF path
<1> QED BY <1>3, <1>4

\* Only GetOpen decides what is served.
LEMMA ServedStays ==
    ASSUME [Next]_vars, ~GetOpen
    PROVE  served' = served
BY DEF Next, Session, Client, SessionRecv, SessionRecvFail, SessionError,
       SessionQuit, SendAll, SendFail, SessionTail, ScanOpen, ScanEntry,
       Visits, ScanSize, ScanBreak, ScanEnd, ScanLeaves, ScanThrow, GetSize,
       GetDenied, Connect, ClientSends, ClientHeader, ClientLine,
       ClientRecvFail, ClientListed, ClientClose, DirectoryChanges, Ended,
       Tells, notReply, notScan, notClient, replyVars, vars

\* A GET opens only what is below the media directory, whatever the directory
\* and its links, whatever request lines clients send and whatever changes
\* between the resolution for the size and the one for the file, except
\* through a link that the name comes to over something that is no directory.
THEOREM GetStaysInside == Spec => OpensInside
<1> DEFINE Inside ==
      \/ served' \in {served, NoPath}
      \/ IsPrefix(Root, served')
      \/ /\ ~Reaches(here, argument)
         /\ \E link \in DOMAIN Links \cap here :
               IsPrefix(Root, link) /\ Links[link] = served'
<1>1. RequestsInv /\ [Next]_vars => [Inside]_vars
  <2> SUFFICES ASSUME RequestsInv, [Next]_vars PROVE Inside
    OBVIOUS
  <2>1. CASE ~GetOpen
    BY <2>1, ServedStays
  <2>2. CASE GetOpen
    <3> DEFINE path   == resolve_safe_path(here, argument)
               target == Follow(here, path)
               opened == path # NoPath /\ target \in (Files \cap here) \cup Dirs
    <3>1. served' = IF opened THEN target ELSE NoPath
      BY <2>2 DEF GetOpen
    <3>2. CASE ~opened
      BY <3>1, <3>2
    <3>3. CASE opened
      <4>1. served' = target /\ path # NoPath
        BY <3>1, <3>3
      <4>2. argument \in Arguments
        BY DEF RequestsInv, ArgumentInv
      <4> QED BY <4>1, <4>2, OpenedInside
    <3> QED BY <3>2, <3>3
  <2> QED BY <2>1, <2>2
<1> QED BY <1>1, RequestsInvariance, PTL DEF Spec, OpensInside

\* No GET of the plain name of a file below the media directory is refused,
\* for every directory, however deep the file lies.
THEOREM PlainServed == Spec => []PlainNamesServed
<1>1. RequestsInv => PlainNamesServed
  <2> SUFFICES ASSUME RequestsInv, spc = "error", changes = 0, ~denied,
                      NEW f \in Files \cap here, IsPrefix(Root, f),
                      request = <<"GET", Blank>> \o Plain(f),
                      Trim(Plain(f)) = Plain(f), Plain(f)[1] # ".."
               PROVE  FALSE
    BY DEF PlainNamesServed
  <2> DEFINE t == Plain(f)
             c == Inner(f)
             r == Len(Root)
  <2>1. Below(f)
    <3>1. f # Root
      BY FilesAssumption
    <3> QED BY <3>1, FilesAssumption DEF Below
  <2>2. t = Join(c)
    BY DEF Plain, Inner
  <2>3. Follow(here, f) = f
    BY FilesAssumption DEF Follow
  <2>4. /\ t \in Seq(Range(t)) /\ t # <<>> /\ t[1] = c[1][1]
    BY <2>1, <2>2, JoinedName
  <2>5. /\ c[1] = f[r + 1] /\ f # <<>>
    <3>1. /\ r \in Nat /\ Len(f) = r + Len(c) /\ c \in Seq(Range(f))
          /\ c # <<>> /\ \A k \in 1 .. Len(c) : c[k] = f[r + k]
      BY <2>1, InnerNames
    <3> HIDE DEF c, r
    <3>2. Len(c) \in Nat /\ Len(c) >= 1
      BY <3>1
    <3>3. 1 \in 1 .. Len(c) /\ Len(f) # 0
      BY <3>1, <3>2
    <3> QED BY <3>1, <3>3
  <2>6. f[r + 1][1] # ".."
    BY <2>4, <2>5
  <2>7. resolve_safe_path(here, t) = f
    BY <2>1, <2>2, <2>3, <2>6, PlainResolved
  <2>8. Fetches(here, t)
    BY <2>3, <2>5, <2>7 DEF Fetches, is_regular_file, NoPath
  <2>9. /\ parse_request(request).type = "GET"
        /\ parse_request(request).argument = t
    <3> HIDE DEF t
    <3>1. request = <<"GET", Blank>> \o t /\ Trim(t) = t
      BY DEF t
    <3> QED BY <2>4, <3>1, GetParsed
  <2> QED BY <2>8, <2>9 DEF RequestsInv, RefusedInv
<1> QED BY <1>1, RequestsInvariance, PTL
=============================================================================
