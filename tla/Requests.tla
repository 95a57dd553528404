------------------------------ MODULE Requests ------------------------------
(***************************************************************************)
(* One request of any kind and its answer: the client's connect, do_list   *)
(* or a bare request line; ClientSession::run with handle_list and the     *)
(* first half of handle_get; FileManager::list_files step by step while    *)
(* other processes change the directory. The bytes of a file are the       *)
(* subject of Streaming.                                                   *)
(***************************************************************************)
EXTENDS Protocol, FileManager

CONSTANTS Lines,       \* request lines clients may send
          Trees,       \* what may exist at the start
          Order,       \* the names in the root in the order of std::string
          SizeOf,      \* the digits of a file's size
          Faults,      \* "refused", "cut", "reset", "io"
          MaxChanges   \* bound on changes of the directory

Names == Range(Order)

ASSUME RequestsAssumption ==
    /\ \A tree \in Trees : tree \subseteq Files \cup DOMAIN Links
    /\ Faults \subseteq {"refused", "cut", "reset", "io"}
    /\ MaxChanges \in Nat
    /\ \A line \in Lines : line \in Seq(Range(line))
    /\ Order \in Seq(Names)
    /\ \A name \in Names : IsName(name)
    /\ Entries(Files \cup DOMAIN Links)
          \subseteq {Append(Root, name) : name \in Names}
    /\ \A f \in Files : SizeOf[f] \in Seq(Range(Digits)) \ {<<>>}

VARIABLES
    here, changes,   \* the file system, and its changes so far
    spc,             \* where the session's thread is
    sside,           \* the server's end of the connection
    argument,        \* handle_get's filename
    size,            \* handle_get's file_size, in digits
    denied,          \* history: the file system refused what a GET asked
    ec,              \* list_files' error code is set
    todo,            \* entries the directory_iterator has still to return
    cur,             \* the entry whose size is taken
    files,           \* list_files' result so far
    out,             \* the response being sent
    served,          \* the path open_binary_file has opened
    c2s, s2c,        \* the request line; the response's tokens in flight
    cpc, cside,      \* where the client is; its end of the connection
    request,         \* the line the client has sent
    count, shown,    \* do_list's count and the lines it has printed
    steady, known,   \* history: visible all through / ever during the scan
    gaveUp,          \* history: list_files left the scan early
    cut              \* history: a response was sent in part only

fsVars     == <<here, changes>>
scanVars   == <<ec, todo, cur, files, gaveUp>>
pastVars   == <<steady, known>>
replyVars  == <<argument, size, denied, out, served>>
clientVars == <<cpc, cside, request, count, shown>>
vars == <<fsVars, spc, sside, scanVars, pastVars, replyVars, c2s, s2c,
          clientVars, cut>>

SessionPC == {"none", "recv", "open", "scan", "size", "getsize", "getopen",
              "send", "error", "bye", "tail", "done", "terminated"}
Finished  == {"success", "failed", "aborted"}
ClientPC  == {"start", "connected", "header", "lines"} \cup Finished

NoLine == <<NL>>

TypeOK ==
    /\ here \subseteq Files \cup DOMAIN Links /\ changes \in 0 .. MaxChanges
    /\ spc \in SessionPC /\ sside \in {"open", "shut"}
    /\ ec \in BOOLEAN
    /\ todo \subseteq Entries(Files \cup DOMAIN Links)
    /\ files \subseteq {Append(Root, n) : n \in Names}
    /\ cur \in {NoPath} \cup Files \cup DOMAIN Links
    /\ size \in Seq(Range(Digits)) /\ denied \in BOOLEAN
    /\ served \in {NoPath} \cup Files \cup Dirs
    /\ cpc \in ClientPC /\ cside \in {"open", "closed"}
    /\ out \in Seq(Range(out)) /\ s2c \in Seq(Range(s2c))
    /\ shown \in Seq(Range(shown))
    /\ count \in Nat /\ Len(shown) <= count
    /\ steady \subseteq known
    /\ gaveUp \in BOOLEAN /\ cut \in BOOLEAN

Init ==
    /\ here \in Trees /\ changes = 0
    /\ spc = "none" /\ sside = "open"
    /\ argument = <<>> /\ size = <<>> /\ denied = FALSE
    /\ out = <<>> /\ served = NoPath
    /\ ec = FALSE /\ todo = {} /\ cur = NoPath /\ files = {}
    /\ c2s = NoLine /\ s2c = <<>>
    /\ cpc = "start" /\ cside = "open" /\ request = NoLine
    /\ count = 0 /\ shown = <<>>
    /\ steady = {} /\ known = {} /\ gaveUp = FALSE /\ cut = FALSE

-----------------------------------------------------------------------------
(* ClientSession::run *)

SGoto(from, to) == spc = from /\ spc' = to

\* A step of the session that leaves the client and the file system alone.
notSession == <<fsVars, pastVars, clientVars>>
notScan    == <<notSession, sside, replyVars, c2s, s2c, cut>>
notReply   == <<notSession, scanVars, sside, c2s, s2c, cut>>

Handlers == [LIST |-> "open", GET |-> "getsize", QUIT |-> "bye",
             UNKNOWN |-> "error"]

\* recv_line, parse_request and the switch.
SessionRecv ==
    /\ c2s # NoLine
    /\ SGoto("recv", Handlers[parse_request(c2s).type])
    /\ argument' = parse_request(c2s).argument
    /\ c2s' = NoLine
    /\ UNCHANGED <<notSession, scanVars, sside, size, denied, out, served, s2c,
                   cut>>

\* The end of the stream, a timeout or stop().
SessionRecvFail ==
    /\ SGoto("recv", "tail")
    /\ c2s = NoLine
    /\ cside = "closed" \/ "cut" \in Faults
    /\ UNCHANGED <<notReply, replyVars>>

\* The error response and BYE: whether they could be sent is ignored.
Tells(from, to, line) ==
    /\ SGoto(from, to)
    /\ s2c' = IF cside = "open" THEN s2c \o Response(<<line>>) ELSE s2c
    /\ UNCHANGED <<notSession, scanVars, sside, replyVars, c2s, cut>>

SessionError == Tells("error", "recv", ErrorLine("reason"))

SessionQuit == Tells("bye", "tail", OkLine(<<"BYE">>))

\* send_string of a LIST response or a GET header: all of it, ...
SendAll ==
    /\ SGoto("send", "recv")
    /\ cside = "open"
    /\ s2c' = s2c \o out
    /\ UNCHANGED <<notSession, scanVars, sside, replyVars, c2s, cut>>

\* ... or a part, by a timeout or stop(); is_active_ is FALSE then.
SendFail ==
    /\ SGoto("send", "tail")
    /\ cside = "closed" \/ "cut" \in Faults
    /\ \E n \in 0 .. Len(out) - 1 :
          s2c' = s2c \o (IF cside = "open" THEN SubSeq(out, 1, n) ELSE <<>>)
    /\ cut' = TRUE
    /\ UNCHANGED <<notSession, scanVars, sside, replyVars, c2s>>

SessionTail ==
    /\ SGoto("tail", "done")
    /\ sside' = "shut"
    /\ UNCHANGED <<notSession, scanVars, replyVars, c2s, s2c, cut>>

-----------------------------------------------------------------------------
(* FileManager::list_files, called by handle_list *)

\* The root is looked at and the directory_iterator made; if either fails the
\* list stays empty.
ScanOpen ==
    /\ SGoto("open", "scan")
    /\ \/ todo' = Entries(here) /\ gaveUp' = FALSE
       \/ "io" \in Faults /\ todo' = {} /\ gaveUp' = TRUE
    /\ steady' = Visible(here)
    /\ known' = Visible(here)
    /\ ec' = FALSE
    /\ UNCHANGED <<fsVars, clientVars, cur, files, sside, replyVars, c2s, s2c,
                   cut>>

\* One iteration up to the question for the size. Only for a link does
\* is_regular_file ask the file system; the type of other entries came with
\* the entry. A link to nothing sets ec and counts as not regular. Behind a
\* hidden file the loop goes on, or does not.
Visits(goesOn, anyType) ==
    /\ spc = "scan"
    /\ ~ec
    /\ \E e \in todo :
         LET links   == e \in DOMAIN Links
             regular == \/ anyType
                        \/ IF links THEN is_regular_file(here, e)
                                    ELSE e \in Files
         IN  /\ todo' = {t \in todo \ {e} : regular /\ Hidden(e) => goesOn}
             /\ cur' = IF regular THEN e ELSE NoPath
             /\ ec' = (links /\ (e \notin here \/ Follow(here, e) = e))
             /\ spc' = IF regular /\ ~Hidden(e) THEN "size" ELSE "scan"
    /\ UNCHANGED <<notScan, files, gaveUp>>

\* Mutant: a hidden file ends the loop (break for continue).
ScanEntryBreak == Visits(FALSE, FALSE)

\* Mutant: every entry is taken for a regular file.
ScanEntryAnyType == Visits(TRUE, TRUE)

ScanEntry == Visits(TRUE, FALSE)

\* entry.file_size: a file removed in the meantime sets ec.
ScanSize ==
    /\ SGoto("size", "scan")
    /\ ec' = ~is_regular_file(here, cur)
    /\ files' = IF ec' THEN files ELSE files \cup {cur}
    /\ UNCHANGED <<notScan, todo, cur, gaveUp>>

\* The names of what was found, in the order that the sort gives them.
Listed(found) ==
    LET listed[k \in 0 .. Len(Order)] ==
            IF k = 0 THEN <<>>
            ELSE IF Append(Root, Order[k]) \in found
                 THEN Append(listed[k - 1], Order[k]) ELSE listed[k - 1]
    IN  listed[Len(Order)]

Sorted ==
    LET names == Listed(files)
    IN  [i \in DOMAIN names |->
            [name |-> names[i],
             size |-> SizeOf[Follow(Files \cup DOMAIN Links,
                                    Append(Root, names[i]))]]]

\* The sort, build_list_response and the way back to handle_list.
ScanLeaves(early) ==
    /\ SGoto("scan", "send")
    /\ out' = Response(build_list_response(Sorted))
    /\ gaveUp' = early
    /\ ec' = FALSE
    /\ todo' = {}
    /\ cur' = NoPath
    /\ UNCHANGED <<notSession, files, sside, argument, size, denied, served,
                   c2s, s2c, cut>>

\* The next iteration finds ec set and leaves the loop with what it has.
ScanBreak == ec /\ todo # {} /\ ScanLeaves(TRUE)

ScanEnd == todo = {} /\ ScanLeaves(gaveUp)

\* readdir fails: the iterator's ++ throws and nothing catches it.
ScanThrow ==
    /\ "io" \in Faults
    /\ SGoto("scan", "terminated")
    /\ sside' = "shut"
    /\ UNCHANGED <<notSession, scanVars, replyVars, c2s, s2c, cut>>

-----------------------------------------------------------------------------
(* ClientSession::handle_get up to its header *)

\* get_file_size.
GetSize ==
    LET path  == resolve_safe_path(here, argument)
        found == path # NoPath /\ is_regular_file(here, path)
    IN  /\ SGoto("getsize", IF found THEN "getopen" ELSE "error")
        /\ size' = IF found THEN SizeOf[Follow(here, path)] ELSE size
        /\ UNCHANGED <<notReply, argument, denied, out, served>>

\* open_binary_file resolves the name a second time and opens what is there,
\* also a directory. The header has the size asked for before.
GetOpen ==
    LET path   == resolve_safe_path(here, argument)
        target == Follow(here, path)
        opened == path # NoPath /\ target \in (Files \cap here) \cup Dirs
    IN  /\ SGoto("getopen", IF opened THEN "send" ELSE "error")
        /\ served' = IF opened THEN target ELSE NoPath
        /\ out' = IF opened THEN Response(<<OkLine(size)>>) ELSE out
        /\ UNCHANGED <<notReply, argument, size, denied>>

\* weakly_canonical or file_size sets ec, or the ifstream is not open: no
\* permission, no descriptor, an I/O error.
GetDenied ==
    /\ "io" \in Faults
    /\ SGoto("getsize", "error") \/ SGoto("getopen", "error")
    /\ denied' = TRUE
    /\ UNCHANGED <<notReply, argument, size, out, served>>

-----------------------------------------------------------------------------
(* The client: main, do_list, and any client that sends one line *)

notClient == <<fsVars, spc, sside, scanVars, pastVars, replyVars, cut>>

CGoto(from, to) == cpc = from /\ cpc' = to

Connect ==
    /\ \/ CGoto("start", "connected") /\ SGoto("none", "recv")
       \/ "refused" \in Faults /\ CGoto("start", "failed") /\ UNCHANGED spc
    /\ UNCHANGED <<fsVars, sside, scanVars, pastVars, replyVars, cut, c2s, s2c,
                   cside, request, count, shown>>

ClientSends ==
    /\ CGoto("connected", "header")
    /\ request' \in Lines
    /\ c2s' = request'
    /\ UNCHANGED <<notClient, s2c, cside, count, shown>>

\* recv_line: a line, or what there is at the end of the stream.
LineEnds == {n \in DOMAIN s2c : s2c[n] = NL}
HasLine  == LineEnds # {} \/ (s2c # <<>> /\ sside = "shut")
Line     == IF LineEnds # {} THEN SubSeq(s2c, 1, Min(LineEnds) - 1) ELSE s2c
Rest     == IF LineEnds # {} THEN SubSeq(s2c, Min(LineEnds) + 1, Len(s2c))
                             ELSE <<>>

IsList == request = <<"LIST">>

\* The first line. do_list looks for a count behind "OK "; "OK" alone makes
\* substr(3) throw an exception that nothing catches.
ClientHeader ==
    /\ HasLine
    /\ s2c' = Rest
    /\ \/ /\ ~IsPrefix(OK, Line)
          /\ CGoto("header", "failed")
          /\ UNCHANGED count
       \/ /\ IsPrefix(OK, Line) /\ ~IsList
          /\ CGoto("header", "success")
          /\ UNCHANGED count
       \/ /\ IsList /\ Line = OK
          /\ CGoto("header", "aborted")
          /\ UNCHANGED count
       \/ /\ IsList /\ IsPrefix(OK, Line) /\ Line # OK
          /\ CGoto("header", "lines")
          /\ count' = Number(FirstWord(SubSeq(Line, 4, Len(Line))))
    /\ UNCHANGED <<notClient, c2s, cside, request, shown>>

\* One line of the list, taken apart by >> name >> size.
ClientLine ==
    /\ cpc = "lines"
    /\ Len(shown) < count
    /\ HasLine
    /\ s2c' = Rest
    /\ shown' = Append(shown, [name |-> FirstWord(Line),
                               size |-> Number(FirstWord(Behind(Line)))])
    /\ UNCHANGED <<notClient, c2s, cpc, cside, request, count>>

\* recv_line returns false; do_list and main report failure.
ClientRecvFail ==
    /\ \/ CGoto("header", "failed")
       \/ Len(shown) < count /\ CGoto("lines", "failed")
    /\ (s2c = <<>> /\ sside = "shut") \/ "reset" \in Faults
    /\ UNCHANGED <<notClient, c2s, s2c, cside, request, count, shown>>

\* The list is complete; QUIT, whose result is ignored.
ClientListed ==
    /\ CGoto("lines", "success")
    /\ Len(shown) = count
    /\ c2s' = <<"QUIT">>
    /\ UNCHANGED <<notClient, s2c, cside, request, count, shown>>

ClientClose ==
    /\ cpc \in Finished
    /\ cside = "open"
    /\ cside' = "closed"
    /\ UNCHANGED <<notClient, c2s, s2c, cpc, request, count, shown>>

-----------------------------------------------------------------------------
(* Another process creates or removes a file or a link. A scan under way   *)
(* may or may not notice.                                                  *)

Scanning == spc \in {"scan", "size"}

DirectoryChanges ==
    /\ changes < MaxChanges
    /\ changes' = changes + 1
    /\ \E p \in Files \cup DOMAIN Links :
         LET noticed == IF p \in here THEN todo \ {p} ELSE todo \cup {p}
         IN  /\ here' = IF p \in here THEN here \ {p} ELSE here \cup {p}
             /\ todo' \in {todo} \cup
                  (IF Scanning /\ p \in Entries({p}) THEN {noticed} ELSE {})
             /\ steady' = steady \cap Visible(here')
             /\ known' = known \cup (IF Scanning THEN Visible(here') ELSE {})
    /\ UNCHANGED <<spc, sside, ec, cur, files, gaveUp, replyVars, c2s, s2c,
                   clientVars, cut>>

-----------------------------------------------------------------------------
Session ==
    \/ SessionRecv \/ SessionRecvFail \/ SessionError \/ SessionQuit
    \/ SendAll \/ SendFail \/ SessionTail
    \/ ScanOpen \/ ScanEntry \/ ScanSize \/ ScanBreak \/ ScanEnd \/ ScanThrow
    \/ GetSize \/ GetOpen \/ GetDenied

Client ==
    \/ Connect \/ ClientSends \/ ClientHeader \/ ClientLine \/ ClientRecvFail
    \/ ClientListed \/ ClientClose

\* The client is gone, and the session or the server, if there was one.
Ended ==
    /\ cside = "closed"
    /\ spc \in {"none", "done", "terminated"}
    /\ UNCHANGED vars

Next == Session \/ Client \/ DirectoryChanges \/ Ended

Spec == Init /\ [][Next]_vars

-----------------------------------------------------------------------------
(* Properties *)

\* list_files, in whatever order the directory is read and whatever changes
\* meanwhile, returns only visible files that existed during the scan, and all
\* that were there from its beginning to its end, unless an entry that could
\* not be examined made it leave the loop.
ListingBounds ==
    spc = "send" /\ IsList =>
        /\ files \subseteq known
        /\ gaveUp \/ steady \subseteq files

\* A GET opens only what is below the media directory, whatever dots, slashes
\* and links its name is made of and whatever has changed since its size was
\* asked for. There is one way out: a link in the directory, if the name comes
\* to it through something that is no directory, which keeps weakly_canonical
\* but not open() from following it.
OpensInside ==
    [][ \/ served' \in {served, NoPath}
        \/ IsPrefix(Root, served')
        \/ /\ ~Reaches(here, argument)
           /\ \E link \in DOMAIN Links \cap here :
                 IsPrefix(Root, link) /\ Links[link] = served' ]_vars

Plain(path) == Join(SubSeq(path, Len(Root) + 1, Len(path)))

\* A GET of the plain name of a file below the media directory is not refused,
\* hidden files, blanks inside and subdirectories included, if the file system
\* lets the server look at the file and open it, except that parse_request
\* drops blanks at the ends of a name and resolve_safe_path refuses a name that
\* starts with two dots.
PlainNamesServed ==
    spc = "error" /\ changes = 0 /\ ~denied =>
        \A f \in {f \in Files \cap here : IsPrefix(Root, f)} :
            \/ request # <<"GET", Blank>> \o Plain(f)
            \/ Trim(Plain(f)) # Plain(f)
            \/ Plain(f)[1] = ".."

Whole == cpc = "success" /\ IsList /\ ~cut

\* What do_list prints from an uncut response is what list_files found, line
\* by line; only a name with a blank is shown in part, with a wrong size.
ShownIsListed ==
    Whole => /\ Len(shown) = Len(Sorted)
             /\ \A i \in DOMAIN shown :
                  \/ Blank \in Range(Sorted[i].name)
                  \/ shown[i] = [name |-> Sorted[i].name,
                                 size |-> Number(Sorted[i].size)]

\* A name that do_list prints can be given to a GET: it is parsed and resolved
\* to the same file, unless it holds a blank, or is a link that leads out of
\* the directory or to a name in it that starts with two dots.
ShownCanBeFetched ==
    Whole => \A i \in DOMAIN shown :
        LET entry  == Append(Root, Sorted[i].name)
            target == Follow(here, entry)
            asked  == parse_request(<<"GET", Blank>> \o shown[i].name).argument
            path   == resolve_safe_path(here, asked)
        IN  \/ Blank \in Range(Sorted[i].name)
            \/ ~IsPrefix(Root, target)
            \/ target[Len(Root) + 1][1] = ".."
            \/ entry \notin Visible(here)
            \/ path = target /\ is_regular_file(here, path)

\* README: "Ensures clients cannot access files outside the designated media
\* directory". See OpensInside for the name that does.
ServedInside == served # NoPath => IsPrefix(Root, served)

\* README: "List all files available on the server". An entry that cannot be
\* examined, such as a link to nothing, hides the files behind it.
EveryFileListed == spc = "send" /\ IsList => steady \subseteq files

\* client_main says "Premature end of file list." when the list ends early, and
\* Socket.hpp that recv_line returns "false on EOF or error". A list that was
\* cut inside its header is reported as complete, and as empty.
ListedInFull == cpc = "success" /\ IsList => Len(shown) = Len(Sorted)
=============================================================================
