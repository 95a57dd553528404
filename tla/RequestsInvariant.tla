------------------------- MODULE RequestsInvariant -------------------------
(***************************************************************************)
(* The inductive invariants of Requests. Behind ListingBounds,             *)
(* OpensInside and PlainNamesServed: what list_files has found, has still  *)
(* to visit and is looking at covers the files that were there all the     *)
(* time, and the name a GET works on is the one that the client sent.      *)
(* Behind ShownIsListed and ShownCanBeFetched: what is found, in flight    *)
(* and printed make up one list.                                           *)
(***************************************************************************)
EXTENDS Requests

Quit == <<"QUIT">>

Waiting == {"none", "recv", "tail", "done"}   \* nothing of a request in hand

Unscanned == files = {} /\ steady = {}

\* A connection carries one request, and behind a list only QUIT: list_files
\* runs at most once, and a GET never follows it.
OneRequestInv ==
    /\ cpc \in {"start", "connected"} => c2s = NoLine
    /\ cpc \in {"start", "connected"} \/ c2s \notin {NoLine, Quit}
          => spc \in Waiting /\ Unscanned
    /\ spc \in {"open", "getsize", "getopen"} => Unscanned

\* What the directory_iterator returns are entries of the root, and an entry
\* that got as far as its size does not start with a dot.
EntriesInv ==
    /\ here \subseteq Files \cup DOMAIN Links
    /\ todo \subseteq Entries(Files \cup DOMAIN Links)
    /\ spc = "size" => cur \in Entries(Files \cup DOMAIN Links) /\ ~Hidden(cur)

\* The bounds of ListingBounds, as they are in the middle of the loop.
ScanInv ==
    /\ files \subseteq known
    /\ Scanning => /\ steady \subseteq Visible(here)
                   /\ Visible(here) \subseteq known
    /\ spc = "scan" => gaveUp \/ steady \subseteq files \cup todo
    /\ spc = "size" => gaveUp \/ steady \subseteq files \cup todo \cup {cur}
    /\ spc = "send" => gaveUp \/ steady \subseteq files

\* The name a session works on came with a line that a client sent.
Arguments == {<<>>} \cup {parse_request(line).argument : line \in Lines}

ArgumentInv ==
    /\ c2s \in Lines \cup {NoLine, Quit}
    /\ argument \in Arguments

\* A GET is carried out for the name in the client's line, and refused only if
\* that name did not lead to a file or the file system refused; the directory
\* may have changed since.
Fetches(H, filename) ==
    LET path == resolve_safe_path(H, filename)
    IN  path # NoPath /\ is_regular_file(H, path)

RefusedInv ==
    /\ changes \in Nat
    /\ c2s \in {NoLine, request, Quit}
    /\ spc \in {"getsize", "getopen"}
          => argument = parse_request(request).argument
    /\ spc = "error" /\ changes = 0 /\ ~denied =>
          \/ parse_request(request).type = "UNKNOWN"
          \/ ~Fetches(here, parse_request(request).argument)

\* The inductive invariant of a request, whatever the client sends and other
\* processes do to the directory under list_files and handle_get: everything
\* above together.
RequestsInv ==
    OneRequestInv /\ EntriesInv /\ ScanInv /\ ArgumentInv /\ RefusedInv

-----------------------------------------------------------------------------
(* The inductive invariant behind ShownIsListed and ShownCanBeFetched *)

\* No name in the media directory holds a newline, which would end its line in
\* the response.
NoNewlines == \A name \in Names : NL \notin Range(name)

\* The lines of the answer to LIST, and those from the k-th on.
ListAnswer   == build_list_response(Sorted)
LinesFrom(k) == SubSeq(ListAnswer, k, Len(ListAnswer))

\* The session has no request in hand and none waiting.
Answered == spc \in {"recv", "tail", "done"} /\ c2s = NoLine

\* The lines printed so far are the first of the list.
ShownSoFar ==
    \A i \in DOMAIN shown :
        \/ Blank \in Range(Sorted[i].name)
        \/ shown[i] = [name |-> Sorted[i].name,
                       size |-> Number(Sorted[i].size)]

\* Before its request the client has nothing, before the header nothing to
\* print; a session that could not send a response ends.
BeginInv ==
    /\ cpc \in {"start", "connected"} => s2c = <<>> /\ request = NoLine
    /\ cpc \in {"start", "connected", "header"} => shown = <<>> /\ count = 0
    /\ cut => spc \in {"tail", "done"}
    /\ files \subseteq Visible(Files \cup DOMAIN Links)

\* The session of a LIST scans once, answers with the list, and then gets no
\* more than a QUIT.
SessionInv ==
    IsList /\ ~cut =>
        /\ spc \notin {"error", "getsize", "getopen"}
        /\ c2s \in {NoLine, request, Quit}
        /\ c2s = Quit \/ spc = "bye" => cpc = "success"
        /\ spc = "send" => out = Response(ListAnswer)

\* Between the session and do_list are the lines that are not yet printed.
FlightInv ==
    IsList /\ ~cut =>
        /\ cpc = "header" => \/ s2c = <<>>
                             \/ s2c = Response(ListAnswer) /\ Answered
        /\ cpc = "lines"  => /\ Answered /\ ShownSoFar
                             /\ count = Len(Sorted)
                             /\ s2c = Response(LinesFrom(Len(shown) + 2))
        /\ cpc = "success" => /\ ShownSoFar /\ Len(shown) = Len(Sorted)
                              /\ c2s \in {NoLine, Quit}
                              /\ spc \in {"recv", "bye", "tail", "done"}

\* The stream between handle_list and do_list: what has been found, what is
\* under way and what has been printed make up one list, if nothing was cut.
ListingInv == BeginInv /\ SessionInv /\ FlightInv
=============================================================================
