------------------------- MODULE StreamingInvariant -------------------------
(***************************************************************************)
(* The inductive invariant behind the safety properties of Streaming: at   *)
(* most one request is under way, the header decides what the client       *)
(* expects, and the bytes received, in flight and still in the buffer are  *)
(* consecutive bytes of the file.                                          *)
(***************************************************************************)
EXTENDS Streaming

Outside    == {"loop", "recv", "tail", "done"}   \* no request in its hands
Answering  == {"size", "open", "error"}          \* no byte of a reply sent
Loop       == {"check", "read", "send"}          \* handle_get's while loop
Fetching   == {"create", "recv", "success"}      \* do_get has read an OK
HeaderSeen == {"ok", "cutOk"}

\* handle_get has produced nothing yet.
Fresh == reply = NoReply /\ s2c = <<>> /\ fpos = 0 /\ total_sent = 0

\* A connection carries one GET, and a QUIT only behind a complete transfer:
\* handle_get never starts a second time and BYE never precedes a file byte.
RequestInv ==
    /\ c2s \in {<<>>, <<"GET">>, <<"PART">>, <<"QUIT">>}
    /\ cpc = "get" => c2s = <<>>
    /\ cpc = "get" \/ c2s \in {<<"GET">>, <<"PART">>}
          => spc \in Outside /\ Fresh
    /\ c2s = <<"PART">> => cside = "closed"
    /\ c2s = <<"QUIT">> \/ spc = "bye" => cpc = "success"
    /\ spc \in Answering => Fresh
    /\ spc = "header" => /\ s2c = <<>>
                         /\ reply.kind \in {"none", "cut", "cutOk"}
                         /\ fpos = 0 /\ total_sent = 0
    /\ spc \in Loop => reply.kind = "ok"
    /\ (c2s = <<"GET">> \/ spc \in Answering \cup {"header"}) /\ Sendable
          => cpc = "hdr"

\* What the client makes of the header, also of one that was cut short: it
\* then has lost the connection and gets no byte.
HeaderInv ==
    /\ reply.kind = "ok" => reply.n = file_size
    /\ reply.kind = "cutOk" => /\ reply.n \in CutNumbers(file_size)
                               /\ s2c = <<>> /\ got = <<>> /\ cbuf = <<>>
    /\ cpc \in Fetching => reply.kind \in HeaderSeen /\ csize = reply.n
    /\ cpc \in Fetching /\ reply.kind = "cutOk" => sside = "shut"

\* Received, in flight and in the buffer: consecutive bytes of the file.
BytesInv ==
    /\ InOrder
    /\ cpc # "success" =>
         \A i \in 1 .. Len(s2c) : s2c[i] = Len(got) + Len(cbuf) + i
    /\ reset => s2c = <<>>
    /\ spc \in {"check", "read"} =>
         /\ fpos = total_sent
         /\ ~reset => Len(got) + Len(cbuf) + Len(s2c) = total_sent
    /\ spc = "read" => total_sent < file_size
    /\ spc = "send" =>
         /\ fpos = total_sent + Len(buf)
         /\ ~reset => Len(got) + Len(cbuf) + Len(s2c) = total_sent + off
         /\ \A i \in 1 .. Len(buf) : buf[i] = total_sent + i

\* do_get counts no more than it was told to expect, and that much when it
\* reports success.
CountInv ==
    /\ cpc \in {"get", "hdr"} => got = <<>> /\ cbuf = <<>>
    /\ Len(got) + Len(cbuf) <= csize
    /\ saved <= Len(got)
    /\ diskOk => saved = Len(got)
    /\ cpc = "success" => Len(got) = csize

\* The inductive invariant of a GET, whatever do_get, handle_get, stop(), the
\* connection and the file do: everything above together.
StreamInv ==
    TypeOK /\ RequestInv /\ HeaderInv /\ BytesInv /\ CountInv
           /\ SendsWithinAnnounced
=============================================================================
