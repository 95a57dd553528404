----------------------------- MODULE Streaming -----------------------------
(***************************************************************************)
(* One GET, end to end: ClientSession::run and handle_get on the server,   *)
(* do_get in the client, the Socket send and receive loops of both, and a  *)
(* TCP connection between them. The file may change, the connection break, *)
(* the client die, its disk fail and Server::stop come at any moment.      *)
(*                                                                         *)
(* The bytes of the file are their positions 1, 2, ...; Text stands for a  *)
(* byte of a protocol line that ends up where a file byte is expected.     *)
(***************************************************************************)
EXTENDS Integers, Sequences

CONSTANTS FileSizes,       \* sizes the file may have at the start
          MaxSize,         \* bound on the size of the file
          ChunkSize,       \* ServerConfig::chunk_size
          ClientChunk,     \* CHUNK_SIZE of do_get
          BufCap,          \* bytes the two kernels' socket buffers hold
          FaultSets,       \* what may go wrong, one set for each behaviour
          MaxFileChanges   \* bound on changes of the file

\* "timeout": socket_timeout_sec > 0, and the timeouts may expire.
AllFaults == {"shrink", "grow", "unlink", "denied", "reset", "stop", "die",
              "disk", "cut", "timeout"}

ASSUME StreamingAssumption ==
    /\ MaxSize \in Nat
    /\ FileSizes \subseteq 0 .. MaxSize
    /\ ChunkSize \in Nat \ {0} /\ ClientChunk \in Nat \ {0}
    /\ BufCap \in Nat \ {0}
    /\ \A F \in FaultSets : F \subseteq AllFaults
    /\ MaxFileChanges \in Nat

Text == 0

VARIABLES
    faults,       \* what may go wrong in this behaviour
    flen,         \* the file's current length
    exists,       \* the file can be found under its name
    changes,      \* changes of the file so far
    spc,          \* where the session's thread is
    active,       \* ClientSession::is_active_
    stopping,     \* ClientSession::stop has passed its compare-exchange
    sside,        \* the server's end of the connection
    file_size,    \* handle_get's file_size
    fpos, good,   \* file_stream: position, good()
    buf, off,     \* buffer's bytes, how many of them send_all has sent
    total_sent,
    c2s,          \* request lines on their way to the server
    reply,        \* the response line on its way: kind and number
    s2c,          \* bytes behind the response line
    reset,        \* the connection was reset
    cpc,          \* where the client is
    cside,        \* the client's end of the connection
    csize,        \* do_get's file_size
    cbuf,         \* what recv_all has received of the current chunk
    got,          \* chunks handed to outfile.write; Len(got) = total_received
    saved,        \* bytes that outfile really wrote
    diskOk        \* outfile's state is good

fileVars   == <<faults, flen, exists, changes>>
getVars    == <<file_size, fpos, good, buf, off, total_sent>>
sessVars   == <<spc, active, stopping, sside, getVars>>
netVars    == <<c2s, reply, s2c, reset>>
clientVars == <<cpc, cside, csize, cbuf, got, saved, diskOk>>
vars == <<fileVars, sessVars, netVars, clientVars>>

MinOf(a, b) == IF a <= b THEN a ELSE b

NoReply == [kind |-> "none", n |-> 0]
Replies == [kind : {"none", "ok", "cutOk", "cut", "error"}, n : 0 .. MaxSize]

SessionPC == {"loop", "recv", "size", "open", "header", "check", "read",
              "send", "error", "bye", "tail", "done"}
Finished  == {"success", "failed", "aborted", "dead"}
ClientPC  == {"get", "hdr", "create", "recv"} \cup Finished

TypeOK ==
    /\ faults \in FaultSets
    /\ flen \in 0 .. MaxSize /\ exists \in BOOLEAN
    /\ changes \in 0 .. MaxFileChanges
    /\ spc \in SessionPC /\ active \in BOOLEAN /\ stopping \in BOOLEAN
    /\ sside \in {"open", "shut"}
    /\ file_size \in 0 .. MaxSize /\ fpos \in 0 .. MaxSize
    /\ good \in BOOLEAN
    /\ buf \in Seq(1 .. MaxSize) /\ off \in 0 .. Len(buf)
    /\ total_sent \in 0 .. MaxSize
    /\ c2s \in Seq({"GET", "QUIT", "PART"})
    /\ reply \in Replies
    /\ s2c \in Seq(0 .. MaxSize) /\ reset \in BOOLEAN
    /\ cpc \in ClientPC /\ cside \in {"open", "closed"}
    /\ csize \in 0 .. MaxSize
    /\ cbuf \in Seq(0 .. MaxSize) /\ got \in Seq(0 .. MaxSize)
    /\ saved \in 0 .. MaxSize
    /\ diskOk \in BOOLEAN

Init ==
    /\ faults \in FaultSets
    /\ flen \in FileSizes /\ exists \in BOOLEAN /\ changes = 0
    /\ spc = "loop" /\ active = TRUE /\ stopping = FALSE
    /\ sside = "open"
    /\ file_size = 0 /\ fpos = 0 /\ good = TRUE
    /\ buf = <<>> /\ off = 0 /\ total_sent = 0
    /\ c2s = <<>> /\ reply = NoReply /\ s2c = <<>> /\ reset = FALSE
    /\ cpc = "get" /\ cside = "open" /\ csize = 0
    /\ cbuf = <<>> /\ got = <<>> /\ saved = 0 /\ diskOk = TRUE

-----------------------------------------------------------------------------
(* ClientSession::run *)

\* What the server sends now reaches the client.
Sendable == sside = "open" /\ cside = "open" /\ ~reset

SGoto(from, to) == spc = from /\ spc' = to

\* A step that changes nothing but the pc.
SMoves(from, to) ==
    /\ SGoto(from, to)
    /\ UNCHANGED <<fileVars, active, stopping, sside, getVars, netVars,
                   clientVars>>

SessionTest == SMoves("loop", IF active THEN "recv" ELSE "tail")

\* Where the switch on the command goes. A request without its newline is
\* handled like any other: it is no command, or its name is a prefix of the
\* name meant, which may be that of a file.
Handlers == [GET |-> {"size"}, QUIT |-> {"bye"}, PART |-> {"error", "size"}]

\* recv_line, parse_request and the switch.
SessionRecv ==
    /\ c2s # <<>>
    /\ ~reset
    /\ \E handler \in Handlers[Head(c2s)] : SGoto("recv", handler)
    /\ c2s' = Tail(c2s)
    /\ UNCHANGED <<fileVars, active, stopping, sside, getVars, reply, s2c,
                   reset, clientVars>>

\* End of stream, ECONNRESET, or the socket was shut down by stop().
RecvFails == (c2s = <<>> /\ cside = "closed") \/ reset \/ sside = "shut"

\* Mutant: a failed receive continues the loop instead of leaving it.
SessionRecvContinue == RecvFails /\ SMoves("recv", "loop")

SessionRecvFail == RecvFails /\ SMoves("recv", "tail")

\* SO_RCVTIMEO.
SessionTimeout == "timeout" \in faults /\ c2s = <<>> /\ SMoves("recv", "tail")

\* QUIT: whether BYE could be sent is ignored.
SessionQuit ==
    /\ SGoto("bye", "loop")
    /\ s2c' = IF Sendable /\ Len(s2c) < BufCap THEN Append(s2c, Text) ELSE s2c
    /\ active' = FALSE
    /\ UNCHANGED <<fileVars, stopping, sside, getVars, c2s, reply,
                   reset, clientVars>>

\* An ERROR response: whether it could be sent is ignored.
SessionError ==
    /\ SGoto("error", "loop")
    /\ reply' = IF Sendable THEN [kind |-> "error", n |-> 0] ELSE reply
    /\ UNCHANGED <<fileVars, active, stopping, sside, getVars, c2s,
                   s2c, reset, clientVars>>

\* The end of run(), which leaves the server's side of the connection as given.
RunEnds(side) ==
    /\ SGoto("tail", "done")
    /\ active' = FALSE
    /\ sside' = side
    /\ UNCHANGED <<fileVars, stopping, getVars, netVars,
                   clientVars>>

\* Mutant: run() returns without closing the socket.
SessionTailOpen == RunEnds(sside)

SessionTail == RunEnds("shut")

-----------------------------------------------------------------------------
(* ClientSession::handle_get *)

\* A look at the name finds no file, or the file system refuses.
NotFound == ~exists \/ "denied" \in faults

\* FileManager::get_file_size.
GetSize ==
    /\ exists
    /\ SGoto("size", "open")
    /\ file_size' = flen
    /\ UNCHANGED <<fileVars, active, stopping, sside, fpos, good, buf, off,
                   total_sent, netVars, clientVars>>

GetSizeFail == NotFound /\ SMoves("size", "error")

\* FileManager::open_binary_file resolves the name a second time.
GetOpen == exists /\ SMoves("open", "header")

GetOpenFail == NotFound /\ SMoves("open", "error")

\* send_all of the header, in one piece ...
GetHeader ==
    /\ SGoto("header", "check")
    /\ Sendable
    /\ reply' = [kind |-> "ok", n |-> file_size]
    /\ UNCHANGED <<fileVars, active, stopping, sside, getVars, c2s,
                   s2c, reset, clientVars>>

\* The numbers that a header cut behind its first digit or later still shows:
\* n without its last k digits (k <= n \div 9 holds for the digits of every n).
CutNumbers(n) ==
    {m \in 0 .. n : /\ \E k \in 0 .. n \div 9 : m = n \div 10^k
                    /\ m = 0 => n = 0}

\* ... or a part of it first: up to "OK" (cut), or up to some digits (cutOk).
GetHeaderPart ==
    /\ "cut" \in faults
    /\ spc = "header"
    /\ Sendable
    /\ reply = NoReply
    /\ \/ reply' = [kind |-> "cut", n |-> 0]
       \/ \E n \in CutNumbers(file_size) :
            reply' = [kind |-> "cutOk", n |-> n]
    /\ UNCHANGED <<fileVars, sessVars, c2s, s2c, reset, clientVars>>

GetHeaderFail ==
    /\ SGoto("header", "loop")
    /\ ~Sendable
    /\ active' = FALSE
    /\ UNCHANGED <<fileVars, stopping, sside, getVars, netVars,
                   clientVars>>

\* The streaming loop goes on while bytes from number next on are wanted.
Streams(next) ==
    SMoves("check",
           IF active /\ next < file_size /\ good THEN "read" ELSE "loop")

\* Mutant: the loop's bound is off by one.
GetLoopTestShort == Streams(total_sent + 1)

GetLoopTest == Streams(total_sent)

\* read() of so many bytes from a position, and gcount(): a short read clears
\* good().
Reads(pos, bytes_to_read) ==
    LET bytes_read == IF fpos < flen THEN MinOf(bytes_to_read, flen - fpos)
                                     ELSE 0
    IN  /\ SGoto("read", IF bytes_read = 0 THEN "loop" ELSE "send")
        /\ buf' = [i \in 1 .. bytes_read |-> pos + i]
        /\ off' = 0
        /\ fpos' = fpos + bytes_read
        /\ good' = (bytes_read = bytes_to_read)
        /\ UNCHANGED <<fileVars, active, stopping, sside, file_size,
                       total_sent, netVars, clientVars>>

\* Mutant: reading starts one byte early.
GetReadShifted == Reads(fpos - 1, MinOf(ChunkSize, file_size - total_sent))

\* Mutant: a whole chunk is read whatever remains to be sent.
GetReadWhole == Reads(fpos, ChunkSize)

GetRead == Reads(fpos, MinOf(ChunkSize, file_size - total_sent))

\* ::send takes at least one byte of the buffer; more are more steps.
Sends(byte) ==
    /\ spc = "send"
    /\ Sendable
    /\ off < Len(buf)
    /\ Len(s2c) < BufCap
    /\ s2c' = Append(s2c, byte)
    /\ off' = off + 1
    /\ UNCHANGED <<fileVars, spc, active, stopping, sside, file_size, fpos,
                   good, buf, total_sent, c2s, reply, reset,
                   clientVars>>

\* Mutant: after a partial send, send_all starts again at the first byte.
GetSendRestart == Sends(buf[1])

\* Socket::send_all.
GetSend == Sends(buf[off + 1])

GetSent ==
    /\ SGoto("send", "check")
    /\ off = Len(buf)
    /\ total_sent' = total_sent + Len(buf)
    /\ UNCHANGED <<fileVars, active, stopping, sside, file_size, fpos, good,
                   buf, off, netVars, clientVars>>

\* EPIPE, ECONNRESET, EBADF, or SO_SNDTIMEO on full buffers.
GetSendFail ==
    /\ SGoto("send", "loop")
    /\ off < Len(buf)
    /\ ~Sendable \/ ("timeout" \in faults /\ Len(s2c) = BufCap)
    /\ active' = FALSE
    /\ UNCHANGED <<fileVars, stopping, sside, getVars, netVars,
                   clientVars>>

-----------------------------------------------------------------------------
(* The client: do_get and the end of main *)

CGoto(from, to) == cpc = from /\ cpc' = to

\* The server's end is closed: recv returns 0 once the buffer is empty.
EndOfStream == sside = "shut" /\ s2c = <<>>

\* The output directory is made, and the request sent.
ClientRequest ==
    /\ \/ /\ CGoto("get", "hdr")
          /\ ~reset
          /\ c2s' = Append(c2s, "GET")
       \/ /\ CGoto("get", "failed")
          /\ reset \/ sside = "shut" \/ "disk" \in faults
          /\ UNCHANGED c2s
    /\ UNCHANGED <<fileVars, sessVars, reply, s2c, reset, cside, csize, cbuf,
                   got, saved, diskOk>>

\* recv_line and the parsing of the header. "OK" alone makes substr(3) throw
\* an exception that nothing catches.
ClientHeader ==
    /\ \/ /\ reply.kind = "ok" \/ (reply.kind = "cutOk" /\ EndOfStream)
          /\ ~reset
          /\ CGoto("hdr", "create")
          /\ csize' = reply.n
       \/ /\ \/ reply.kind = "error"
             \/ reply.kind \in {"none", "cut"} /\ EndOfStream
             \/ reset
          /\ CGoto("hdr", "failed")
          /\ UNCHANGED csize
       \/ /\ reply.kind = "cut" /\ EndOfStream
          /\ CGoto("hdr", "aborted")
          /\ UNCHANGED csize
    /\ UNCHANGED <<fileVars, sessVars, netVars, cside, cbuf, got, saved,
                   diskOk>>

ClientCreate ==
    /\ \/ CGoto("create", "recv")
       \/ "disk" \in faults /\ CGoto("create", "failed")
    /\ UNCHANGED <<fileVars, sessVars, netVars, cside, csize, cbuf, got, saved,
                   diskOk>>

to_recv == MinOf(ClientChunk, csize - Len(got))

\* Socket::recv_all. ::recv returns at least one byte; more are more steps.
ClientRecv ==
    /\ cpc = "recv"
    /\ ~reset
    /\ Len(cbuf) < to_recv
    /\ s2c # <<>>
    /\ cbuf' = Append(cbuf, Head(s2c))
    /\ s2c' = Tail(s2c)
    /\ UNCHANGED <<fileVars, sessVars, c2s, reply, reset, cpc, cside, csize,
                   got, saved, diskOk>>

\* outfile.write: its failure is not looked at, and later writes do nothing.
Writes(length) ==
    /\ cpc = "recv"
    /\ cbuf # <<>>
    /\ Len(cbuf) = to_recv
    /\ got' = got \o cbuf
    /\ cbuf' = <<>>
    /\ diskOk' \in {diskOk} \cup (IF "disk" \in faults THEN {FALSE} ELSE {})
    /\ saved' = IF diskOk' THEN saved + length ELSE saved
    /\ UNCHANGED <<fileVars, sessVars, netVars, cpc, cside, csize>>

\* Mutant: the whole buffer is written, whatever was received.
ClientWriteBuffer == Writes(ClientChunk)

ClientWrite == Writes(Len(cbuf))

\* recv_all returns 0 or -1.
RecvEnds(outcome) ==
    /\ CGoto("recv", outcome)
    /\ Len(cbuf) < to_recv
    /\ EndOfStream \/ reset
    /\ UNCHANGED <<fileVars, sessVars, netVars, cside, csize, cbuf, got, saved,
                   diskOk>>

\* Mutant: the client takes the end of the stream for the end of the file.
ClientRecvEnough == RecvEnds("success")

ClientRecvFail == RecvEnds("failed")

\* "Status: SUCCESS", and QUIT, whose result is ignored.
ClientSuccess ==
    /\ CGoto("recv", "success")
    /\ Len(got) >= csize
    /\ c2s' = IF reset THEN c2s ELSE Append(c2s, "QUIT")
    /\ UNCHANGED <<fileVars, sessVars, reply, s2c, reset, cside, csize, cbuf,
                   got, saved, diskOk>>

\* canonical(out_path) throws behind "Status: SUCCESS", before QUIT is sent.
ClientThrows ==
    /\ "disk" \in faults
    /\ CGoto("recv", "aborted")
    /\ Len(got) >= csize
    /\ UNCHANGED <<fileVars, sessVars, netVars, cside, csize, cbuf, got, saved,
                   diskOk>>

ClientClose ==
    /\ cpc \in Finished
    /\ cside = "open"
    /\ cside' = "closed"
    /\ UNCHANGED <<fileVars, sessVars, netVars, cpc, csize, cbuf, got, saved,
                   diskOk>>

-----------------------------------------------------------------------------
(* The environment *)

\* Another process truncates, extends or removes the file.
FileChanges ==
    /\ changes < MaxFileChanges
    /\ changes' = changes + 1
    /\ \/ /\ "shrink" \in faults
          /\ flen' \in 0 .. flen - 1
          /\ UNCHANGED exists
       \/ /\ "grow" \in faults
          /\ flen' \in flen + 1 .. MaxSize
          /\ UNCHANGED exists
       \/ /\ "unlink" \in faults
          /\ exists' = ~exists
          /\ UNCHANGED flen
    /\ UNCHANGED <<faults, sessVars, netVars, clientVars>>

\* The connection is reset and what was in flight is lost.
ConnectionReset ==
    /\ "reset" \in faults
    /\ ~reset
    /\ reset' = TRUE
    /\ c2s' = <<>>
    /\ s2c' = <<>>
    /\ UNCHANGED <<fileVars, sessVars, reply, clientVars>>

\* ClientSession::stop, called by Server::stop, in its two visible steps.
StopCas ==
    /\ "stop" \in faults
    /\ active
    /\ active' = FALSE
    /\ stopping' = TRUE
    /\ UNCHANGED <<fileVars, spc, sside, getVars, netVars,
                   clientVars>>

StopShutdown ==
    /\ stopping
    /\ sside = "open"
    /\ sside' = "shut"
    /\ UNCHANGED <<fileVars, spc, active, stopping, getVars, netVars,
                   clientVars>>

\* The client's process is killed, perhaps in the middle of its request.
ClientDies ==
    /\ "die" \in faults
    /\ cpc \notin Finished
    /\ cpc' = "dead"
    /\ cside' = "closed"
    /\ \/ UNCHANGED c2s
       \/ cpc = "get" /\ ~reset /\ c2s' = Append(c2s, "PART")
    /\ UNCHANGED <<fileVars, sessVars, reply, s2c, reset, csize, cbuf, got,
                   saved, diskOk>>

-----------------------------------------------------------------------------
Session ==
    \/ SessionTest \/ SessionRecv \/ SessionRecvFail \/ SessionTimeout
    \/ SessionQuit \/ SessionError \/ SessionTail
    \/ GetSize \/ GetSizeFail \/ GetOpen \/ GetOpenFail
    \/ GetHeader \/ GetHeaderPart \/ GetHeaderFail
    \/ GetLoopTest \/ GetRead \/ GetSend \/ GetSent \/ GetSendFail

Client ==
    \/ ClientRequest \/ ClientHeader \/ ClientCreate \/ ClientRecv
    \/ ClientWrite \/ ClientRecvFail \/ ClientSuccess \/ ClientThrows
    \/ ClientClose

Environment ==
    FileChanges \/ ConnectionReset \/ StopCas \/ StopShutdown \/ ClientDies

\* Both programs are done with the connection.
Ended == spc = "done" /\ cside = "closed" /\ UNCHANGED vars

Next == Session \/ Client \/ Environment \/ Ended

Spec == Init /\ [][Next]_vars

(***************************************************************************)
(* Fairness: both threads run when they can, a timeout that is configured  *)
(* expires, and stop() goes on once it has begun. Faults never have to     *)
(* happen.                                                                 *)
(***************************************************************************)
FairSpec ==
    /\ Spec
    /\ WF_vars(Session)
    /\ WF_vars(Client)
    /\ WF_vars(StopShutdown)

-----------------------------------------------------------------------------
(* Properties *)

received == got \o cbuf

InOrder == \A i \in 1 .. Len(received) : received[i] = i

\* do_get reports SUCCESS only with the file's first file_size bytes, in order,
\* whatever happens to the file, the connection, the session and a header that
\* arrives cut short; until then what it has is a prefix of the file.
TransferIntegrity ==
    /\ InOrder
    /\ cpc = "success" => Len(got) = file_size

\* handle_get sends no byte beyond the size it has announced, even when the file
\* grows, so what follows on the connection is the next response.
SendsWithinAnnounced ==
    spc = "send" => total_sent + Len(buf) <= file_size

\* A client that waits for an answer gets one, or an end of the connection: the
\* server's timeouts see to it, also after a file that became too short.
ClientEnds == (cpc = "hdr") ~> (cpc \in Finished)

\* When the client is gone the session ends and its worker can be reaped.
SessionEnds == (cside = "closed") ~> (spc = "done")

\* Without faults and without timeouts, a GET of a file that exists succeeds:
\* do_get gets to "Status: SUCCESS".
TransferSucceeds == (exists /\ faults = {}) ~> (cpc = "success")

\* handle_get and do_get implement the transfer that FileTransfer promises.
Transfer == INSTANCE FileTransfer WITH
    announced <- IF reply.kind \in {"ok", "cutOk"} THEN file_size ELSE -1,
    delivered <- IF InOrder THEN Len(received) ELSE -2,
    outcome   <- IF cpc = "success" THEN "success"
                 ELSE IF cpc \in Finished THEN "failure" ELSE "none"

TransferSpec == Transfer!Spec

\* What do_get reports as "Bytes Saved" under "Status: SUCCESS" is the whole
\* file, and was written, with chunks of any size and after a cut header, unless
\* one of the writes, which nothing checks, has failed.
SavedOnSuccess == cpc = "success" /\ diskOk => saved = file_size
=============================================================================
