--------------------------- MODULE StreamingProofs ---------------------------
(***************************************************************************)
(* Proofs about Streaming, for files, chunks and buffers of every size and *)
(* for every combination of faults: the types, that do_get reports success *)
(* only with the whole file, that handle_get sends no byte beyond the size *)
(* it announced, and that together they implement FileTransfer. All of it  *)
(* rests on StreamInv, whose parts have one lemma for Init and one for the *)
(* steps each.                                                             *)
(***************************************************************************)
EXTENDS StreamingInvariant, SequenceTheorems, TLAPS

\* The digits left of a header that was cut short never show a larger size,
\* and show zero only for an empty file.
LEMMA CutNumbersBounds ==
    ASSUME NEW n \in Nat
    PROVE  /\ CutNumbers(n) \subseteq 0 .. n
           /\ 0 \in CutNumbers(n) => n = 0
BY DEF CutNumbers

\* The session's thread writes nothing of the client's.
LEMMA SessionFrame ==
    Session => UNCHANGED <<fileVars, stopping, reset, clientVars>>
BY DEF Session, SessionTest, SessionRecv, SessionRecvFail, SessionTimeout,
       SessionQuit, SessionError, SessionTail, RunEnds, GetSize, GetSizeFail,
       GetOpen, GetOpenFail, GetHeader, GetHeaderPart, GetHeaderFail,
       GetLoopTest, Streams, GetRead, Reads, GetSend, Sends, GetSent,
       GetSendFail, SMoves, SGoto, netVars, sessVars

\* The client writes nothing of the session's.
LEMMA ClientFrame == Client => UNCHANGED <<fileVars, sessVars, reply, reset>>
BY DEF Client, ClientRequest, ClientHeader, ClientCreate, ClientRecv,
       ClientWrite, Writes, ClientRecvFail, RecvEnds, ClientSuccess,
       ClientThrows, ClientClose, netVars

\* The initial state has the types.
LEMMA TypeInit == Init => TypeOK
<1> SUFFICES ASSUME Init PROVE TypeOK
  OBVIOUS
<1>1. reply \in Replies
  BY StreamingAssumption DEF Init, NoReply, Replies
<1>2. flen \in 0 .. MaxSize /\ changes \in 0 .. MaxFileChanges
  BY StreamingAssumption DEF Init
<1>3. buf \in Seq(1 .. MaxSize) /\ off \in 0 .. Len(buf)
  BY DEF Init
<1>4. spc \in SessionPC /\ cpc \in ClientPC
  BY DEF Init, SessionPC, ClientPC
<1>5. /\ exists \in BOOLEAN /\ active \in BOOLEAN /\ stopping \in BOOLEAN
      /\ good \in BOOLEAN /\ reset \in BOOLEAN /\ diskOk \in BOOLEAN
  BY DEF Init
<1>6. /\ c2s \in Seq({"GET", "QUIT", "PART"})
      /\ s2c \in Seq(0 .. MaxSize)
      /\ cbuf \in Seq(0 .. MaxSize) /\ got \in Seq(0 .. MaxSize)
  BY DEF Init
<1> QED
  BY <1>1, <1>2, <1>3, <1>4, <1>5, <1>6, StreamingAssumption
  DEF Init, TypeOK

\* What one read() leaves in the buffer.
LEMMA ReadSeq ==
    ASSUME NEW pos \in Nat, NEW n \in Nat, pos + n <= MaxSize, MaxSize \in Nat
    PROVE  /\ [i \in 1 .. n |-> pos + i] \in Seq(1 .. MaxSize)
           /\ Len([i \in 1 .. n |-> pos + i]) = n
<1> DEFINE f == [i \in 1 .. n |-> pos + i]
<1>1. f \in [1 .. n -> 1 .. MaxSize]
  OBVIOUS
<1>2. f \in Seq(1 .. MaxSize)
  BY <1>1, SeqDef
<1>3. DOMAIN f = 1 .. Len(f) /\ Len(f) \in Nat
  BY <1>2, LenProperties
<1>4. 1 .. Len(f) = 1 .. n
  BY <1>3
<1>5. Len(f) = n
  <2> HIDE DEF f
  <2> DEFINE k == Len(f)
  <2>1. k \in Nat /\ 1 .. k = 1 .. n
    BY <1>3, <1>4
  <2> HIDE DEF k
  <2>2. k <= n
    <3>1. CASE k = 0 BY <3>1
    <3>2. CASE k # 0
      <4>1. k \in 1 .. n BY <2>1, <3>2
      <4> QED BY <4>1
    <3> QED BY <3>1, <3>2
  <2>3. n <= k
    <3>1. CASE n = 0 BY <2>1, <3>1
    <3>2. CASE n # 0
      <4>1. n \in 1 .. k BY <2>1, <3>2
      <4> QED BY <4>1
    <3> QED BY <3>1, <3>2
  <2> QED BY <2>1, <2>2, <2>3 DEF k
<1> QED
  BY <1>2, <1>5

\* read() gets no more than a chunk, than the rest of the announced size and
\* than the file has, whatever its length has become.
LEMMA ReadStep ==
    ASSUME TypeOK, BytesInv, GetRead
    PROVE  \E n \in Nat :
             /\ fpos + n <= MaxSize
             /\ n <= ChunkSize /\ n <= file_size - total_sent
             /\ SGoto("read", IF n = 0 THEN "loop" ELSE "send")
             /\ buf' = [i \in 1 .. n |-> fpos + i]
             /\ fpos' = fpos + n
<1> DEFINE want == MinOf(ChunkSize, file_size - total_sent)
           n == IF fpos < flen THEN MinOf(want, flen - fpos) ELSE 0
<1>1. spc = "read"
  BY DEF GetRead, Reads, SGoto
<1>2. want \in Nat /\ want <= ChunkSize /\ want <= file_size - total_sent
  BY <1>1, StreamingAssumption DEF TypeOK, BytesInv, MinOf
<1>3. n \in Nat /\ n <= want /\ fpos + n <= MaxSize
  <2> HIDE DEF want
  <2> QED BY <1>2, StreamingAssumption DEF TypeOK, MinOf
<1>4. /\ SGoto("read", IF n = 0 THEN "loop" ELSE "send")
      /\ buf' = [i \in 1 .. n |-> fpos + i]
      /\ fpos' = fpos + n
  BY DEF GetRead, Reads
<1>5. n <= ChunkSize /\ n <= file_size - total_sent
  <2> HIDE DEF want, n
  <2> QED BY <1>2, <1>3, StreamingAssumption DEF TypeOK
<1> HIDE DEF n
<1> QED
  BY <1>3, <1>4, <1>5

\* A request line can be added.
LEMMA AppendLine ==
    ASSUME c2s \in Seq({"GET", "QUIT", "PART"})
    PROVE  \A line \in {"GET", "QUIT", "PART"} :
             Append(c2s, line) \in Seq({"GET", "QUIT", "PART"})
BY AppendProperties

\* The numbers that the arithmetic below is about.
LEMMA Numbers ==
    ASSUME TypeOK
    PROVE  /\ Len(got) \in Nat /\ Len(cbuf) \in Nat /\ Len(s2c) \in Nat
           /\ Len(buf) \in Nat /\ off \in Nat /\ total_sent \in Nat
           /\ fpos \in Nat /\ file_size \in Nat /\ csize \in Nat
           /\ saved \in Nat
<1>1. Len(got) \in Nat /\ Len(cbuf) \in Nat /\ Len(s2c) \in Nat
  BY DEF TypeOK
<1>2. Len(buf) \in Nat /\ off \in Nat
  BY DEF TypeOK
<1>3. /\ total_sent \in Nat /\ fpos \in Nat /\ file_size \in Nat
      /\ csize \in Nat /\ saved \in Nat
  BY StreamingAssumption DEF TypeOK
<1> QED
  BY <1>1, <1>2, <1>3

\* Every step keeps the types.
LEMMA TypeNext ==
    ASSUME TypeOK, CountInv, BytesInv, HeaderInv, [Next]_vars
    PROVE  TypeOK'
<1> USE StreamingAssumption DEF TypeOK, SessionPC, ClientPC, Finished
<1> USE DEF fileVars, sessVars, getVars, netVars, clientVars
<1>1. CASE Session
  <2>0. UNCHANGED <<fileVars, stopping, reset, clientVars>>
    BY <1>1, SessionFrame
  <2>1. CASE SessionTest
    BY <2>0, <2>1 DEF SessionTest, SMoves, SGoto
  <2>2. CASE SessionRecv
    <3>1. spc' \in SessionPC
      BY <2>2 DEF SessionRecv, SGoto, Handlers
    <3>2. c2s' \in Seq({"GET", "QUIT", "PART"})
      BY <2>2 DEF SessionRecv
    <3> QED
      BY <2>0, <2>2, <3>1, <3>2 DEF SessionRecv
  <2>3. CASE SessionRecvFail \/ SessionTimeout
    BY <2>0, <2>3 DEF SessionRecvFail, SessionTimeout, SMoves, SGoto
  <2>4. CASE SessionQuit
    <3>1. s2c' \in Seq(0 .. MaxSize)
      <4>1. CASE UNCHANGED s2c
        BY <4>1
      <4>2. CASE s2c' = Append(s2c, Text)
        BY <4>2 DEF Text
      <4> QED
        BY <2>4, <4>1, <4>2 DEF SessionQuit
    <3> QED
      BY <2>0, <2>4, <3>1, ZenonT(60) DEF SessionQuit, SGoto
  <2>5. CASE SessionError
    <3>1. reply' \in Replies
      BY <2>5 DEF SessionError, Replies
    <3> QED
      BY <2>0, <2>5, <3>1 DEF SessionError, SGoto
  <2>6. CASE SessionTail
    BY <2>0, <2>6, ZenonT(60) DEF SessionTail, RunEnds, SGoto
  <2>7. CASE GetSize
    BY <2>0, <2>7 DEF GetSize, SGoto
  <2>8. CASE GetSizeFail \/ GetOpen \/ GetOpenFail
    BY <2>0, <2>8 DEF GetSizeFail, GetOpen, GetOpenFail, SMoves, SGoto
  <2>9. CASE GetHeader
    <3>1. reply' \in Replies
      BY <2>9 DEF GetHeader, Replies
    <3> QED
      BY <2>0, <2>9, <3>1 DEF GetHeader, SGoto
  <2>10. CASE GetHeaderPart
    <3>1. reply' \in Replies
      BY <2>10, CutNumbersBounds DEF GetHeaderPart, Replies
    <3> QED
      BY <2>0, <2>10, <3>1 DEF GetHeaderPart
  <2>11. CASE GetHeaderFail
    BY <2>0, <2>11, ZenonT(60) DEF GetHeaderFail, SGoto
  <2>12. CASE GetLoopTest
    BY <2>0, <2>12 DEF GetLoopTest, Streams, SMoves, SGoto
  <2>13. CASE GetRead
    <3>1. PICK n \in Nat :
             /\ fpos + n <= MaxSize
             /\ SGoto("read", IF n = 0 THEN "loop" ELSE "send")
             /\ buf' = [i \in 1 .. n |-> fpos + i]
             /\ fpos' = fpos + n
      BY <2>13, ReadStep
    <3>2. buf' \in Seq(1 .. MaxSize)
      BY <3>1, ReadSeq
    <3>3. good' \in BOOLEAN
      BY <2>13 DEF GetRead, Reads
    <3>4. off' \in 0 .. Len(buf')
      <4>1. Len(buf') \in Nat
        BY <3>2
      <4>2. off' = 0
        BY <2>13 DEF GetRead, Reads
      <4> QED
        BY <4>1, <4>2
    <3> QED
      <4>1. spc' \in SessionPC
        BY <3>1 DEF SGoto
      <4>2. fpos' \in 0 .. MaxSize
        BY <3>1
      <4>3. UNCHANGED <<active, sside, file_size, total_sent, netVars>>
        BY <2>13 DEF GetRead, Reads
      <4> QED
        BY <2>0, <3>2, <3>3, <3>4, <4>1, <4>2, <4>3
        DEF netVars
  <2>14. CASE GetSend
    <3>1. s2c' \in Seq(0 .. MaxSize) /\ off' \in 0 .. Len(buf')
      BY <2>14 DEF GetSend, Sends
    <3> QED
      BY <2>0, <2>14, <3>1 DEF GetSend, Sends
  <2>15. CASE GetSent
    <3>1. total_sent' \in 0 .. MaxSize
      BY <2>15 DEF GetSent, SGoto, BytesInv
    <3> QED
      BY <2>0, <2>15, <3>1 DEF GetSent, SGoto
  <2>16. CASE GetSendFail
    BY <2>0, <2>16, ZenonT(60) DEF GetSendFail, SGoto
  <2> QED
    BY <1>1, <2>1, <2>2, <2>3, <2>4, <2>5, <2>6, <2>7, <2>8, <2>9, <2>10,
       <2>11, <2>12, <2>13, <2>14, <2>15, <2>16
    DEF Session
<1>2. CASE Client
  <2>0. UNCHANGED <<fileVars, sessVars, reply, reset>>
    BY <1>2, ClientFrame
  <2>1. CASE ClientRequest
    <3>1. c2s' \in Seq({"GET", "QUIT", "PART"})
      BY <2>1, AppendLine DEF ClientRequest
    <3> QED
      BY <2>0, <2>1, <3>1 DEF ClientRequest, CGoto
  <2>2. CASE ClientHeader
    <3>1. csize' \in 0 .. MaxSize
      BY <2>2 DEF ClientHeader, Replies
    <3> QED
      BY <2>0, <2>2, <3>1 DEF ClientHeader, CGoto
  <2>3. CASE ClientCreate
      BY <2>0, <2>3 DEF ClientCreate, CGoto
  <2>4. CASE ClientRecv
    <3>1. cbuf' \in Seq(0 .. MaxSize) /\ s2c' \in Seq(0 .. MaxSize)
      BY <2>4 DEF ClientRecv
    <3> QED
      BY <2>0, <2>4, <3>1 DEF ClientRecv
  <2>5. CASE ClientWrite
    <3>1. got' \in Seq(0 .. MaxSize) /\ cbuf' \in Seq(0 .. MaxSize)
      BY <2>5 DEF ClientWrite, Writes
    <3>2. saved' \in 0 .. MaxSize
      BY <2>5, SMTT(20) DEF ClientWrite, Writes, CountInv
    <3>3. diskOk' \in BOOLEAN
      BY <2>5 DEF ClientWrite, Writes
    <3> QED
      BY <2>0, <2>5, <3>1, <3>2, <3>3 DEF ClientWrite, Writes
  <2>6. CASE ClientRecvFail
      BY <2>0, <2>6 DEF ClientRecvFail, RecvEnds, CGoto
  <2>7. CASE ClientSuccess
    <3>1. c2s' \in Seq({"GET", "QUIT", "PART"})
      BY <2>7, AppendLine DEF ClientSuccess
    <3> QED
      BY <2>0, <2>7, <3>1 DEF ClientSuccess, CGoto
  <2>8. CASE ClientThrows
      BY <2>0, <2>8 DEF ClientThrows, CGoto
  <2>9. CASE ClientClose
      BY <2>0, <2>9 DEF ClientClose
  <2> QED
    BY <1>2, <2>1, <2>2, <2>3, <2>4, <2>5, <2>6, <2>7, <2>8, <2>9 DEF Client
<1>3. CASE FileChanges
  <2>1. flen' \in 0 .. MaxSize /\ changes' \in 0 .. MaxFileChanges
    BY <1>3 DEF FileChanges
  <2>2. exists' \in BOOLEAN
    BY <1>3 DEF FileChanges
  <2> QED
    BY <1>3, <2>1, <2>2 DEF FileChanges
<1>4. CASE ConnectionReset
    BY <1>4 DEF ConnectionReset
<1>5. CASE StopCas \/ StopShutdown
  <2>1. active' \in BOOLEAN /\ stopping' \in BOOLEAN
    BY <1>5 DEF StopCas, StopShutdown
  <2>2. sside' \in {"open", "shut"}
    BY <1>5 DEF StopCas, StopShutdown
  <2>3. UNCHANGED <<fileVars, spc, getVars, netVars, clientVars>>
    BY <1>5 DEF StopCas, StopShutdown
  <2> QED
    BY <2>1, <2>2, <2>3
<1>6. CASE ClientDies
  <2>1. c2s' \in Seq({"GET", "QUIT", "PART"})
    BY <1>6, AppendLine DEF ClientDies
  <2> QED
    BY <1>6, <2>1 DEF ClientDies
<1>7. CASE UNCHANGED vars
    BY <1>7 DEF vars
<1> QED
  BY <1>1, <1>2, <1>3, <1>4, <1>5, <1>6, <1>7 DEF Next, Environment, Ended

-----------------------------------------------------------------------------
\* The request lines as sequences of length one.
LEMMA Lines ==
    /\ \A a : Head(<<a>>) = a /\ Tail(<<a>>) = <<>> /\ <<a>> # <<>>
    /\ \A a : Append(<<>>, a) = <<a>>
    /\ <<"GET">> # <<"PART">> /\ <<"GET">> # <<"QUIT">>
    /\ <<"PART">> # <<"QUIT">>
OBVIOUS

\* Initially no request is under way.
LEMMA RequestInit == Init => RequestInv
BY DEF Init, RequestInv, Outside, Fresh, Answering, Loop, Sendable

\* Every step keeps the one request in its place.
LEMMA RequestNext ==
    ASSUME TypeOK, RequestInv, HeaderInv, BytesInv, CountInv, [Next]_vars
    PROVE  RequestInv'
<1> USE DEF RequestInv, Fresh, Outside, Answering, Loop, Sendable
<1> USE DEF fileVars, sessVars, getVars, netVars, clientVars
<1>1. CASE SessionRecv
  <2>1. PICK line \in {"GET", "PART", "QUIT"} : c2s = <<line>>
    BY <1>1 DEF SessionRecv
  <2>2. /\ c2s' = <<>> /\ Head(c2s) = line /\ spc = "recv"
        /\ spc' \in Handlers[line]
    BY <1>1, <2>1, Lines DEF SessionRecv, SGoto
  <2>3. UNCHANGED <<cpc, reply, s2c, fpos, total_sent, sside, cside, reset>>
    BY <1>1 DEF SessionRecv
  <2>4. CASE line = "GET"
    BY <2>1, <2>2, <2>3, <2>4, Lines DEF Handlers
  <2>5. CASE line = "PART"
    BY <2>1, <2>2, <2>3, <2>5, Lines DEF Handlers
  <2>6. CASE line = "QUIT"
    BY <2>1, <2>2, <2>3, <2>6, Lines DEF Handlers
  <2> QED
    BY <2>4, <2>5, <2>6
<1>2. CASE SessionTest \/ SessionRecvFail \/ SessionTimeout
  BY <1>2 DEF SessionTest, SessionRecvFail, SessionTimeout, SMoves, SGoto
<1>3. CASE SessionQuit \/ SessionError \/ SessionTail
  BY <1>3, Lines
  DEF SessionQuit, SessionError, SessionTail, RunEnds, SGoto, NoReply
<1>4. CASE GetSize \/ GetSizeFail \/ GetOpen \/ GetOpenFail
  BY <1>4, Lines DEF GetSize, GetSizeFail, GetOpen, GetOpenFail, SMoves,
                     SGoto, NoReply
<1>5. CASE GetHeader \/ GetHeaderPart \/ GetHeaderFail
  BY <1>5, Lines DEF GetHeader, GetHeaderPart, GetHeaderFail, SGoto, NoReply
<1>6. CASE GetLoopTest \/ GetRead
  BY <1>6, Lines
  DEF GetLoopTest, Streams, GetRead, Reads, SMoves, SGoto, NoReply
<1>7. CASE GetSend \/ GetSent \/ GetSendFail
  BY <1>7, Lines DEF GetSend, Sends, GetSent, GetSendFail, SGoto, NoReply
<1>8. CASE ClientRequest
  BY <1>8, Lines DEF ClientRequest, CGoto
<1>9. CASE ClientHeader
  <2>1. cpc = "hdr"
    BY <1>9 DEF ClientHeader, CGoto
  <2>2. cpc' = "create" => reply # NoReply /\ spc \notin Answering
    BY <1>9 DEF ClientHeader, CGoto, NoReply
  <2>3. cpc' # "get" /\ cpc' # "success"
    BY <1>9 DEF ClientHeader, CGoto
  <2>4. (c2s = <<"GET">> \/ spc \in Answering \cup {"header"})' /\ Sendable'
           => cpc' = "hdr"
    <3> SUFFICES ASSUME c2s = <<"GET">> \/ spc \in Answering \cup {"header"},
                        Sendable
                 PROVE  FALSE
      BY <1>9, Lines DEF ClientHeader, CGoto
    <3>1. reply.kind \in {"none", "cut", "cutOk"}
      BY Lines DEF NoReply
    <3> QED
      BY <1>9, <3>1 DEF ClientHeader, EndOfStream
  <2> QED
    BY <1>9, <2>1, <2>2, <2>3, <2>4, Lines DEF ClientHeader
<1>10. CASE ClientCreate \/ ClientRecv \/ ClientWrite
  BY <1>10, Lines
  DEF ClientCreate, ClientRecv, ClientWrite, Writes, CGoto, HeaderInv, Fetching,
      HeaderSeen, NoReply
<1>11. CASE ClientRecvFail \/ ClientThrows \/ ClientClose
  BY <1>11, Lines
  DEF ClientRecvFail, RecvEnds, ClientThrows, ClientClose, Finished, CGoto,
      HeaderInv, Fetching, HeaderSeen, NoReply
<1>12. CASE ClientSuccess
  <2>1. c2s \notin {<<"GET">>, <<"PART">>} /\ cpc = "recv"
    BY <1>12 DEF ClientSuccess, CGoto, HeaderInv, Fetching, HeaderSeen, NoReply
  <2>2. c2s' \in {<<>>, <<"QUIT">>}
    BY <1>12, <2>1, Lines DEF ClientSuccess
  <2> QED
    BY <1>12, <2>1, <2>2, Lines DEF ClientSuccess, CGoto
<1>13. CASE ClientDies
  BY <1>13, Lines DEF ClientDies, Finished, CountInv
<1>14. CASE FileChanges \/ ConnectionReset \/ StopCas \/ StopShutdown
  BY <1>14, Lines DEF FileChanges, ConnectionReset, StopCas, StopShutdown
<1>15. CASE UNCHANGED vars
  BY <1>15 DEF vars
<1> QED
  BY <1>1, <1>2, <1>3, <1>4, <1>5, <1>6, <1>7, <1>8, <1>9, <1>10, <1>11,
     <1>12, <1>13, <1>14, <1>15
  DEF Next, Session, Client, Environment, Ended

-----------------------------------------------------------------------------
\* Initially there is no header.
LEMMA HeaderInit == Init => HeaderInv
BY DEF Init, HeaderInv, NoReply, Fetching, HeaderSeen

\* Every step keeps what the client makes of the header.
LEMMA HeaderNext ==
    ASSUME TypeOK, RequestInv, HeaderInv, BytesInv, CountInv, [Next]_vars
    PROVE  HeaderInv'
<1> USE DEF HeaderInv, Fetching, HeaderSeen
<1> USE DEF fileVars, sessVars, getVars, netVars, clientVars
<1>1. CASE SessionTest \/ SessionRecv \/ SessionRecvFail \/ SessionTimeout
  BY <1>1 DEF SessionTest, SessionRecv, SessionRecvFail, SessionTimeout, SMoves
<1>2. CASE SessionQuit \/ SessionTail
  BY <1>2 DEF SessionQuit, SessionTail, RunEnds, SGoto, RequestInv, Sendable
<1>3. CASE SessionError
  BY <1>3 DEF SessionError, SGoto, RequestInv, Answering, Fresh, NoReply
<1>4. CASE GetSize \/ GetSizeFail \/ GetOpen \/ GetOpenFail
  BY <1>4 DEF GetSize, GetSizeFail, GetOpen, GetOpenFail, SMoves, SGoto,
              RequestInv, Answering, Fresh, NoReply
<1>5. CASE GetHeader \/ GetHeaderPart
  <2>1. spc = "header" /\ Sendable
    BY <1>5 DEF GetHeader, GetHeaderPart, SGoto
  <2>2. cpc = "hdr" /\ s2c = <<>> /\ got = <<>> /\ cbuf = <<>>
    BY <2>1 DEF RequestInv, CountInv
  <2>3. UNCHANGED <<cpc, s2c, got, cbuf, file_size>>
    BY <1>5 DEF GetHeader, GetHeaderPart
  <2>4. \/ reply'.kind = "ok" /\ reply'.n = file_size
        \/ reply'.kind = "cut"
        \/ reply'.kind = "cutOk" /\ reply'.n \in CutNumbers(file_size)
    BY <1>5 DEF GetHeader, GetHeaderPart
  <2> QED
    BY <2>2, <2>3, <2>4
<1>6. CASE GetHeaderFail \/ GetLoopTest \/ GetRead
  BY <1>6 DEF GetHeaderFail, GetLoopTest, Streams, SMoves, GetRead, Reads
<1>7. CASE GetSend \/ GetSent \/ GetSendFail
  BY <1>7 DEF GetSend, Sends, GetSent, GetSendFail, RequestInv, Loop
<1>8. CASE ClientRequest \/ ClientCreate \/ ClientRecvFail
  BY <1>8 DEF ClientRequest, ClientCreate, ClientRecvFail, RecvEnds, CGoto
<1>9. CASE ClientHeader
  <2>1. CASE cpc' = "create"
    BY <1>9, <2>1 DEF ClientHeader, CGoto, EndOfStream
  <2>2. CASE cpc' \in {"failed", "aborted"}
    BY <1>9, <2>2 DEF ClientHeader
  <2> QED
    BY <1>9, <2>1, <2>2 DEF ClientHeader, CGoto
<1>10. CASE ClientRecv \/ ClientWrite
  BY <1>10 DEF ClientRecv, ClientWrite, Writes
<1>11. CASE ClientSuccess \/ ClientThrows \/ ClientClose
  BY <1>11 DEF ClientSuccess, ClientThrows, ClientClose, CGoto
<1>12. CASE FileChanges \/ ConnectionReset \/ StopCas \/ StopShutdown
  BY <1>12 DEF FileChanges, ConnectionReset, StopCas, StopShutdown
<1>13. CASE ClientDies
  BY <1>13 DEF ClientDies
<1>14. CASE UNCHANGED vars
  BY <1>14 DEF vars
<1> QED
  BY <1>1, <1>2, <1>3, <1>4, <1>5, <1>6, <1>7, <1>8, <1>9, <1>10, <1>11,
     <1>12, <1>13, <1>14
  DEF Next, Session, Client, Environment, Ended

\* Initially nothing is counted.
LEMMA CountInit == Init => CountInv
BY DEF Init, CountInv

\* Every step keeps do_get's counts.
LEMMA CountNext ==
    ASSUME TypeOK, RequestInv, HeaderInv, BytesInv, CountInv, [Next]_vars
    PROVE  CountInv'
<1> USE DEF CountInv
<1>1. CASE UNCHANGED clientVars
  BY <1>1 DEF clientVars
<1>2. CASE ClientRequest \/ ClientCreate \/ ClientRecvFail
  BY <1>2 DEF ClientRequest, ClientCreate, ClientRecvFail, RecvEnds, CGoto
<1>3. CASE ClientHeader
  <2>1. got = <<>> /\ cbuf = <<>> /\ UNCHANGED <<got, cbuf, saved, diskOk>>
    BY <1>3 DEF ClientHeader, CGoto
  <2>2. csize' >= 0 /\ cpc' \notin {"get", "hdr", "success"}
    <3>1. csize \in Nat /\ reply.n \in Nat
      BY StreamingAssumption DEF TypeOK, Replies
    <3>2. /\ csize' \in {csize, reply.n}
          /\ cpc' \in {"create", "failed", "aborted"}
      BY <1>3 DEF ClientHeader, CGoto
    <3> QED
      BY <3>1, <3>2
  <2> QED
    BY <2>1, <2>2
<1>4. CASE ClientRecv
  <2>0. Len(got) \in Nat /\ Len(cbuf) \in Nat /\ csize \in Nat
    BY Numbers
  <2>1. Len(cbuf) + 1 <= csize - Len(got)
    BY <1>4, <2>0, StreamingAssumption DEF ClientRecv, to_recv, MinOf
  <2>2. Len(cbuf') = Len(cbuf) + 1
    BY <1>4 DEF ClientRecv, TypeOK
  <2> QED
    BY <1>4, <2>1, <2>2 DEF ClientRecv, TypeOK
<1>5. CASE ClientWrite
  <2>1. Len(got') = Len(got) + Len(cbuf) /\ Len(cbuf') = 0
    BY <1>5, ConcatProperties DEF ClientWrite, Writes, TypeOK
  <2>2. Len(got) \in Nat /\ Len(cbuf) \in Nat /\ csize \in Nat /\ saved \in Nat
    BY Numbers
  <2>3. /\ saved' = saved \/ saved' = saved + Len(cbuf)
        /\ diskOk' => diskOk /\ saved' = saved + Len(cbuf)
    BY <1>5 DEF ClientWrite, Writes
  <2>4. cpc' = "recv" /\ csize' = csize
    BY <1>5 DEF ClientWrite, Writes
  <2> QED
    BY <2>1, <2>2, <2>3, <2>4
<1>6. CASE ClientSuccess
  <2>1. Len(got) \in Nat /\ Len(cbuf) \in Nat /\ csize \in Nat
    BY Numbers
  <2> QED
    BY <1>6, <2>1 DEF ClientSuccess, CGoto
<1>7. CASE ClientThrows \/ ClientClose \/ ClientDies
  BY <1>7 DEF ClientThrows, CGoto, ClientClose, ClientDies
<1> QED
  <2>1. Session => UNCHANGED clientVars
    BY SessionFrame
  <2>2. FileChanges \/ ConnectionReset \/ StopCas \/ StopShutdown
          => UNCHANGED clientVars
    BY DEF FileChanges, ConnectionReset, StopCas, StopShutdown
  <2>3. UNCHANGED vars => UNCHANGED clientVars
    BY DEF vars
  <2> QED
    BY <1>1, <1>2, <1>3, <1>4, <1>5, <1>6, <1>7, <2>1, <2>2, <2>3
    DEF Next, Client, Environment, Ended

\* A request goes to one of three places.
LEMMA RecvGoto ==
    ASSUME TypeOK, SessionRecv
    PROVE  spc' \in {"size", "bye", "error"}
<1>1. Head(c2s) \in {"GET", "QUIT", "PART"}
  BY DEF SessionRecv, TypeOK
<1>2. spc' \in Handlers[Head(c2s)]
  BY DEF SessionRecv, SGoto
<1> QED
  BY <1>1, <1>2 DEF Handlers

\* Every step keeps the buffer within the announced size.
LEMMA SendsNext ==
    ASSUME TypeOK, BytesInv, SendsWithinAnnounced, [Next]_vars
    PROVE  SendsWithinAnnounced'
<1> USE DEF SendsWithinAnnounced
<1>1. CASE GetRead
  <2>1. PICK n \in Nat : 
             /\ fpos + n <= MaxSize
             /\ n <= file_size - total_sent
             /\ buf' = [i \in 1 .. n |-> fpos + i]
    BY <1>1, ReadStep
  <2>2. Len(buf') = n
    BY <2>1, ReadSeq, StreamingAssumption DEF TypeOK
  <2>3. UNCHANGED <<file_size, total_sent>>
    BY <1>1 DEF GetRead, Reads
  <2>4. file_size \in Nat /\ total_sent \in Nat
    BY Numbers
  <2> QED
    BY <2>1, <2>2, <2>3, <2>4
<1>2. CASE spc' = spc /\ UNCHANGED <<file_size, buf, total_sent>>
  BY <1>2
<1>3. CASE spc' # "send"
  BY <1>3
<1> QED
  <2>0. SessionRecv => spc' # "send"
    BY RecvGoto
  <2>1. Session => \/ GetRead \/ SessionRecv \/ spc' # "send"
                   \/ spc' = spc /\ UNCHANGED <<file_size, buf, total_sent>>
    <3>1. GetHeaderPart \/ GetSend
             => spc' = spc /\ UNCHANGED <<file_size, buf, total_sent>>
      BY DEF GetHeaderPart, GetSend, Sends, sessVars, getVars
    <3>2. SessionTest \/ SessionRecvFail \/ SessionTimeout \/ SessionQuit
            \/ SessionError \/ SessionTail => spc' # "send"
      BY DEF SessionTest, SessionRecvFail, SessionTimeout, SessionQuit,
             SessionError, SessionTail, RunEnds, SMoves, SGoto
    <3>3. GetSize \/ GetSizeFail \/ GetOpen \/ GetOpenFail \/ GetHeader
            \/ GetHeaderFail => spc' # "send"
      BY DEF GetSize, GetSizeFail, GetOpen, GetOpenFail, GetHeader,
             GetHeaderFail, SMoves, SGoto
    <3>4. GetLoopTest \/ GetSent \/ GetSendFail => spc' # "send"
      BY DEF GetLoopTest, Streams, GetSent, GetSendFail, SMoves, SGoto
    <3> QED
      BY <3>1, <3>2, <3>3, <3>4 DEF Session
  <2>2. Client => spc' = spc /\ UNCHANGED <<file_size, buf, total_sent>>
    BY ClientFrame DEF sessVars, getVars
  <2>3. Environment \/ UNCHANGED vars 
          => spc' = spc /\ UNCHANGED <<file_size, buf, total_sent>>
    BY DEF Environment, FileChanges, ConnectionReset, StopCas, StopShutdown,
           ClientDies, vars, sessVars, getVars
  <2> QED
    BY <1>1, <1>2, <1>3, <2>0, <2>1, <2>2, <2>3 DEF Next, Ended

-----------------------------------------------------------------------------
\* Two sequences are in order one behind the other if each is in its place.
LEMMA OrderParts ==
    ASSUME NEW S, NEW g \in Seq(S), NEW b \in Seq(S)
    PROVE  (\A i \in 1 .. Len(g \o b) : (g \o b)[i] = i)
             <=> /\ \A i \in 1 .. Len(g) : g[i] = i
                 /\ \A i \in 1 .. Len(b) : b[i] = Len(g) + i
<1> DEFINE r == g \o b
<1>0. Len(g) \in Nat /\ Len(b) \in Nat
  OBVIOUS
<1>1. /\ Len(r) = Len(g) + Len(b)
      /\ \A i \in 1 .. Len(g) + Len(b) :
           r[i] = IF i <= Len(g) THEN g[i] ELSE b[i - Len(g)]
  BY ConcatProperties
<1> HIDE DEF r
<1>2. ASSUME \A i \in 1 .. Len(r) : r[i] = i
      PROVE  /\ \A i \in 1 .. Len(g) : g[i] = i
             /\ \A i \in 1 .. Len(b) : b[i] = Len(g) + i
  <2>1. ASSUME NEW i \in 1 .. Len(g)
        PROVE  g[i] = i
    BY <1>0, <1>1, <1>2
  <2>2. ASSUME NEW i \in 1 .. Len(b)
        PROVE  b[i] = Len(g) + i
    <3>1. /\ Len(g) + i \in 1 .. Len(g) + Len(b)
          /\ ~(Len(g) + i <= Len(g)) /\ (Len(g) + i) - Len(g) = i
      BY <1>0
    <3>2. r[Len(g) + i] = Len(g) + i
      BY <1>1, <1>2, <3>1
    <3> QED
      BY <1>1, <3>1, <3>2
  <2> QED
    BY <2>1, <2>2
<1>3. ASSUME /\ \A i \in 1 .. Len(g) : g[i] = i
             /\ \A i \in 1 .. Len(b) : b[i] = Len(g) + i,
             NEW i \in 1 .. Len(r)
      PROVE  r[i] = i
  <2>1. CASE i <= Len(g)
    BY <1>0, <1>1, <1>3, <2>1
  <2>2. CASE i > Len(g)
    <3>1. i - Len(g) \in 1 .. Len(b)
      BY <1>0, <1>1, <2>2
    <3>2. b[i - Len(g)] = i
      BY <1>0, <1>3, <3>1
    <3> QED
      BY <1>0, <1>1, <2>2, <3>2
  <2> QED
    BY <1>0, <1>1, <2>1, <2>2
<1> QED
  BY <1>2, <1>3 DEF r

\* Initially no byte is anywhere.
LEMMA BytesInit == Init => BytesInv
<1> SUFFICES ASSUME Init PROVE BytesInv
  OBVIOUS
<1>1. InOrder
  BY DEF Init, InOrder, received
<1> QED
  BY <1>1 DEF Init, BytesInv

\* A step that leaves the client alone keeps the order of its bytes.
LEMMA InOrderStays == InOrder /\ UNCHANGED <<got, cbuf>> => InOrder'
BY DEF InOrder, received

\* So does a step of one side that moves no byte.
LEMMA BytesStay ==
    ASSUME BytesInv,
           UNCHANGED <<s2c, got, cbuf, reset>>,
           cpc = "success" => cpc' = "success",
           \/ spc' \notin Loop
           \/ UNCHANGED <<spc, file_size, fpos, buf, off, total_sent>>
    PROVE  BytesInv'
<1>1. InOrder'
  BY InOrderStays DEF BytesInv
<1>2. CASE spc' \notin Loop
  BY <1>1, <1>2 DEF BytesInv, Loop
<1>3. CASE UNCHANGED <<spc, file_size, fpos, buf, off, total_sent>>
  BY <1>1, <1>3 DEF BytesInv
<1> QED
  BY <1>2, <1>3

\* Every step keeps the bytes consecutive.
LEMMA BytesNext ==
    ASSUME TypeOK, RequestInv, HeaderInv, BytesInv, CountInv,
           SendsWithinAnnounced, [Next]_vars
    PROVE  BytesInv'
<1> USE DEF fileVars, sessVars, getVars, netVars, clientVars
<1>0. /\ Len(got) \in Nat /\ Len(cbuf) \in Nat /\ Len(s2c) \in Nat
      /\ Len(buf) \in Nat /\ total_sent \in Nat /\ fpos \in Nat
      /\ off \in Nat /\ file_size \in Nat
  BY Numbers
<1>1. CASE SessionTest \/ SessionRecvFail \/ SessionTimeout
  BY <1>1, BytesStay
  DEF SessionTest, SessionRecvFail, SessionTimeout, SMoves, SGoto, Loop
<1>2. CASE SessionRecv
  BY <1>2, BytesStay, RecvGoto DEF SessionRecv, Loop
<1>3. CASE SessionQuit
  BY <1>3, InOrderStays
  DEF SessionQuit, SGoto, RequestInv, Sendable, BytesInv
<1>4. CASE SessionError \/ SessionTail
  BY <1>4, BytesStay DEF SessionError, SessionTail, RunEnds, SGoto, Loop
<1>5. CASE GetSize \/ GetSizeFail \/ GetOpen \/ GetOpenFail
  BY <1>5, BytesStay
  DEF GetSize, GetSizeFail, GetOpen, GetOpenFail, SMoves, SGoto, Loop
<1>6. CASE GetHeader
  <2>1. /\ spc = "header" /\ spc' = "check" /\ Sendable
        /\ UNCHANGED <<s2c, got, cbuf, reset, cpc, fpos, total_sent>>
    BY <1>6 DEF GetHeader, SGoto
  <2>2. /\ cpc = "hdr" /\ s2c = <<>> /\ got = <<>> /\ cbuf = <<>>
        /\ fpos = 0 /\ total_sent = 0
    BY <2>1 DEF RequestInv, CountInv
  <2>3. InOrder'
    BY <2>1, InOrderStays DEF BytesInv
  <2>4. Len(<<>>) = 0
    OBVIOUS
  <2> QED
    BY <2>1, <2>2, <2>3, <2>4 DEF BytesInv
<1>7. CASE GetHeaderPart \/ GetHeaderFail
  BY <1>7, BytesStay DEF GetHeaderPart, GetHeaderFail, SGoto, Loop
<1>8. CASE GetLoopTest
  BY <1>8, InOrderStays DEF GetLoopTest, Streams, SMoves, SGoto, BytesInv
<1>9. CASE GetRead
  <2>1. PICK n \in Nat :
             /\ fpos + n <= MaxSize
             /\ n <= file_size - total_sent
             /\ SGoto("read", IF n = 0 THEN "loop" ELSE "send")
             /\ buf' = [i \in 1 .. n |-> fpos + i]
             /\ fpos' = fpos + n
    BY <1>9, ReadStep
  <2>2. Len(buf') = n
    BY <2>1, ReadSeq, StreamingAssumption DEF TypeOK
  <2>3. UNCHANGED <<total_sent, s2c, got, cbuf, cpc, reset>> /\ off' = 0
    BY <1>9 DEF GetRead, Reads
  <2>4. \A i \in 1 .. Len(buf') : buf'[i] = fpos + i
    BY <2>1, <2>2
  <2>5. fpos = total_sent /\ InOrder'
    BY <2>1, <2>3, InOrderStays DEF SGoto, BytesInv
  <2> QED
    BY <1>0, <2>1, <2>2, <2>3, <2>4, <2>5 DEF SGoto, BytesInv
<1>10. CASE GetSend
  <2>1. /\ spc = "send" /\ Sendable /\ off < Len(buf)
        /\ s2c' = Append(s2c, buf[off + 1]) /\ off' = off + 1
        /\ UNCHANGED <<spc, total_sent, got, cbuf, cpc, reset, buf, fpos>>
    BY <1>10 DEF GetSend, Sends
  <2>2. Len(got) + Len(cbuf) + Len(s2c) = total_sent + off
    BY <2>1 DEF BytesInv, Sendable
  <2>3. buf[off + 1] = Len(got) + Len(cbuf) + (Len(s2c) + 1)
    <3>1. off + 1 \in 1 .. Len(buf)
      BY <1>0, <2>1
    <3>2. buf[off + 1] = total_sent + (off + 1)
      BY <2>1, <3>1 DEF BytesInv
    <3> QED
      BY <1>0, <2>2, <3>2
  <2>4. /\ Len(s2c') = Len(s2c) + 1
        /\ \A i \in 1 .. Len(s2c) : s2c'[i] = s2c[i]
        /\ s2c'[Len(s2c) + 1] = buf[off + 1]
    BY <2>1, AppendProperties DEF TypeOK
  <2>5. cpc # "success" =>
          \A i \in 1 .. Len(s2c') : s2c'[i] = Len(got) + Len(cbuf) + i
    <3> SUFFICES ASSUME cpc # "success", NEW i \in 1 .. Len(s2c')
                 PROVE  s2c'[i] = Len(got) + Len(cbuf) + i
      OBVIOUS
    <3>1. CASE i <= Len(s2c)
      BY <1>0, <2>4, <3>1 DEF BytesInv
    <3>2. CASE i = Len(s2c) + 1
      BY <1>0, <2>3, <2>4, <3>2
    <3> QED
      BY <1>0, <2>4, <3>1, <3>2
  <2>6. InOrder' /\ ~reset
    BY <2>1, InOrderStays DEF BytesInv, Sendable
  <2>7. Len(got) + Len(cbuf) + Len(s2c') = total_sent + off'
    BY <1>0, <2>1, <2>2, <2>4
  <2> QED
    BY <2>1, <2>5, <2>6, <2>7 DEF BytesInv
<1>11. CASE GetSent
  <2>1. /\ spc = "send" /\ spc' = "check" /\ off = Len(buf)
        /\ total_sent' = total_sent + Len(buf)
        /\ UNCHANGED <<s2c, got, cbuf, cpc, reset, fpos>>
    BY <1>11 DEF GetSent, SGoto
  <2>2. InOrder'
    BY <2>1, InOrderStays DEF BytesInv
  <2> QED
    BY <2>1, <2>2 DEF BytesInv
<1>12. CASE GetSendFail
  BY <1>12, BytesStay DEF GetSendFail, SGoto, Loop
<1>13. CASE ClientRequest \/ ClientHeader \/ ClientCreate
  BY <1>13, BytesStay DEF ClientRequest, ClientHeader, ClientCreate, CGoto
<1>14. CASE ClientRecv
  <2>1. /\ cpc = "recv" /\ cpc' = cpc /\ ~reset /\ s2c # <<>>
        /\ cbuf' = Append(cbuf, Head(s2c)) /\ s2c' = Tail(s2c)
        /\ UNCHANGED <<spc, got, reset, file_size, fpos, buf, off, total_sent>>
    BY <1>14 DEF ClientRecv
  <2>2. /\ s2c \in Seq(0 .. MaxSize) /\ cbuf \in Seq(0 .. MaxSize)
        /\ got \in Seq(0 .. MaxSize)
    BY DEF TypeOK
  <2>3. /\ Len(s2c) >= 1 /\ Len(s2c') = Len(s2c) - 1
        /\ \A i \in 1 .. Len(s2c') : s2c'[i] = s2c[i + 1]
        /\ Head(s2c) \in 0 .. MaxSize
    <3>1. Len(s2c) >= 1
      BY <1>0, <2>1, <2>2, EmptySeq
    <3> QED
      BY <2>1, <2>2, <3>1, HeadTailProperties
  <2>4. Head(s2c) = Len(got) + Len(cbuf) + 1
    <3>1. Head(s2c) = s2c[1]
      BY <2>1, <2>2
    <3> QED
      BY <1>0, <2>1, <2>3, <3>1 DEF BytesInv
  <2>5. /\ cbuf' \in Seq(0 .. MaxSize)
        /\ Len(cbuf') = Len(cbuf) + 1
        /\ \A i \in 1 .. Len(cbuf) : cbuf'[i] = cbuf[i]
        /\ cbuf'[Len(cbuf) + 1] = Head(s2c)
    BY <2>1, <2>2, <2>3, AppendProperties
  <2>6. InOrder'
    <3>1. /\ \A i \in 1 .. Len(got) : got[i] = i
          /\ \A i \in 1 .. Len(cbuf) : cbuf[i] = Len(got) + i
      BY <2>2, OrderParts DEF BytesInv, InOrder, received
    <3>2. \A i \in 1 .. Len(cbuf') : cbuf'[i] = Len(got) + i
      <4> SUFFICES ASSUME NEW i \in 1 .. Len(cbuf')
                   PROVE  cbuf'[i] = Len(got) + i
        OBVIOUS
      <4>1. CASE i <= Len(cbuf)
        BY <1>0, <2>5, <3>1, <4>1
      <4>2. CASE i = Len(cbuf) + 1
        BY <1>0, <2>4, <2>5, <4>2
      <4> QED
        BY <1>0, <2>5, <4>1, <4>2
    <3>3. ASSUME got' \in Seq(0 .. MaxSize), cbuf' \in Seq(0 .. MaxSize)
          PROVE  InOrder' <=> /\ \A i \in 1 .. Len(got') : got'[i] = i
                              /\ \A i \in 1 .. Len(cbuf') :
                                    cbuf'[i] = Len(got') + i
      BY <3>3, OrderParts DEF InOrder, received
    <3> QED
      BY <2>1, <2>2, <2>5, <3>1, <3>2, <3>3
  <2>7. \A i \in 1 .. Len(s2c') : s2c'[i] = Len(got) + Len(cbuf') + i
    <3> SUFFICES ASSUME NEW i \in 1 .. Len(s2c')
                 PROVE  s2c'[i] = Len(got) + Len(cbuf') + i
      OBVIOUS
    <3>1. i + 1 \in 1 .. Len(s2c)
      BY <1>0, <2>3
    <3>2. s2c[i + 1] = Len(got) + Len(cbuf) + (i + 1)
      BY <2>1, <3>1 DEF BytesInv
    <3> QED
      BY <1>0, <2>3, <2>5, <3>2
  <2>8. Len(got) + Len(cbuf') + Len(s2c') = Len(got) + Len(cbuf) + Len(s2c)
    BY <1>0, <2>3, <2>5
  <2> QED
    BY <2>1, <2>6, <2>7, <2>8 DEF BytesInv
<1>15. CASE ClientWrite
  <2>1. /\ cpc = "recv" /\ got' = got \o cbuf /\ cbuf' = <<>>
        /\ UNCHANGED <<spc, cpc, s2c, reset, file_size, fpos, buf, off,
                       total_sent>>
    BY <1>15 DEF ClientWrite, Writes
  <2>2. got \in Seq(0 .. MaxSize) /\ cbuf \in Seq(0 .. MaxSize)
    BY DEF TypeOK
  <2>3. Len(got') = Len(got) + Len(cbuf) /\ Len(cbuf') = 0
    BY <2>1, <2>2, ConcatProperties
  <2>4. received' = received
    BY <2>1, <2>2, ConcatProperties, ConcatEmptySeq DEF received
  <2>5. InOrder'
    BY <2>4 DEF InOrder, BytesInv
  <2> QED
    BY <1>0, <2>1, <2>3, <2>5 DEF BytesInv
<1>16. CASE ClientRecvFail \/ ClientSuccess \/ ClientThrows \/ ClientClose
  BY <1>16, BytesStay
  DEF ClientRecvFail, RecvEnds, ClientSuccess, ClientThrows, ClientClose, CGoto
<1>17. CASE FileChanges \/ StopCas \/ StopShutdown \/ ClientDies
  BY <1>17, BytesStay
  DEF FileChanges, StopCas, StopShutdown, ClientDies, Finished
<1>18. CASE ConnectionReset
  BY <1>18, InOrderStays DEF ConnectionReset, BytesInv
<1>19. CASE UNCHANGED vars
  BY <1>19, BytesStay DEF vars
<1> QED
  BY <1>1, <1>2, <1>3, <1>4, <1>5, <1>6, <1>7, <1>8, <1>9, <1>10, <1>11,
     <1>12, <1>13, <1>14, <1>15, <1>16, <1>17, <1>18, <1>19
  DEF Next, Session, Client, Environment, Ended

-----------------------------------------------------------------------------
\* Every step keeps the whole invariant.
LEMMA StreamNext == StreamInv /\ [Next]_vars => StreamInv'
<1> SUFFICES ASSUME StreamInv, [Next]_vars PROVE StreamInv'
  OBVIOUS
<1> USE DEF StreamInv
<1>1. TypeOK'
  BY TypeNext
<1>2. RequestInv' /\ HeaderInv'
  BY RequestNext, HeaderNext
<1>3. BytesInv' /\ CountInv'
  BY BytesNext, CountNext
<1>4. SendsWithinAnnounced'
  BY SendsNext
<1> QED
  BY <1>1, <1>2, <1>3, <1>4

\* StreamInv holds in every state of ClientSession::run, handle_get and do_get
\* over one connection, whatever goes wrong.
THEOREM StreamInvariance == Spec => []StreamInv
<1>1. Init => StreamInv
  <2>1. Init => SendsWithinAnnounced
    BY DEF Init, SendsWithinAnnounced
  <2> QED
    BY <2>1, TypeInit, RequestInit, HeaderInit, BytesInit, CountInit
    DEF StreamInv
<1> QED
  BY <1>1, StreamNext, PTL DEF Spec

\* The variables keep their types; in particular handle_get's and do_get's
\* counts never pass the bound on the file's size.
THEOREM StreamTypes == Spec => []TypeOK
<1>1. StreamInv => TypeOK
  BY DEF StreamInv
<1> QED
  BY <1>1, StreamInvariance, PTL

\* A header that arrived whole announces file_size; one that was cut short lets
\* do_get succeed only with an empty file.
LEMMA IntegrityHolds == StreamInv => TransferIntegrity
<1> SUFFICES ASSUME StreamInv PROVE TransferIntegrity
  OBVIOUS
<1>1. InOrder
  BY DEF StreamInv, BytesInv
<1>2. ASSUME cpc = "success" PROVE Len(got) = file_size
  <2>0. Len(got) \in Nat /\ Len(cbuf) \in Nat /\ file_size \in Nat
        /\ csize \in Nat
    BY Numbers DEF StreamInv
  <2>1. /\ Len(got) = csize /\ csize = reply.n
        /\ reply.kind \in {"ok", "cutOk"}
    BY <1>2 DEF StreamInv, CountInv, HeaderInv, Fetching, HeaderSeen
  <2>2. CASE reply.kind = "ok"
    BY <2>1, <2>2 DEF StreamInv, HeaderInv
  <2>3. CASE reply.kind = "cutOk"
    <3>1. got = <<>> /\ reply.n \in CutNumbers(file_size)
      BY <2>3 DEF StreamInv, HeaderInv
    <3> QED
      BY <2>0, <2>1, <3>1, CutNumbersBounds
  <2> QED
    BY <2>1, <2>2, <2>3
<1> QED
  BY <1>1, <1>2 DEF TransferIntegrity

\* do_get holds a prefix of the file at all times and prints "Status: SUCCESS"
\* only with all of it.
THEOREM Integrity == Spec => []TransferIntegrity
BY StreamInvariance, IntegrityHolds, PTL

\* do_get prints "Status: SUCCESS" only when as many bytes have been written as
\* the file had, unless a write failed.
THEOREM Saved == Spec => []SavedOnSuccess
<1>1. StreamInv /\ TransferIntegrity => SavedOnSuccess
  BY DEF StreamInv, CountInv, TransferIntegrity, SavedOnSuccess
<1> QED
  BY <1>1, StreamInvariance, Integrity, PTL

\* The buffer that handle_get sends never reaches beyond the announced size,
\* even when the file grows while it is sent.
THEOREM WithinAnnounced == Spec => []SendsWithinAnnounced
<1>1. StreamInv => SendsWithinAnnounced
  BY DEF StreamInv
<1> QED
  BY <1>1, StreamInvariance, PTL

\* The initial states map to initial states.
LEMMA TransferInit == Init => Transfer!Init
BY DEF Init, Transfer!Init, Transfer!NoSize, NoReply, InOrder, received,
       Finished

\* The three expressions that Transfer puts for the abstract variables.
Announced == IF reply.kind \in {"ok", "cutOk"} THEN file_size ELSE -1
Delivered == IF InOrder THEN Len(received) ELSE -2
Outcome   == IF cpc = "success" THEN "success"
             ELSE IF cpc \in Finished THEN "failure" ELSE "none"

\* A step that none of them sees.
LEMMA TransferStutter ==
    ASSUME UNCHANGED <<Announced, Delivered, Outcome>>
    PROVE  UNCHANGED Transfer!transferVars
BY DEF Transfer!transferVars, Announced, Delivered, Outcome

\* A step by which the client gives up.
LEMMA TransferFail ==
    ASSUME UNCHANGED <<Announced, Delivered>>,
           cpc \notin Finished, cpc' \in Finished \ {"success"}
    PROVE  Transfer!Next
<1>1. Transfer!Fail
  BY DEF Transfer!Fail, Announced, Delivered, Finished
<1> QED
  BY <1>1 DEF Transfer!Next

\* What the client holds is all that Delivered looks at.
LEMMA DeliveredStays == UNCHANGED received => UNCHANGED Delivered
BY DEF Delivered, InOrder

\* Only the header changes Announced.
LEMMA AnnouncedStays == UNCHANGED <<reply, file_size>> => UNCHANGED Announced
BY DEF Announced

\* Every step is a step of FileTransfer or is not seen by it.
LEMMA TransferNext ==
    ASSUME StreamInv, StreamInv', [Next]_vars
    PROVE  [Transfer!Next]_(Transfer!transferVars)
<1> USE DEF fileVars, sessVars, getVars, netVars, clientVars
<1>0. InOrder /\ InOrder'
  BY DEF StreamInv, BytesInv
<1>1. CASE Session /\ ~GetHeader /\ ~GetHeaderPart
  <2>1. UNCHANGED <<received, Outcome>>
    BY <1>1, SessionFrame DEF received, Outcome
  <2>2. CASE SessionError
    <3>1. reply = NoReply /\ reply'.kind \in {"none", "error"}
      BY <2>2 DEF SessionError, SGoto, StreamInv, RequestInv, Answering, Fresh,
                  NoReply
    <3> QED
      BY <2>1, <3>1, DeliveredStays, TransferStutter DEF Announced, NoReply
  <2>3. CASE GetSize
    <3>1. reply = NoReply /\ reply' = reply
      BY <2>3 DEF GetSize, SGoto, StreamInv, RequestInv, Answering, Fresh
    <3> QED
      BY <2>1, <3>1, DeliveredStays, TransferStutter DEF Announced, NoReply
  <2>4. CASE UNCHANGED <<reply, file_size>>
    BY <2>1, <2>4, DeliveredStays, AnnouncedStays, TransferStutter
  <2>5. SessionTest \/ SessionRecv \/ SessionRecvFail \/ SessionTimeout
          \/ SessionQuit \/ SessionTail => UNCHANGED <<reply, file_size>>
    BY DEF SessionTest, SessionRecv, SessionRecvFail, SessionTimeout,
           SessionQuit, SessionTail, RunEnds, SMoves
  <2>6. GetSizeFail \/ GetOpen \/ GetOpenFail \/ GetHeaderFail
          \/ GetLoopTest \/ GetRead => UNCHANGED <<reply, file_size>>
    BY DEF GetSizeFail, GetOpen, GetOpenFail, GetHeaderFail, GetLoopTest,
           Streams, GetRead, Reads, SMoves
  <2>7. GetSend \/ GetSent \/ GetSendFail => UNCHANGED <<reply, file_size>>
    BY DEF GetSend, Sends, GetSent, GetSendFail
  <2> QED
    BY <1>1, <2>2, <2>3, <2>4, <2>5, <2>6, <2>7 DEF Session
<1>2. CASE GetHeader \/ GetHeaderPart
  <2>1. /\ spc = "header" /\ Sendable
        /\ UNCHANGED <<got, cbuf, cpc, file_size>>
    BY <1>2 DEF GetHeader, GetHeaderPart, SGoto
  <2>2. cpc = "hdr" /\ reply.kind \in {"none", "cut", "cutOk"}
    BY <2>1 DEF StreamInv, RequestInv
  <2>3. reply'.kind \in {"ok", "cut", "cutOk"}
        /\ (GetHeaderPart => reply.kind = "none")
    BY <1>2 DEF GetHeader, GetHeaderPart, NoReply
  <2>4. file_size \in Nat
    BY Numbers DEF StreamInv
  <2>5. UNCHANGED <<Delivered, Outcome>>
    BY <2>1, DeliveredStays DEF received, Outcome
  <2>6. CASE reply.kind # "cutOk" /\ reply'.kind # "cut"
    <3>1. Transfer!Announce
      BY <2>1, <2>2, <2>3, <2>4, <2>5, <2>6
      DEF Transfer!Announce, Transfer!NoSize, Delivered, Outcome, Finished
    <3> QED
      BY <3>1 DEF Transfer!Next
  <2>7. CASE reply.kind = "cutOk" \/ reply'.kind = "cut"
    <3>1. UNCHANGED Announced
      BY <1>2, <2>1, <2>2, <2>3, <2>7
      DEF Announced, GetHeader, GetHeaderPart, NoReply
    <3> QED
      BY <2>5, <3>1, TransferStutter
  <2> QED
    BY <2>6, <2>7
<1>3. CASE ClientRecv
  <2>1. /\ cpc = "recv" /\ cpc' = cpc /\ s2c # <<>> /\ Len(cbuf) < to_recv
        /\ cbuf' = Append(cbuf, Head(s2c))
        /\ UNCHANGED <<got, reply, file_size>>
    BY <1>3 DEF ClientRecv
  <2>2. /\ got \in Seq(0 .. MaxSize) /\ cbuf \in Seq(0 .. MaxSize)
        /\ cbuf' \in Seq(0 .. MaxSize)
        /\ file_size \in Nat /\ csize \in Nat
    BY StreamingAssumption DEF StreamInv, TypeOK
  <2>3. reply.kind = "ok" /\ csize = file_size
    BY <2>1 DEF StreamInv, HeaderInv, Fetching, HeaderSeen
  <2>4. Len(received) = Len(got) + Len(cbuf)
    BY <2>2, ConcatProperties DEF received
  <2>5. Len(received') = Len(got) + Len(cbuf')
    BY <2>1, <2>2, ConcatProperties DEF received
  <2>6. Len(received') = Len(received) + 1
    BY <2>1, <2>2, <2>4, <2>5
  <2>7. Len(received) < file_size
    BY <2>1, <2>2, <2>3, <2>4, StreamingAssumption DEF to_recv, MinOf
  <2>8. Transfer!Deliver
    BY <1>0, <2>1, <2>3, <2>6, <2>7 DEF Transfer!Deliver, Finished
  <2> QED
    BY <2>8 DEF Transfer!Next
<1>4. CASE ClientSuccess
  <2>1. /\ cpc = "recv" /\ cpc' = "success" /\ Len(got) >= csize
        /\ UNCHANGED <<got, cbuf, reply, file_size>>
    BY <1>4 DEF ClientSuccess, CGoto
  <2>2. /\ got \in Seq(0 .. MaxSize) /\ cbuf \in Seq(0 .. MaxSize)
        /\ csize \in Nat
    BY StreamingAssumption DEF StreamInv, TypeOK
  <2>3. Len(received) = Len(got)
    <3>1. Len(got) + Len(cbuf) <= csize
      BY DEF StreamInv, CountInv
    <3>2. Len(received) = Len(got) + Len(cbuf)
      BY <2>2, ConcatProperties DEF received
    <3> QED
      BY <2>1, <2>2, <3>1, <3>2
  <2>4. Len(got) = file_size
    <3>1. TransferIntegrity'
      BY IntegrityHolds, PTL
    <3> QED
      BY <2>1, <3>1 DEF TransferIntegrity
  <2>5. reply.kind \in {"ok", "cutOk"}
    BY <2>1 DEF StreamInv, HeaderInv, Fetching, HeaderSeen
  <2>6. UNCHANGED <<Announced, Delivered>>
    BY <2>1, AnnouncedStays, DeliveredStays DEF received
  <2>7. Transfer!Succeed
    BY <1>0, <2>1, <2>3, <2>4, <2>5, <2>6
    DEF Transfer!Succeed, Announced, Delivered, Finished
  <2> QED
    BY <2>7 DEF Transfer!Next
<1>5. CASE ClientRequest \/ ClientHeader \/ ClientCreate \/ ClientRecvFail
             \/ ClientThrows \/ ClientDies
  <2>1. UNCHANGED <<got, cbuf, reply, file_size>>
    BY <1>5 DEF ClientRequest, ClientHeader, ClientCreate, ClientRecvFail,
                RecvEnds, ClientThrows, ClientDies
  <2>2. UNCHANGED <<Announced, Delivered>>
    BY <2>1, AnnouncedStays, DeliveredStays DEF received
  <2>3. cpc \notin Finished /\ cpc' # "success"
    BY <1>5 DEF ClientRequest, ClientHeader, ClientCreate, ClientRecvFail,
                RecvEnds, ClientThrows, ClientDies, CGoto, Finished
  <2>4. CASE cpc' \in Finished
    BY <2>2, <2>3, <2>4, TransferFail
  <2>5. CASE cpc' \notin Finished
    BY <2>2, <2>3, <2>5, TransferStutter DEF Outcome, Finished
  <2> QED
    BY <2>4, <2>5
<1>6. CASE ClientWrite \/ ClientClose
  <2>1. UNCHANGED <<cpc, reply, file_size>>
    BY <1>6 DEF ClientWrite, Writes, ClientClose
  <2>2. UNCHANGED received
    <3>1. CASE ClientWrite
      <4>1. got' = got \o cbuf /\ cbuf' = <<>>
        BY <3>1 DEF ClientWrite, Writes
      <4>2. got \o cbuf \in Seq(0 .. MaxSize)
        BY ConcatProperties DEF StreamInv, TypeOK
      <4> QED
        BY <4>1, <4>2, ConcatEmptySeq DEF received
    <3>2. CASE ClientClose
      BY <3>2 DEF ClientClose, received
    <3> QED
      BY <1>6, <3>1, <3>2
  <2> QED
    BY <2>1, <2>2, AnnouncedStays, DeliveredStays, TransferStutter DEF Outcome
<1>7. CASE FileChanges \/ ConnectionReset \/ StopCas \/ StopShutdown
             \/ UNCHANGED vars
  <2>1. UNCHANGED <<got, cbuf, cpc, reply, file_size>>
    BY <1>7 DEF FileChanges, ConnectionReset, StopCas, StopShutdown, vars
  <2> QED
    BY <2>1, AnnouncedStays, DeliveredStays, TransferStutter
    DEF Outcome, received
<1> QED
  BY <1>1, <1>2, <1>3, <1>4, <1>5, <1>6, <1>7
  DEF Next, Session, Client, Environment, Ended

\* handle_get and do_get implement FileTransfer: one announcement, bytes in
\* order and never beyond it, success only with all of them.
THEOREM TransferRefinement == Spec => TransferSpec
<1>1. StreamInv /\ StreamInv' /\ [Next]_vars
        => [Transfer!Next]_(Transfer!transferVars)
  BY TransferNext
<1> QED
  BY <1>1, TransferInit, StreamInvariance, PTL
  DEF Spec, TransferSpec, Transfer!Spec
=============================================================================
