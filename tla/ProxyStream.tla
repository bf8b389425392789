----------------------------- MODULE ProxyStream -----------------------------
(***************************************************************************)
(* One request of the media proxy (apps/media-proxy-ts) to an upstream it  *)
(* reads itself: the head and its redirects (upstream.ts), the body piped  *)
(* to the listener (streamBody) or walked for a title (icy.ts), both       *)
(* through the decoder of chunked bodies.  Which bytes there are, which    *)
(* bodies the upstreams send, how they frame them and what a size line or  *)
(* a length byte says are constants; sixteen bytes of metadata are one.    *)
(***************************************************************************)
EXTENDS Integers, SequencesExt

CONSTANTS UpHops,     \* REDIRECT_LIMIT
          UpExtra,    \* ICY_EXTRA
          UpMetaint,  \* icy-metaint
          UpByte,     \* the bytes a body is made of
          UpSize,     \* what the size lines of chunks say, with their extensions
          UpLength,   \* the blocks of metadata a length byte announces
          UpTitles,   \* the metadata
          UpPayload,  \* what the upstreams send to a listener and for a title
          UpFramed    \* the chunked bodies, each with its payload

CR   == "\r"
LF   == "\n"
CRLF == <<CR, LF>>

SizeOf(line) == IF line \in DOMAIN UpSize THEN UpSize[line] ELSE -1

\* A chunked body ends with a line of no size, or breaks off with one that is none;
\* what follows is not looked at.
LastChunk(w) == \E n \in 0..Len(w) - 2 :
    /\ SizeOf(SubSeq(w, 1, n)) <= 0
    /\ \A i \in 1..n : w[i] # CR
    /\ SubSeq(w, n + 1, n + 2) = CRLF
    /\ UpFramed[w] = <<>>

\* Or a chunk, with as many bytes as its line says, comes before the rest.
FirstChunk(w) == \E line \in DOMAIN UpSize, rest \in DOMAIN UpFramed :
    LET data == SubSeq(UpFramed[w], 1, UpSize[line])
    IN  /\ UpSize[line] \in 1..Len(UpFramed[w])
        /\ w = line \o CRLF \o data \o CRLF \o rest
        /\ UpFramed[w] = data \o UpFramed[rest]

\* The first length byte that is not zero, if one has come.
LengthBytes(buf) == {i \in 1..Len(buf) : i % (UpMetaint + 1) = 0 /\ UpLength[buf[i]] > 0}
Metadata(buf) == LET i == Min(LengthBytes(buf)) IN SubSeq(buf, i + 1, i + UpLength[buf[i]])
HasMetadata(buf) == /\ LengthBytes(buf) # {}
                    /\ LET i == Min(LengthBytes(buf)) IN i + UpLength[buf[i]] <= Len(buf)

ASSUME UpAssumption ==
    /\ UpHops \in Nat /\ UpExtra \in Nat /\ UpMetaint \in Nat \ {0}
    /\ {CR, LF} \subseteq UpByte
    /\ \A line \in DOMAIN UpSize : /\ line \in Seq(UpByte) /\ UpSize[line] \in Int
                                  /\ \A i \in 1..Len(line) : line[i] # CR
    /\ UpLength \in [UpByte -> Nat]
    /\ UpPayload \in [{"stream", "icy"} -> SUBSET Seq(UpByte)]
    /\ \A p \in UpPayload["icy"] : HasMetadata(p) => Metadata(p) \in UpTitles
    /\ \A w \in DOMAIN UpFramed : /\ w \in Seq(UpByte) /\ UpFramed[w] \in Seq(UpByte)
                                 /\ (LastChunk(w) \/ FirstChunk(w))

VARIABLES
    upKind,    \* "stream" or "icy"
    upHead,    \* open(): "idle", "connect", "head", "hung", "failed", "ok"
    upLeft,    \* hops left
    upBody,    \* [payload, chunked, wire] of the answer
    upWire,    \* bytes of the body still to come
    upDec,     \* ChunkedDecoder, with what its push() returns
    upOut,     \* payload given to the listener, or the bytes read for the title
    upUnread,  \* pieces the listener has not taken
    upPaused,  \* socket.pause()
    upSocket,  \* the socket is not destroyed
    upEnd,     \* "", "closed", "error", "cancelled" of a body; "null", "found" of a title
    upTitle    \* the metadata found

upVars == <<upKind, upHead, upLeft, upBody, upWire, upDec, upOut, upUnread, upPaused,
            upSocket, upEnd, upTitle>>

PlainBody(p)   == [payload |-> p, chunked |-> FALSE, wire |-> p]
ChunkedBody(w) == [payload |-> UpFramed[w], chunked |-> TRUE, wire |-> w]
Bodies(kind) ==
    {PlainBody(p) : p \in UpPayload[kind]}
    \cup {ChunkedBody(w) : w \in {v \in DOMAIN UpFramed : UpFramed[v] \in UpPayload[kind]}}

FreshSplitter ==
    [state |-> "size", buf |-> <<>>, remaining |-> 0, done |-> FALSE, out |-> <<>>, pieces |-> 0]

UpInit ==
    /\ upKind = "stream"
    /\ upHead = "idle" /\ upLeft = UpHops
    /\ upBody = PlainBody(<<>>) /\ upWire = <<>> /\ upDec = FreshSplitter
    /\ upOut = <<>> /\ upUnread = 0 /\ upPaused = FALSE
    /\ upSocket = TRUE /\ upEnd = "" /\ upTitle = <<>>

-----------------------------------------------------------------------------
(* The decoder.                                                            *)

\* Fault: the bytes that end a chunk's data need not all have arrived.
SkipEnd_Early(d) ==
    IF d.buf = <<>> THEN d
    ELSE [d EXCEPT !.buf = IF Len(@) < 2 THEN <<>> ELSE SubSeq(@, 3, Len(@)), !.state = "size"]

\* The line end that follows a chunk's data.
SkipEnd(d) ==
    IF Len(d.buf) < 2 THEN d
    ELSE [d EXCEPT !.buf = SubSeq(@, 3, Len(@)), !.state = "size"]

\* A size line that is complete opens a chunk; zero or no size ends the body.
ReadSize(d) ==
    LET ends == {i \in 1..Len(d.buf) - 1 : SubSeq(d.buf, i, i + 1) = CRLF}
        size == SizeOf(SubSeq(d.buf, 1, Min(ends) - 1))
        rest == SubSeq(d.buf, Min(ends) + 2, Len(d.buf))
    IN  IF ends = {} THEN d
        ELSE IF size <= 0 THEN [d EXCEPT !.buf = rest, !.done = TRUE]
        ELSE [d EXCEPT !.buf = rest, !.remaining = size, !.state = "data"]

ReadData(d) ==
    LET take == IF d.remaining < Len(d.buf) THEN d.remaining ELSE Len(d.buf)
    IN  IF take = 0 THEN d
        ELSE [d EXCEPT !.out = @ \o SubSeq(d.buf, 1, take),
                       !.pieces = @ + 1,
                       !.buf = SubSeq(@, take + 1, Len(@)),
                       !.remaining = @ - take,
                       !.state = IF d.remaining = take THEN "crlf" ELSE "data"]

DecodeTurn(d) ==
    IF d.done THEN d
    ELSE CASE d.state = "size" -> ReadSize(d)
           [] d.state = "data" -> ReadData(d)
           [] d.state = "crlf" -> SkipEnd(d)

\* push(): every turn of the loop but the last takes a byte off the buffer.
Turns(d) ==
    LET turn[n \in 0..Len(d.buf)] == IF n = 0 THEN d ELSE DecodeTurn(turn[n - 1])
    IN  turn
Decode(d)   == Turns(d)[Len(d.buf)]
Push(bytes) == Decode([upDec EXCEPT !.buf = @ \o bytes, !.out = <<>>, !.pieces = 0])

-----------------------------------------------------------------------------
(* The bodies.                                                             *)

\* tryParse(): whole blocks of audio, length byte and metadata.
TitleScan(buf) ==
    IF Len(buf) >= 2 * UpMetaint + UpExtra THEN "null"
    ELSE IF HasMetadata(buf) THEN "found" ELSE ""

\* emit() of streamBody, or decode() and tryParse() of the scan, with bytes that arrive.
Emit(bytes) ==
    LET got == IF upBody'.chunked THEN Push(bytes)
               ELSE [FreshSplitter EXCEPT !.out = bytes,
                                          !.pieces = IF bytes = <<>> THEN 0 ELSE 1]
    IN  /\ upDec' = [got EXCEPT !.out = <<>>, !.pieces = 0]
        /\ upOut' = upOut \o got.out
        /\ IF upKind = "stream"
           THEN /\ upUnread' = upUnread + got.pieces
                /\ upEnd' = IF got.done THEN "closed" ELSE upEnd
                /\ UNCHANGED <<upSocket, upTitle>>
           ELSE /\ upUnread' = 0
                /\ upEnd' = TitleScan(upOut')
                /\ upTitle' = IF upEnd' = "found" THEN Metadata(upOut') ELSE <<>>
                /\ upSocket' = (upEnd' = "")

\* A good status: the body begins with the bytes that came behind the head.
Accepted == \E b \in Bodies(upKind) : \E n \in 0..Len(b.wire) :
    /\ upHead = "head"
    /\ upHead' = "ok"
    /\ upBody' = b
    /\ upWire' = SubSeq(b.wire, n + 1, Len(b.wire))
    /\ Emit(SubSeq(b.wire, 1, n))
    /\ UNCHANGED <<upKind, upLeft, upPaused>>

\* 204, 304, no content, or for the title no icy-metaint: the socket is destroyed.
Bodiless ==
    /\ upHead = "head"
    /\ upHead' = "ok"
    /\ upSocket' = FALSE
    /\ upEnd' = IF upKind = "stream" THEN "closed" ELSE "null"
    /\ UNCHANGED <<upKind, upLeft, upBody, upWire, upDec, upOut, upUnread, upPaused, upTitle>>

Data == \E n \in 1..Len(upWire) :
    /\ upHead = "ok" /\ upSocket /\ ~upPaused /\ upEnd = ""
    /\ upWire' = SubSeq(upWire, n + 1, Len(upWire))
    /\ UNCHANGED upBody
    /\ Emit(SubSeq(upWire, 1, n))
    /\ upPaused' = (upUnread' > 0)
    /\ UNCHANGED <<upKind, upHead, upLeft>>

Finish(end) ==
    /\ upEnd' = IF upKind = "stream" THEN end ELSE "null"
    /\ upSocket' = FALSE
    /\ UNCHANGED <<upKind, upHead, upLeft, upBody, upWire, upDec, upOut, upUnread,
                   upPaused, upTitle>>

\* The upstream closes, behind its last byte or before, or breaks.
End         == upHead = "ok" /\ upSocket /\ upEnd = "" /\ Finish("closed")
SocketError == upHead = "ok" /\ upSocket /\ upEnd = "" /\ Finish("error")

\* ICY_TIMEOUT of the scan; the client goes away.
ScanTimeout == upKind = "icy" /\ upHead = "ok" /\ upEnd = "" /\ Finish("null")
Cancel      == upKind = "stream" /\ upHead = "ok" /\ upEnd = "" /\ Finish("cancelled")

\* The listener takes a piece; with none left the stream pulls and the socket resumes.
Read ==
    /\ upUnread > 0
    /\ upUnread' = upUnread - 1
    /\ upPaused' = (upPaused /\ upUnread' > 0)
    /\ UNCHANGED <<upKind, upHead, upLeft, upBody, upWire, upDec, upOut, upSocket,
                   upEnd, upTitle>>

-----------------------------------------------------------------------------
(* The head.                                                               *)

HeadIs(state) ==
    /\ upHead' = state
    /\ upSocket' = (state \notin {"failed"})
    /\ UNCHANGED <<upKind, upLeft, upBody, upWire, upDec, upOut, upUnread, upPaused,
                   upEnd, upTitle>>

\* A listener asks for a stream, or for its title.
Open(kind) ==
    /\ upHead = "idle" /\ upKind' = kind /\ upHead' = "connect"
    /\ UNCHANGED <<upLeft, upBody, upWire, upDec, upOut, upUnread, upPaused, upSocket,
                   upEnd, upTitle>>

Connected == upHead = "connect" /\ HeadIs("head")

\* Refused, broken, closed early or too large a head.
OpenFails == upHead \in {"connect", "head"} /\ HeadIs("failed")

\* Fault: the timer covers the connection only.
HeaderTimeout_Connect == upHead = "connect" /\ HeadIs("failed")

\* headerTimeout milliseconds after open() began.
HeaderTimeout == upHead \in {"connect", "head"} /\ HeadIs("failed")

\* No status line: onData has settled the call already and taken the timer away, so
\* fail() does nothing and the promise stays open.
BadStatus == upHead = "head" /\ HeadIs("hung")

\* A redirect opens the next location with one hop less, until none is left.
RedirectLeg ==
    /\ upHead = "head"
    /\ upLeft' = upLeft - 1
    /\ upHead' = IF upLeft' = 0 THEN "failed" ELSE "connect"
    /\ upSocket' = (upLeft' # 0)
    /\ UNCHANGED <<upKind, upBody, upWire, upDec, upOut, upUnread, upPaused, upEnd, upTitle>>

UpNext ==
    \/ Open("stream") \/ Open("icy") \/ Connected \/ OpenFails \/ HeaderTimeout \/ BadStatus \/ RedirectLeg
    \/ Accepted \/ Bodiless \/ Data \/ End \/ SocketError \/ ScanTimeout \/ Cancel \/ Read

UpSpec == UpInit /\ [][UpNext]_upVars

\* Timers fire, also the scan's.
UpFairness == WF_upVars(HeaderTimeout) /\ WF_upVars(ScanTimeout)

-----------------------------------------------------------------------------
(* Properties.                                                             *)

\* "the framing is stripped so only the payload bytes reach the client"
\* (upstream.ts:172): however the bytes are split, the listener hears a prefix of the
\* payload, and all of it as soon as its last byte came or its chunks end; a title is the
\* metadata, never audio.
PayloadOnly ==
    /\ IsPrefix(upOut, upBody.payload)
    /\ upWire = <<>> \/ upDec.done => upOut = upBody.payload
    /\ upEnd = "found" => upTitle \in UpTitles

\* open() settles within its timers and its hops, whatever the upstream does, but for
\* an answer without a status line.
OpenSettles == upHead = "connect" ~> upHead \in {"ok", "failed", "hung"}
=============================================================================
