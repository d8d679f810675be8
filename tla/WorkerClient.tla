---------------------------- MODULE WorkerClient ----------------------------
(***************************************************************************)
(* ConnectionWorker::Client: one connection of the unix server, from the   *)
(* events of its descriptor to the end of its answer, with its peer and    *)
(* the kernel's socket between them.                                       *)
(*                                                                         *)
(* The peer sends the units 1 .. StreamLength; the lines of its head end    *)
(* at HeadEnds and the rest is the body.  The answer is the units 1 ..      *)
(* HeadPieces of its head, written one by one, and the units of its body   *)
(* after them.  The kernel holds at most window units the peer has not     *)
(* drained.  What the parser, the host and the handler decide is left open.*)
(***************************************************************************)
EXTENDS BufferChain

CONSTANTS
    HeadEnds,       \* where the lines of the head end
    StreamLength,   \* the units the peer may send
    CutAtLineEnd,   \* whether input may pause between two lines of the head
    Lengths,        \* what content-length may say
    HeadPieces,     \* units of the answer's head
    Bodies,         \* how many units a handler may write
    Windows         \* how much room for sending the kernel may have

HeadLength == Max(HeadEnds)

\* The empty line.
EndOfHead == <<Max((HeadEnds \ {HeadLength}) \cup {0}) + 1, HeadLength>>

ASSUME PeerAssumption ==
    /\ IsFiniteSet(HeadEnds) /\ HeadEnds \subseteq Nat \ {0}
    /\ Cardinality(HeadEnds) > 1
    /\ StreamLength \in Nat /\ HeadLength <= StreamLength
    /\ CutAtLineEnd \in BOOLEAN
    /\ Lengths \subseteq Nat /\ Bodies \subseteq Nat
    /\ HeadPieces \in Nat \ {0} /\ Windows \subseteq Nat \ {0}

VARIABLES
    sent,               \* units the peer has sent
    got,                \* units the client has read from its descriptor
    peer,               \* the peer's end of the connection
    window,             \* the kernel's room for sending
    inflight,           \* units of the answer the peer has not drained
    edge,               \* whether epoll has an event to report
    pc,                 \* where the worker is with the client
    mask,               \* the events it was given
    released,           \* how often removeClient was called
    input, pos,         \* the chain of input and the last unit read from it
    bytesRead,          \* where the code takes the next line to begin
    requestState,
    request,            \* whether there is a request controller
    contentLength,      \* _info.contentLength, what is left of the body
    declared,           \* what the content-length header said
    response, output,   \* the chains of the answer: body, and all that waits
    left,               \* the next piece of the answer's head
    shutdownReadSend, shutdownWriteSend,
    lines, body, wire   \* what the handler and the kernel were given

kernelVars == <<sent, got, peer, window, inflight, edge>>
workerVars == <<pc, mask, released>>
chainVars == <<input, pos, bytesRead>>
requestVars == <<requestState, request, contentLength, declared>>
answerVars == <<response, output, left>>
shutVars == <<shutdownReadSend, shutdownWriteSend>>
seenVars == <<lines, body, wire>>
vars == <<kernelVars, workerVars, chainVars, requestVars, answerVars,
          shutVars, seenVars>>

Steps == {"wait", "read", "filter", "process", "answer", "head", "body",
          "out", "end", "gone", "lost"}
States == {"RequestLine", "RequestHeaders", "RequestProcess", "RequestInput",
           "ReqeustInvalid"}

\* An output chain: its units, whether its last buffer is flagged Eos, and eos.
Chains == [data : Seq(Nat), last : BOOLEAN, eos : BOOLEAN]
EmptyChain == [data |-> <<>>, last |-> FALSE, eos |-> FALSE]
IsEos(chain) == chain.eos \/ (chain.data # <<>> /\ chain.last)

Interval == Nat \X Nat

TypeOK ==
    /\ sent \in 0 .. StreamLength /\ got \in 0 .. sent
    /\ peer \in {"open", "closed", "reset"}
    /\ window \in Windows /\ inflight \in 0 .. window /\ edge \in BOOLEAN
    /\ pc \in Steps /\ mask \subseteq {"in", "out", "hup"} /\ released \in 0 .. 2
    /\ input \in Seq([absolute : Nat, first : Nat, size : 1 .. Capacity])
    /\ pos \in 0 .. got /\ bytesRead \in Nat
    /\ requestState \in States /\ request \in BOOLEAN
    /\ contentLength \in Nat /\ declared \in Nat
    /\ response \in Chains /\ output \in Chains /\ left \in 1 .. HeadPieces
    /\ shutdownReadSend \in BOOLEAN /\ shutdownWriteSend \in BOOLEAN
    /\ lines \in Seq(Interval) /\ body \in Seq(Interval) /\ wire \in Seq(Nat)

\* A connection that was just accepted: it can be written to, which is an event.
Init ==
    /\ window \in Windows
    /\ sent = 0 /\ got = 0 /\ peer = "open" /\ inflight = 0 /\ edge = TRUE
    /\ pc = "wait" /\ mask = {} /\ released = 0
    /\ input = <<>> /\ pos = 0 /\ bytesRead = 0
    /\ requestState = "RequestLine" /\ request = FALSE
    /\ contentLength = 0 /\ declared = 0
    /\ response = EmptyChain /\ output = EmptyChain /\ left = 1
    /\ shutdownReadSend = FALSE /\ shutdownWriteSend = FALSE
    /\ lines = <<>> /\ body = <<>> /\ wire = <<>>

-----------------------------------------------------------------------------
(* The peer and the kernel.                                                *)

\* The peer sends up to unit n.
Send(n) ==
    /\ peer = "open" /\ sent < n
    /\ CutAtLineEnd \/ n \notin HeadEnds \ {HeadLength}
    /\ sent' = n /\ edge' = TRUE
    /\ UNCHANGED <<got, peer, window, inflight, workerVars, chainVars,
                   requestVars, answerVars, shutVars, seenVars>>

\* The peer takes units of the answer; room in a full buffer is an event.
Drain(n) ==
    /\ peer # "reset" /\ n < inflight
    /\ inflight' = n
    /\ edge' = (edge \/ inflight = window)
    /\ UNCHANGED <<sent, got, peer, window, workerVars, chainVars, requestVars,
                   answerVars, shutVars, seenVars>>

\* The peer ends its half of the connection, or breaks the connection off.
Leave(how) ==
    /\ peer = "open" \/ (peer = "closed" /\ how = "reset")
    /\ peer' = how /\ edge' = TRUE
    /\ UNCHANGED <<sent, got, window, inflight, workerVars, chainVars,
                   requestVars, answerVars, shutVars, seenVars>>

Peer ==
    \/ \E n \in 1 .. StreamLength : Send(n)
    \/ \E n \in 0 .. window : Drain(n)
    \/ \E how \in {"closed", "reset"} : Leave(how)

\* The kernel takes n of total units: fewer only when there is no more room,
\* which the peer may have made meanwhile, or the connection is broken off.
Accepted(n, total) ==
    /\ n \in 0 .. total
    /\ n < total => peer = "reset" \/ inflight + n >= window
    /\ inflight' = IF n < total /\ peer # "reset" THEN window
                   ELSE Lesser(window, inflight + n)

\* The outcome of the loop over a chain in writeToFd when n of total units went
\* out: DONE at the flagged end, DECLINED for EAGAIN, SUSPENDED for an error.
WriteStatus(chain, n) ==
    CASE n = Len(chain.data) -> IF chain.last THEN "DONE" ELSE "OK"
      [] n < Len(chain.data) /\ peer = "reset" -> "SUSPENDED"
      [] OTHER -> "DECLINED"

\* What is left of the chain after it: emptied buffers are released.
WriteToFd(chain, n) ==
    [data |-> SubSeq(chain.data, n + 1, Len(chain.data)),
     last |-> chain.last,
     eos |-> chain.eos \/ (n = Len(chain.data) /\ chain.last)]

-----------------------------------------------------------------------------
(* Events and input.                                                       *)

PollMask ==
    {e \in {"in", "out", "hup"} :
        CASE e = "in"  -> got < sent \/ peer # "open"
          [] e = "out" -> inflight < window \/ peer = "reset"
          [] e = "hup" -> peer # "open"}

\* epoll_wait reports what holds now, if there was an event since the last time.
Wake ==
    /\ pc = "wait" /\ edge
    /\ edge' = FALSE
    /\ mask' = PollMask
    /\ pc' = IF "in" \in mask' THEN "read" ELSE "out"
    /\ UNCHANGED <<sent, got, peer, window, inflight, released, chainVars,
                   requestVars, answerVars, shutVars, seenVars>>

\* EPOLLERR, unless a read or a write has taken the error: the client leaves
\* the list of its generation and stays registered and open.
WakeError ==
    /\ pc = "wait" /\ edge /\ peer = "reset"
    /\ edge' = FALSE
    /\ pc' = "lost"
    /\ UNCHANGED <<sent, got, peer, window, inflight, mask, released, chainVars,
                   requestVars, answerVars, shutVars, seenVars>>

\* The first half of performRead: all the input there is.
PerformRead ==
    /\ pc = "read"
    /\ IF shutdownReadSend
       THEN pc' = "out" /\ UNCHANGED <<got, input>>
       ELSE /\ input' = ReadFromFd(input, got + 1, sent - got)
            /\ got' = sent
            /\ pc' = IF input' = <<>> THEN "out" ELSE "filter"
    /\ UNCHANGED <<sent, peer, window, inflight, edge, mask, released, pos,
                   bytesRead, requestVars, answerVars, shutVars, seenVars>>

\* runInputFilter goes round until the chain is empty, and answers SUSPENDED.
FilterDone ==
    /\ pc = "filter" /\ IsEmpty(input, pos)
    /\ pc' = "out"
    /\ UNCHANGED <<kernelVars, mask, released, chainVars, requestVars,
                   answerVars, shutVars, seenVars>>

\* Where the code takes the current line to begin.
LineBase == IF requestState = "RequestLine" THEN 0 ELSE bytesRead

Reading == /\ pc = "filter" /\ ~IsEmpty(input, pos)
           /\ requestState \in {"RequestLine", "RequestHeaders"}

\* checkForReqeust or checkForHeader answers DECLINED, runInputFilter 413.
LineTooLong ==
    /\ Reading /\ Refused(input, pos, HeadEnds, LineBase)
    /\ pc' = "answer"
    /\ UNCHANGED <<kernelVars, mask, released, chainVars, requestVars,
                   answerVars, shutVars, seenVars>>

\* No line to parse: all the input is read.  checkForReqeust answers so, too,
\* when the line's end is the last unit of the input.
LineNotFound ==
    LET found == FoundEnds(input, pos, HeadEnds)
    IN  /\ Reading /\ ~Refused(input, pos, HeadEnds, LineBase)
        /\ found \subseteq
               IF requestState = "RequestLine" THEN {End(Last(input))} ELSE {}
        /\ pos' = End(Last(input))
        /\ UNCHANGED <<kernelVars, workerVars, input, bytesRead, requestVars,
                       answerVars, shutVars, seenVars>>

\* Mutant of ParseLine: runInputFilter does not go round.
ParseLineOnce ==
    LET found == FoundEnds(input, pos, HeadEnds)
        line == Extract(input, Min(found), LineBase)
        next == ReleaseEmpty(input, Min(found))
    IN  /\ Reading /\ ~Refused(input, pos, HeadEnds, LineBase)
        /\ ~(found \subseteq
                 IF requestState = "RequestLine" THEN {End(Last(input))} ELSE {})
        /\ pos' = Min(found)
        /\ lines' = Append(lines, line)
        /\ \/ \* readRequest returned a request, parseRequestHeader OK
              /\ requestState = "RequestLine" \/ line # EndOfHead
              /\ bytesRead' = GetBytesRead(input, pos') /\ input' = next
              /\ requestState' = "RequestHeaders" /\ request' = TRUE
              /\ pc' = "out"
           \/ \* parseRequestHeader DONE
              /\ requestState = "RequestHeaders" /\ line = EndOfHead
              /\ bytesRead' = GetBytesRead(input, pos') /\ input' = next
              /\ requestState' = "RequestProcess" /\ UNCHANGED request
              /\ pc' = "process"
           \/ \* the parser refuses the line
              /\ requestState = "RequestLine" \/ line # EndOfHead
              /\ pc' = "answer"
              /\ UNCHANGED <<input, bytesRead, requestState, request>>
        /\ UNCHANGED <<kernelVars, mask, released, contentLength, declared,
                       answerVars, shutVars, body, wire>>

\* readRequest and parseRequestHeader: the line goes to the parser, which may
\* refuse it.  The empty line is not parsed and ends the head.
ParseLine ==
    LET found == FoundEnds(input, pos, HeadEnds)
        line == Extract(input, Min(found), LineBase)
        next == ReleaseEmpty(input, Min(found))
    IN  /\ Reading /\ ~Refused(input, pos, HeadEnds, LineBase)
        /\ ~(found \subseteq
                 IF requestState = "RequestLine" THEN {End(Last(input))} ELSE {})
        /\ pos' = Min(found)
        /\ lines' = Append(lines, line)
        /\ \/ \* readRequest returned a request, parseRequestHeader OK
              /\ requestState = "RequestLine" \/ line # EndOfHead
              /\ bytesRead' = GetBytesRead(input, pos') /\ input' = next
              /\ requestState' = "RequestHeaders" /\ request' = TRUE
              /\ UNCHANGED pc
           \/ \* parseRequestHeader DONE
              /\ requestState = "RequestHeaders" /\ line = EndOfHead
              /\ bytesRead' = GetBytesRead(input, pos') /\ input' = next
              /\ requestState' = "RequestProcess" /\ UNCHANGED request
              /\ pc' = "process"
           \/ \* the parser refuses the line
              /\ requestState = "RequestLine" \/ line # EndOfHead
              /\ pc' = "answer"
              /\ UNCHANGED <<input, bytesRead, requestState, request>>
        /\ UNCHANGED <<kernelVars, mask, released, contentLength, declared,
                       answerVars, shutVars, body, wire>>

\* Input after the head of a request that is not taken: 500.
InputRefused ==
    /\ pc = "filter" /\ ~IsEmpty(input, pos) /\ requestState = "RequestProcess"
    /\ pc' = "answer"
    /\ UNCHANGED <<kernelVars, mask, released, chainVars, requestVars,
                   answerVars, shutVars, seenVars>>

-----------------------------------------------------------------------------
(* The host and the input filter.                                          *)

\* What UnixRoot::processRequest may answer, and whether there is an input
\* filter then.  Every phase may end it with DONE, SUSPENDED or an error.  A
\* status set while the filter was inserted ends it with what the quick handler
\* answered, OK or DECLINED.  The handler's OK is DONE, or SUSPENDED if there
\* is a filter, which takes the place of the default processing, too.
Verdicts ==
    LET Phase == {"DONE", "SUSPENDED", "ERROR"}
        Before == [status : Phase, filter : {FALSE}]
        InsertFilter == [status : {"OK", "DECLINED"}, filter : BOOLEAN]
        Handler == [status : Phase, filter : BOOLEAN]
    IN  Before \cup InsertFilter \cup Handler

\* A handler writes the next n units of the answer's body.
HandlerWrites(n) ==
    response' = [response EXCEPT !.data =
                    @ \o [i \in 1 .. n |-> HeadPieces + Len(@) + i]]

\* processRequest and what runInputFilter and performRead make of its answer.
\* There is a filter only if there is a body to come.
ProcessRequest ==
    /\ pc = "process"
    /\ \E v \in Verdicts, length \in Lengths, n \in Bodies :
        /\ v.filter => length > 0
        /\ declared' = length /\ contentLength' = length
        /\ HandlerWrites(n)
        /\ requestState' = IF v.status \in {"OK", "SUSPENDED"} /\ v.filter
                           THEN "RequestInput" ELSE "RequestProcess"
        /\ pc' = CASE v.status \in {"OK", "SUSPENDED"} -> "filter"
                   [] v.status = "DECLINED" -> "out"
                   [] OTHER -> "answer"
        /\ shutdownReadSend' = (shutdownReadSend \/ v.status = "DECLINED")
    /\ UNCHANGED <<kernelVars, mask, released, chainVars, request, output, left,
                   shutdownWriteSend, seenVars>>

\* Mutant of Pieces: all of the buffer, whatever contentLength says.
PiecesUnbounded == Unread(input, pos, End(Last(input)))

\* The pieces of the input processInput gives to the filter: what is left of
\* each buffer, and no more than contentLength in all.
Pieces == Unread(input, pos, Lesser(End(Last(input)), pos + contentLength))

ReadingBody == /\ pc = "filter" /\ ~IsEmpty(input, pos)
               /\ requestState = "RequestInput"

\* Mutant of ProcessInput: the buffer's size and not what is unread of it.
ProcessInputWhole ==
    LET end == End(Last(input))
    IN  /\ ReadingBody /\ end - pos < contentLength
        /\ body' = body \o Pieces
        /\ contentLength' = contentLength - (end - input[1].first + 1)
        /\ pos' = end /\ input' = <<>>
    /\ UNCHANGED <<kernelVars, workerVars, bytesRead, requestState, request,
                   declared, answerVars, shutVars, lines, wire>>

\* The filter takes all there is, and waits for more.
ProcessInput ==
    LET end == End(Last(input))
    IN  /\ ReadingBody /\ end - pos < contentLength
        /\ body' = body \o Pieces
        /\ contentLength' = contentLength - (end - pos)
        /\ pos' = end /\ input' = <<>>
    /\ UNCHANGED <<kernelVars, workerVars, bytesRead, requestState, request,
                   declared, answerVars, shutVars, lines, wire>>

\* The body is complete: finalize lets the handler write, and the answer is due.
\* The last piece is not taken off the chain.
FinishInput ==
    /\ ReadingBody /\ End(Last(input)) - pos >= contentLength
    /\ body' = body \o Pieces
    /\ pos' = Last(Pieces)[1] - 1
    /\ input' = ReleaseEmpty(input, pos')
    /\ contentLength' = 0 /\ requestState' = "ReqeustInvalid"
    /\ \E n \in Bodies : HandlerWrites(n)
    /\ pc' = "answer"
    /\ UNCHANGED <<kernelVars, mask, released, bytesRead, request, declared,
                   output, left, shutVars, lines, wire>>

\* The filter refuses the k-th piece.
RefuseInput ==
    /\ ReadingBody
    /\ \E k \in DOMAIN Pieces :
        /\ body' = body \o SubSeq(Pieces, 1, k)
        /\ contentLength' = contentLength - (Pieces[k][2] - pos)
    /\ input' = <<>> /\ requestState' = "ReqeustInvalid"
    /\ pc' = "answer"
    /\ UNCHANGED <<kernelVars, mask, released, pos, bytesRead, request,
                   declared, answerVars, shutVars, lines, wire>>

-----------------------------------------------------------------------------
(* The answer.                                                             *)

\* The body of submitResponse: a default one if the handler wrote none and the
\* request was not HEAD, and in any case the end of the stream.  Without a
\* request (cancelWithResult) the last piece of the head carries the body.
SubmitResponse ==
    /\ pc = "answer"
    /\ \E headRequest \in BOOLEAN :
        response' =
            CASE ~request -> response
              [] request /\ response.data = <<>> /\ ~headRequest ->
                    [response EXCEPT !.data = <<HeadPieces + 1>>, !.last = TRUE]
              [] request /\ response.data = <<>> /\ headRequest ->
                    [response EXCEPT !.eos = TRUE]
              [] OTHER -> [response EXCEPT !.last = TRUE]
    /\ pc' = "head"
    /\ UNCHANGED <<kernelVars, mask, released, chainVars, requestVars, output,
                   left, shutVars, seenVars>>

\* performRead shuts the reading side when the answer is submitted;
\* cancelWithResult the writing side, whatever became of it.
Submitted(shutWrite) ==
    /\ pc' = "out"
    /\ shutdownReadSend' = TRUE
    /\ shutdownWriteSend' = (shutWrite \/ ~request)

\* Nothing more is taken for sending.
Deaf == IsEos(output) \/ shutdownWriteSend

\* Mutant of WritePiece: the head's last piece always ends the stream.
WritePieceEnds ==
    LET ends == left = HeadPieces
        queued == [output EXCEPT !.data = Append(@, left), !.last = ends]
        Then(shut) ==
            IF left < HeadPieces
            THEN /\ left' = left + 1
                 /\ shutdownWriteSend' = (shutdownWriteSend \/ shut)
                 /\ UNCHANGED <<pc, shutdownReadSend>>
            ELSE /\ IF response.data # <<>>
                    THEN /\ pc' = "body"
                         /\ shutdownWriteSend' = (shutdownWriteSend \/ shut)
                         /\ UNCHANGED shutdownReadSend
                    ELSE Submitted(shutdownWriteSend \/ shut)
                 /\ UNCHANGED left
    IN  /\ pc = "head"
        /\ \/ /\ Deaf
              /\ Then(FALSE) /\ UNCHANGED <<inflight, output, wire>>
           \/ /\ ~Deaf /\ output.data # <<>>
              /\ output' = queued
              /\ Then(FALSE) /\ UNCHANGED <<inflight, wire>>
           \/ /\ ~Deaf /\ output.data = <<>> /\ Accepted(1, 1)
              /\ wire' = Append(wire, left)
              /\ Then(ends) /\ UNCHANGED output
           \/ /\ ~Deaf /\ output.data = <<>> /\ Accepted(0, 1)
              /\ output' = IF peer = "reset" THEN output ELSE queued
              /\ Then(peer = "reset") /\ UNCHANGED wire
        /\ UNCHANGED <<sent, got, peer, window, edge, mask, released, chainVars,
                       requestVars, response, lines, body>>

\* Client::write of one piece to output: directly to the kernel if nothing
\* waits, else behind what waits.  The last one ends the stream if no body
\* follows; an error ends it at once.
WritePiece ==
    LET ends == left = HeadPieces /\ response.data = <<>>
        queued == [output EXCEPT !.data = Append(@, left), !.last = ends]
        Then(shut) ==
            IF left < HeadPieces
            THEN /\ left' = left + 1
                 /\ shutdownWriteSend' = (shutdownWriteSend \/ shut)
                 /\ UNCHANGED <<pc, shutdownReadSend>>
            ELSE /\ IF response.data # <<>>
                    THEN /\ pc' = "body"
                         /\ shutdownWriteSend' = (shutdownWriteSend \/ shut)
                         /\ UNCHANGED shutdownReadSend
                    ELSE Submitted(shutdownWriteSend \/ shut)
                 /\ UNCHANGED left
    IN  /\ pc = "head"
        /\ \/ /\ Deaf
              /\ Then(FALSE) /\ UNCHANGED <<inflight, output, wire>>
           \/ /\ ~Deaf /\ output.data # <<>>
              /\ output' = queued
              /\ Then(FALSE) /\ UNCHANGED <<inflight, wire>>
           \/ /\ ~Deaf /\ output.data = <<>> /\ Accepted(1, 1)
              /\ wire' = Append(wire, left)
              /\ Then(ends) /\ UNCHANGED output
           \/ /\ ~Deaf /\ output.data = <<>> /\ Accepted(0, 1)
              /\ output' = IF peer = "reset" THEN output ELSE queued
              /\ Then(peer = "reset") /\ UNCHANGED wire
        /\ UNCHANGED <<sent, got, peer, window, edge, mask, released, chainVars,
                       requestVars, response, lines, body>>

\* Mutant of WriteResponse: what waits goes out after the body.
WriteResponseFirst ==
    /\ pc = "body"
    /\ \/ /\ Deaf
          /\ Submitted(shutdownWriteSend)
          /\ UNCHANGED <<inflight, response, output, wire>>
       \/ /\ ~Deaf /\ output.data # <<>>
          /\ output' = [output EXCEPT !.data = response.data \o @,
                                      !.last = response.last]
          /\ response' = [response EXCEPT !.data = <<>>]
          /\ Submitted(FALSE) /\ UNCHANGED <<inflight, wire>>
       \/ /\ ~Deaf /\ output.data = <<>>
          /\ \E n \in 0 .. Len(response.data) :
              /\ Accepted(n, Len(response.data))
              /\ wire' = wire \o SubSeq(response.data, 1, n)
              /\ response' = WriteToFd(response, n)
              /\ Submitted(WriteStatus(response, n) \in {"DONE", "DECLINED"})
          /\ UNCHANGED output
    /\ UNCHANGED <<sent, got, peer, window, edge, mask, released, chainVars,
                   requestVars, left, lines, body>>

\* Client::write of the response chain to output: directly to the kernel if
\* nothing waits, and what it does not take stays behind; else the chain is
\* moved to the end of output.
WriteResponse ==
    /\ pc = "body"
    /\ \/ /\ Deaf
          /\ Submitted(shutdownWriteSend)
          /\ UNCHANGED <<inflight, response, output, wire>>
       \/ /\ ~Deaf /\ output.data # <<>>
          /\ output' = [output EXCEPT !.data = @ \o response.data,
                                      !.last = response.last]
          /\ response' = [response EXCEPT !.data = <<>>]
          /\ Submitted(FALSE) /\ UNCHANGED <<inflight, wire>>
       \/ /\ ~Deaf /\ output.data = <<>>
          /\ \E n \in 0 .. Len(response.data) :
              /\ Accepted(n, Len(response.data))
              /\ wire' = wire \o SubSeq(response.data, 1, n)
              /\ response' = WriteToFd(response, n)
              /\ Submitted(WriteStatus(response, n) \in {"DONE", "DECLINED"})
          /\ UNCHANGED output
    /\ UNCHANGED <<sent, got, peer, window, edge, mask, released, chainVars,
                   requestVars, left, lines, body>>

\* performWrite, if the event says there is room.
PerformWrite ==
    /\ pc = "out"
    /\ \/ /\ "out" \notin mask \/ output.data = <<>>
          /\ UNCHANGED <<inflight, output, shutdownWriteSend, wire>>
       \/ /\ "out" \in mask /\ output.data # <<>>
          /\ \E n \in 0 .. Len(output.data) :
              /\ Accepted(n, Len(output.data))
              /\ wire' = wire \o SubSeq(output.data, 1, n)
              /\ output' = WriteToFd(output, n)
              /\ shutdownWriteSend' = (shutdownWriteSend \/
                     WriteStatus(output, n) \in {"DONE", "DECLINED"})
    /\ pc' = "end"
    /\ UNCHANGED <<sent, got, peer, window, edge, mask, released, chainVars,
                   requestVars, response, left, shutdownReadSend, lines, body>>

\* Mutant of EndEvent: only the peer ends a connection.
EndEventHangUp ==
    LET hungUp == IF "hup" \in mask THEN 1 ELSE 0
    IN  /\ pc = "end"
        /\ released' = hungUp
        /\ pc' = IF released' = 0 THEN "wait" ELSE "gone"
        /\ UNCHANGED <<kernelVars, mask, chainVars, requestVars, answerVars,
                       shutVars, seenVars>>

\* The end of poll's round: a client that hung up is removed, and so is one
\* whose sides are both shut.  The second test reads the client after the first
\* removal; its memory still holds what it did.
EndEvent ==
    LET hungUp == IF "hup" \in mask THEN 1 ELSE 0
        shut == IF shutdownReadSend /\ shutdownWriteSend THEN 1 ELSE 0
    IN  /\ pc = "end"
        /\ released' = hungUp + shut
        /\ pc' = IF released' = 0 THEN "wait" ELSE "gone"
        /\ UNCHANGED <<kernelVars, mask, chainVars, requestVars, answerVars,
                       shutVars, seenVars>>

-----------------------------------------------------------------------------
Worker ==
    \/ Wake \/ WakeError \/ PerformRead
    \/ FilterDone \/ LineTooLong \/ LineNotFound \/ ParseLine \/ InputRefused
    \/ ProcessRequest \/ ProcessInput \/ FinishInput \/ RefuseInput
    \/ SubmitResponse \/ WritePiece \/ WriteResponse \/ PerformWrite \/ EndEvent

Next == Peer \/ Worker

\* The worker's thread goes on; the peer owes nothing.
Spec == Init /\ [][Next]_vars /\ WF_vars(Worker)

-----------------------------------------------------------------------------
(* Properties.                                                             *)

\* What extract takes from several buffers it cuts at the limit, so a line of
\* that length may be the beginning of a longer one.
Whole(line) ==
    IF line[2] - line[1] + 1 = LineLimit
    THEN <<line[1], Min({e \in HeadEnds : e >= line[2]})>> ELSE line

Seen == INSTANCE Exchange WITH lines <- [i \in DOMAIN lines |-> Whole(lines[i])]

\* The handler gets the lines of the head (whole, or cut at the limit) and the
\* pieces of the body, the kernel the answer, as one exchange has them: in
\* order, whole, once, and nothing of the request after the answer began
\* (runInputFilter, performRead, and the chains between them).
ImplementsExchange == Seen!Spec

\* What the filter was given and what it waits for add up to content-length:
\* processInput counts every unit it gives, across buffers and pauses.
BodyCounted ==
    requestState \in {"RequestInput", "ReqeustInvalid"} =>
        Seen!UpTo(body, HeadLength) - HeadLength + contentLength = declared

\* The answer is with the kernel, or the connection is broken, when the writing
\* side is shut.
NothingUnsent ==
    shutdownWriteSend /\ peer # "reset" => output.data = <<>> /\ response.data = <<>>

\* performWrite shuts the writing side when the end of the answer is out, or
\* for what its comment calls an unrecoverable error: never while the rest of
\* the answer waits and the peer is there to take it.
ShutAtEndOrError ==
    [][pc = "out" /\ shutdownWriteSend' /\ ~shutdownWriteSend =>
        output'.data = <<>> \/ peer # "open"]_vars

\* The kernel takes a whole answer at once: its head and what the handler writes
\* at the request and at the end of its body, or the default body.
Roomy == \A n, m \in Bodies \cup {0} : HeadPieces + Greater(1, n + m) <= window

\* With such a socket a client's writing side is shut only when all of its
\* answer is out: no step of it, in whatever order its head, its body and the
\* events of the descriptor come, shuts it early.
WholeIfRoomy == Roomy => NothingUnsent

\* A peer that sends the whole head and stays gets the request to the handler or
\* an answer: no edge-triggered event is lost between runs of performRead.
Served ==
    sent >= HeadLength ~>
        \/ requestState \in {"RequestProcess", "RequestInput", "ReqeustInvalid"}
        \/ shutdownReadSend \/ peer # "open"

\* An answer once due that fits the socket ends the connection from the
\* server's side, whether or not the peer takes it.
Closed == pc = "answer" /\ Roomy ~> pc \in {"gone", "lost"}
=============================================================================
