--------------------------- MODULE HttpdWebsocket ---------------------------
(***************************************************************************)
(* HttpdWebsocketConnection: the thread of one websocket connection under  *)
(* Apache, with its peer, the kernel's socket, the asynchronous tasks its  *)
(* handler starts (on TaskGroup) and the threads that broadcast to it.     *)
(*                                                                         *)
(*   begin --> poll --> out --> emptied --> in --> handle    processSocket *)
(*               ^-------+---------+---------+------'                      *)
(*   poll, out, in --> unlist --> wait --> drain --> flush --> close       *)
(*                     endCb    waitForAll  `--- cancel ------'            *)
(*                                                                         *)
(* The peer sends a script of frames in pieces of any length.  What is     *)
(* sent to it are units <<frame, k>>.  TLS is left out.                    *)
(***************************************************************************)
EXTENDS FrameReader, FrameWriter, WebsocketManager

CONSTANTS
    Self,           \* the handler of this connection
    Tasks,
    Scripts,        \* what a peer may send: sequences of frames
    PieceEnds,      \* where the pieces it sends may end, besides at the end
    Brigade,        \* where the buckets end that a frame for the peer is written in
    MaxFrames,      \* how many frames the handler and its tasks may write
    Window          \* the room for sending

ASSUME ConnectionAssumption ==
    /\ Self \in Handlers /\ IsFiniteSet(Tasks)
    /\ Brigade \in Seq(Nat \ {0}) /\ Brigade # <<>>
    /\ \A i, j \in DOMAIN Brigade : i < j => Brigade[i] < Brigade[j]
    /\ \A s \in Scripts : /\ s \in Seq(PeerFrames)
                          /\ \A f \in DOMAIN s : Upper(s[f].size)[8] = 0
    /\ PieceEnds \subseteq Nat /\ MaxFrames \in Nat /\ Window \in Nat \ {0}

VARIABLES
    script,                 \* the frames of this peer
    sent,                   \* bytes it has sent
    peer,                   \* its end of the connection
    inflight,               \* units on the way that it has not drained
    pulled,                 \* bytes the input filter has taken from the socket
    taken,                  \* bytes the reader has been given
    reader,                 \* _reader
    delivered,              \* the messages handleFrame was given
    writer,                 \* _writer
    wire,                   \* the units the socket took
    expected,               \* the units of all frames written
    frames,                 \* the number of frames written
    broken,                 \* a send failed, or a task cached inside writeSocket
    reqOut, fdChanged,      \* POLLOUT in _pollfd.reqevents, _fdchanged
    registered,             \* POLLOUT in the poll set
    wakened,                \* the wake-up pipe of the poll set
    terminated,             \* _shouldTerminate is clear
    sendFailed,             \* _serverCloseCode is UnexceptedCondition
    pc, events,             \* where the thread is, and the events it has left
    task                    \* where each task is

peerVars == <<script, sent, peer>>
inVars == <<pulled, taken, reader, delivered>>
outVars == <<inflight, writer, wire, expected, frames, broken, reqOut, fdChanged, sendFailed>>
pollVars == <<registered, wakened, terminated, events>>
vars == <<managerVars, peerVars, inVars, outVars, pollVars, pc, task>>

Steps == {"begin", "poll", "out", "emptied", "in", "handle", "unlist", "wait",
          "drain", "flush", "close", "destroyed"}
TaskSteps == {"none", "queued", "running", "writing", "written", "performed", "called"}
Units == (1 .. frames) \X (1 .. Last(Brigade))

StreamOf == [s \in Scripts |-> FlattenSeq([f \in DOMAIN s |-> Encoded(f, s[f])])]
Stream == StreamOf[script]

TypeOK ==
    /\ ManagerTypeOK
    /\ sent \in 0 .. Len(Stream) /\ pulled \in 0 .. sent /\ taken \in 0 .. pulled
    /\ peer \in {"open", "shut", "reset"} /\ inflight \in 0 .. Window
    /\ reader \in Readers
    /\ \A k \in DOMAIN wire : wire[k] \in Units
    /\ \A k \in DOMAIN writer : writer[k].slices # <<>>
    /\ broken \in BOOLEAN /\ reqOut \in BOOLEAN /\ fdChanged \in BOOLEAN
    /\ registered \in BOOLEAN /\ wakened \in BOOLEAN /\ terminated \in BOOLEAN
    /\ sendFailed \in BOOLEAN
    /\ pc \in Steps /\ events \subseteq {"out", "in", "hup"}
    /\ task \in [Tasks -> TaskSteps]

Init ==
    /\ ManagerInit
    /\ script \in Scripts /\ sent = 0 /\ peer = "open"
    /\ pulled = 0 /\ taken = 0 /\ reader = NewReader /\ delivered = <<>>
    /\ inflight = 0 /\ writer = <<>> /\ wire = <<>> /\ expected = <<>> /\ frames = 0
    /\ broken = FALSE /\ reqOut = FALSE /\ fdChanged = FALSE /\ sendFailed = FALSE
    /\ registered = FALSE /\ wakened = FALSE /\ terminated = FALSE /\ events = {}
    /\ pc = "begin" /\ task = [t \in Tasks |-> "none"]

Goto(there) == pc' = there
Room == Window - inflight

----------------------------------------------------------------------------
\* The peer and the network, as long as the connection turns to its socket.
Heard == pc \notin {"close", "destroyed"}

PeerSends ==
    /\ peer = "open" /\ Heard
    /\ \E n \in PieceEnds \cup {Len(Stream)} : sent < n /\ n <= Len(Stream) /\ sent' = n
    /\ UNCHANGED <<managerVars, script, peer, inVars, outVars, pollVars, pc, task>>

PeerDrains ==
    /\ inflight > 0 /\ Heard
    /\ inflight' = inflight - 1
    /\ UNCHANGED <<managerVars, peerVars, inVars, writer, wire, expected, frames, broken,
                   reqOut, fdChanged, sendFailed, pollVars, pc, task>>

\* It shuts its side for writing, or is gone.
PeerLeaves ==
    /\ Heard
    /\ \/ peer = "open" /\ peer' = "shut"
       \/ peer # "reset" /\ peer' = "reset"
    /\ UNCHANGED <<managerVars, script, sent, inVars, outVars, pollVars, pc, task>>

----------------------------------------------------------------------------
\* Writing.

\* The units of the f-th frame after the first `from`, in the buckets that end
\* at the given places.
Buckets(f, from, ends) ==
    [k \in DOMAIN ends |->
        LET begin == IF k = 1 THEN from ELSE ends[k - 1]
        IN  [i \in 1 .. ends[k] - begin |-> <<f, begin + i>>]]

\* What is left of its buckets after n units.
Rest(f, ends, n) ==
    LET first == CHOOSE k \in DOMAIN ends : n < ends[k] /\ (k = 1 \/ ends[k - 1] <= n)
    IN  Buckets(f, n, SubSeq(ends, first, Len(ends)))

Cached(rest) == Emplace(NextEmplaceSlot(writer, Len(FlattenSeq(rest))), rest)

\* cache.  In writeSocket the loop changes the same lists without _mutex: what
\* the writer then keeps is undefined, here all of it or nothing new.
Cache(rest) ==
    /\ IF pc = "out" /\ writer # <<>>
       THEN broken' = TRUE /\ writer' \in {writer, Cached(rest)}
       ELSE UNCHANGED broken /\ writer' = Cached(rest)
    /\ reqOut' = TRUE
    /\ fdChanged' = TRUE

\* The socket takes n units.
SocketTakes(units) ==
    /\ wire' = wire \o units
    /\ inflight' = inflight + Len(units)

\* write of a frame through the filters, under _mutex: directly if nothing
\* waits, bucket by bucket, and what the socket does not take is cached.  send
\* fails when there is no room at all, and once it has failed every later one
\* counts as failed after its first bucket.
WriteFrame(ends) ==
    LET f == frames + 1
        units == [i \in 1 .. Last(ends) |-> <<f, i>>]
        try == IF sendFailed THEN ends[1] ELSE Last(ends)
        n == IF writer # <<>> \/ peer = "reset" THEN 0 ELSE Min({try, Room})
        fails == /\ writer = <<>>
                 /\ sendFailed \/ peer = "reset" \/ Room \in {0} \cup Range(Front(ends))
    IN  /\ frames' = f
        /\ expected' = expected \o units
        /\ SocketTakes(SubSeq(units, 1, n))
        /\ IF fails
           THEN /\ sendFailed' = TRUE /\ broken' = TRUE
                /\ UNCHANGED <<writer, reqOut, fdChanged>>
           ELSE /\ IF n < Last(ends)
                   THEN Cache(Rest(f, ends, n))
                   ELSE UNCHANGED <<writer, reqOut, fdChanged, broken>>
                /\ UNCHANGED sendFailed

MayWrite == frames < MaxFrames

----------------------------------------------------------------------------
\* run: the pollset may not be created, and then there is only cancel.
Begin ==
    /\ pc = "begin"
    /\ \/ /\ AddHandler(Self)
          /\ enabled' = [enabled EXCEPT ![Self] = TRUE]
          /\ Goto("poll")
          /\ UNCHANGED sendFailed
       \/ /\ Goto("drain")
          /\ sendFailed' = TRUE
          /\ UNCHANGED <<handlers, count, enabled>>
    /\ UNCHANGED <<managerMutex, destroyed, mailbox, todo, casting, made, peerVars, inVars,
                   inflight, writer, wire, expected, frames, broken, reqOut, fdChanged,
                   pollVars, task>>

\* The events left of one round: POLLOUT, POLLIN, POLLHUP, or the next round.
\* The interest in POLLOUT is brought up to date before poll.
Continue(left) ==
    /\ events' = IF left \cap {"out", "in"} = {} THEN {} ELSE left
    /\ IF "out" \in left THEN Goto("out") /\ UNCHANGED <<registered, terminated>>
       ELSE IF "in" \in left THEN Goto("in") /\ UNCHANGED <<registered, terminated>>
       ELSE IF "hup" \in left \/ terminated
       THEN Goto("unlist") /\ UNCHANGED registered /\ terminated' = FALSE
       ELSE /\ Goto("poll")
            /\ registered' = IF fdChanged' THEN reqOut' ELSE registered
            /\ UNCHANGED terminated

Leave == Goto("unlist") /\ events' = {} /\ UNCHANGED <<registered, terminated>>

\* What apr_pollset_poll has to report of the socket.
Ready ==
    {e \in {"out", "in", "hup"} :
        CASE e = "out" -> registered /\ (Room > 0 \/ peer = "reset")
          [] e = "in" -> sent > pulled \/ peer # "open"
          [] e = "hup" -> peer = "reset"}

\* A wake-up alone is APR_EINTR and no descriptor, and ends the loop; with a
\* descriptor it is not seen.
PollReturns ==
    /\ pc = "poll"
    /\ Ready # {} \/ wakened
    /\ wakened' = FALSE
    /\ IF terminated \/ Ready = {}
       THEN Goto("unlist") /\ events' = {} /\ terminated' = FALSE /\ UNCHANGED registered
       ELSE UNCHANGED outVars /\ Continue(Ready)
    /\ UNCHANGED <<managerVars, peerVars, inVars, outVars, task>>

\* ttl is over; if the measured time says so too, the close code is set to Away,
\* whatever it was.
PollTimeout ==
    /\ pc = "poll"
    /\ Ready = {} /\ ~wakened
    /\ sendFailed' \in {sendFailed, FALSE}
    /\ Leave
    /\ UNCHANGED <<managerVars, peerVars, inVars, inflight, writer, wire, expected, frames, broken,
                   reqOut, fdChanged, wakened, task>>

\* One slice of writeSocket: what follows, and whether the socket failed.
WriteSlice(n, fails) ==
    /\ SocketTakes(SubSeq(NextBytes(writer), 1, n))
    /\ sendFailed' = (sendFailed \/ fails)
    /\ broken' = (broken \/ fails)
    /\ writer' = IF fails THEN writer ELSE PopWritten(writer, n)

\* Interest in POLLOUT is kept as long as something waits.
EndWrite(empty) ==
    /\ reqOut' = ~empty
    /\ fdChanged' = (fdChanged \/ reqOut # reqOut')
    /\ Continue(events \ {"out"})

WriteSocket ==
    /\ pc = "out"
    /\ IF writer = <<>>
       THEN UNCHANGED <<outVars, events, registered, terminated>> /\ Goto("emptied")
       ELSE LET all == Len(NextBytes(writer))
                n == IF peer = "reset" THEN 0 ELSE Min({all, Room})
                fails == n = 0 \/ sendFailed
            IN  /\ WriteSlice(n, fails)
                /\ IF fails THEN Leave /\ UNCHANGED <<reqOut, fdChanged>>
                   ELSE IF n < all THEN EndWrite(FALSE)
                   ELSE UNCHANGED <<reqOut, fdChanged, pc, events, registered, terminated>>
                /\ UNCHANGED <<expected, frames>>
    /\ UNCHANGED <<managerVars, peerVars, inVars, wakened, task>>

\* The writer was empty.  A task may cache a frame before it is tested once
\* more, or after that and before the interest is dropped, which is then lost.
DropInterest ==
    /\ pc = "emptied"
    /\ \E empty \in {TRUE, writer = <<>>} : EndWrite(empty)
    /\ UNCHANGED <<managerVars, peerVars, inVars, inflight, writer, wire, expected, frames,
                   broken, sendFailed, wakened, task>>

----------------------------------------------------------------------------
\* The input filter turns to the socket when it has less than was asked for.
Pulls(n) == taken = pulled \/ pulled - taken < n

\* One round of readSocket: read what the reader requires and has room for, save
\* it, and see to what is complete.
Reach == IF Pulls(PreparedBytes(reader)) THEN sent ELSE pulled
Offered == Min({PreparedBytes(reader), Reach - taken})
Saved(n) == IF n > 0 THEN Save(reader, SubSeq(Stream, taken + 1, taken + n)) ELSE reader

\* Mutant of ReadAgain: one read for each POLLIN.
ReadAgainNever(n) == Continue(events \ {"in"})

\* After a round without an end: another, until nothing was read.
ReadAgain(n) ==
    IF n > 0 THEN UNCHANGED <<pc, events, registered, terminated>>
    ELSE Continue(events \ {"in"})

ReadSocket ==
    /\ pc = "in"
    /\ pulled' = Reach
    /\ \E n \in {Offered} : \E r \in {Saved(n)} :
        LET lost == peer = "reset" /\ Pulls(PreparedBytes(reader)) /\ Reach = taken
            over == lost \/ r.error # "None"
        IN  /\ taken' = taken + n
            /\ IF ~over /\ IsControlReady(r) /\ r.type = "Ping"
               THEN WriteFrame(SubSeq(Brigade, 1, 1))
               ELSE UNCHANGED outVars
            /\ reader' = IF ~over /\ IsControlReady(r) /\ r.type \in {"Close", "Ping"}
                         THEN PopFrame(r) ELSE r
            /\ IF over \/ (IsControlReady(r) /\ r.type = "Close") THEN Leave
               ELSE IF IsFrameReady(r)
               THEN Goto("handle") /\ UNCHANGED <<events, registered, terminated>>
               ELSE ReadAgain(n)
    /\ UNCHANGED <<managerVars, peerVars, delivered, wakened, task>>

\* handleFrame: the handler may write a frame, start a task, and end the loop.
HandleFrame ==
    /\ pc = "handle"
    /\ delivered' = Append(delivered, [type |-> reader.type, data |-> reader.frame.buffer])
    /\ reader' = PopFrame(reader)
    /\ \/ MayWrite /\ WriteFrame(Brigade)
       \/ UNCHANGED outVars
    /\ \/ \E t \in Tasks : task[t] = "none" /\ task' = [task EXCEPT ![t] = "queued"]
       \/ UNCHANGED task
    /\ \/ Goto("in") /\ UNCHANGED <<events, registered, terminated>>
       \/ Leave
    /\ UNCHANGED <<managerVars, peerVars, pulled, taken, wakened>>

----------------------------------------------------------------------------
\* _enabled = false, and endCb.
Disable ==
    /\ pc = "unlist" /\ enabled[Self]
    /\ enabled' = [enabled EXCEPT ![Self] = FALSE]
    /\ UNCHANGED <<handlers, count, managerMutex, destroyed, mailbox, todo, casting, made,
                   peerVars, inVars, outVars, pollVars, pc, task>>

Unlist ==
    /\ pc = "unlist" /\ ~enabled[Self]
    /\ RemoveHandler(Self)
    /\ Goto("wait")
    /\ UNCHANGED <<managerMutex, enabled, destroyed, mailbox, todo, casting, made,
                   peerVars, inVars, outVars, pollVars, task>>

\* Mutant of AllComplete: waitForAll does not wait for tasks that are queued.
AllCompleteRunning == \A t \in Tasks : task[t] \notin {"running", "writing", "written"}

\* No task adds another, so waitForAll waits for all of them (see TaskGroup).
AllComplete == \A t \in Tasks : task[t] \in {"none", "performed", "called"}

\* _group.waitForAll and handleEnd.
WaitForAll ==
    /\ pc = "wait"
    /\ AllComplete
    /\ Goto("drain")
    /\ UNCHANGED <<managerVars, peerVars, inVars, outVars, pollVars, task>>

\* cancel: read what there is to read, ...
Drain ==
    /\ pc = "drain"
    /\ pulled' = sent /\ taken' = sent
    /\ Goto("flush")
    /\ UNCHANGED <<managerVars, peerVars, reader, delivered, outVars, pollVars, task>>

\* Mutant of Flush: cancel does not write what waits.
FlushNothing ==
    /\ pc = "flush"
    /\ Goto("close")
    /\ UNCHANGED <<managerVars, peerVars, inVars, outVars, pollVars, task>>

\* ... write what waits, to a socket that now blocks, ...
Flush ==
    /\ pc = "flush"
    /\ IF writer = <<>> THEN UNCHANGED outVars /\ Goto("close")
       ELSE LET n == IF peer = "reset" THEN 0 ELSE Min({Len(NextBytes(writer)), Room})
                fails == peer = "reset" \/ sendFailed
            IN  /\ peer = "reset" \/ Room > 0
                /\ WriteSlice(n, fails)
                /\ IF fails THEN Goto("close") ELSE UNCHANGED pc
                /\ UNCHANGED <<expected, frames, reqOut, fdChanged>>
    /\ UNCHANGED <<managerVars, peerVars, inVars, pollVars, task>>

\* ... pass the close frame on and close; then the thread destroys it all.
Destroy ==
    /\ pc = "close"
    /\ destroyed' = [destroyed EXCEPT ![Self] = TRUE]
    /\ Goto("destroyed")
    /\ UNCHANGED <<handlers, count, managerMutex, enabled, mailbox, todo, casting, made,
                   peerVars, inVars, outVars, pollVars, task>>

----------------------------------------------------------------------------
\* A task of the handler: it may write one frame and terminate the connection.
TaskGoto(t, there) == task' = [task EXCEPT ![t] = there]

StartTask(t) ==
    /\ task[t] = "queued" /\ TaskGoto(t, "running")
    /\ UNCHANGED <<managerVars, peerVars, inVars, outVars, pollVars, pc>>

\* write: _enabled is tested, and again in the output filter.
TaskBeginsWrite(t) ==
    /\ task[t] = "running" /\ enabled[Self] /\ MayWrite
    /\ TaskGoto(t, "writing")
    /\ UNCHANGED <<managerVars, peerVars, inVars, outVars, pollVars, pc>>

TaskWrites(t) ==
    /\ task[t] = "writing"
    /\ IF enabled[Self] THEN WriteFrame(Brigade) ELSE UNCHANGED outVars
    /\ TaskGoto(t, "written")
    /\ UNCHANGED <<managerVars, peerVars, inVars, pollVars, pc>>

Terminate(t) ==
    /\ task[t] = "running"
    /\ terminated' = TRUE /\ wakened' = TRUE
    /\ TaskGoto(t, "written")
    /\ UNCHANGED <<managerVars, peerVars, inVars, outVars, registered, events, pc>>

OnPerformed(t) ==
    /\ task[t] \in {"running", "written"} /\ TaskGoto(t, "performed")
    /\ UNCHANGED <<managerVars, peerVars, inVars, outVars, pollVars, pc>>

\* _notifyFn is wakeup of the connection.
NotifyGroup(t) ==
    /\ task[t] = "performed" /\ TaskGoto(t, "called")
    /\ wakened' = TRUE
    /\ UNCHANGED <<managerVars, peerVars, inVars, outVars, registered, terminated, events, pc>>

\* A thread that broadcasts, with the wake-up at its end.
Cast(b) ==
    \/ /\ ReceiveBroadcast(b) \/ TestEnabled(b) \/ PutMessage(b) \/ EndBroadcast(b)
       /\ UNCHANGED <<peerVars, inVars, outVars, pollVars, pc, task>>
    \/ /\ WakeConnection(b)
       /\ wakened' = TRUE
       /\ UNCHANGED <<peerVars, inVars, outVars, registered, terminated, events, pc, task>>

----------------------------------------------------------------------------
LoopStep ==
    \/ Begin \/ PollReturns \/ PollTimeout \/ WriteSocket \/ DropInterest \/ ReadSocket
    \/ HandleFrame \/ Disable \/ Unlist \/ WaitForAll \/ Drain \/ Flush \/ Destroy

TaskStep(t) ==
    \/ StartTask(t) \/ TaskBeginsWrite(t) \/ TaskWrites(t) \/ Terminate(t)
    \/ OnPerformed(t) \/ NotifyGroup(t)

PeerStep == PeerSends \/ PeerDrains \/ PeerLeaves

Next ==
    \/ LoopStep \/ PeerStep
    \/ \E t \in Tasks : TaskStep(t)
    \/ \E b \in Casters : Cast(b)

\* Threads run; a peer that is there takes what it is sent.
Fairness ==
    /\ WF_vars(LoopStep) /\ WF_vars(PeerDrains)
    /\ \A t \in Tasks : WF_vars(TaskStep(t))
    /\ \A b \in Casters : WF_vars(Cast(b))

Spec == Init /\ [][Next]_vars /\ Fairness

----------------------------------------------------------------------------
\* The messages of a script, put together frame by frame as the comments on
\* Frame say, with the place in the stream where each is complete: up to the
\* first frame that ends the reading.
EndOf(s, f) == Len(FlattenSeq([g \in 1 .. f |-> Encoded(g, s[g])]))

Assemble(s, acc, f) ==
    LET frame == s[f]
        type == TypeFromOpcode(frame.opcode)
        data == acc.data \o Payload(f, frame)
    IN  IF acc.over \/ ~frame.masked \/ frame.extra # 0 \/ type \in {"None", "Close"}
           \/ Len(data) > Most
        THEN [acc EXCEPT !.over = TRUE]
        ELSE IF type \in {"Ping", "Pong"} THEN acc
        ELSE LET first == IF type = "Continue" THEN acc.type ELSE type
             IN  IF frame.fin
                 THEN [acc EXCEPT !.data = <<>>, !.type = "None",
                        !.done = Append(@, [type |-> first, data |-> data, end |-> EndOf(s, f)])]
                 ELSE [acc EXCEPT !.data = data, !.type = first]

Nothing == [done |-> <<>>, data |-> <<>>, type |-> "None", over |-> FALSE]
Assembled(s) ==
    LET acc[f \in 0 .. Len(s)] == IF f = 0 THEN Nothing ELSE Assemble(s, acc[f - 1], f)
    IN  acc
MessagesOf == [s \in Scripts |-> Assembled(s)[Len(s)].done]
Messages == MessagesOf[script]

\* However the stream is cut, handleFrame is given the messages of the peer,
\* each with its type and its plain payload, in their order.
DeliveredWhole ==
    /\ Len(delivered) <= Len(Messages)
    /\ \A k \in DOMAIN delivered :
        delivered[k].type = Messages[k].type /\ delivered[k].data = Messages[k].data

\* When the loop goes to poll and the kernel has nothing to report, no complete
\* message is held back, in the reader or in the input filter's own brigade.
NothingHeldBack ==
    pc = "poll" /\ sent = pulled =>
        \A k \in DOMAIN Messages : Messages[k].end <= sent => k <= Len(delivered)

\* Until a send fails, or a task meets the loop inside writeSocket, what the
\* socket took and what waits are the frames that were written, whole and in
\* their order, whichever thread wrote them.
FramesWhole ==
    ~broken => wire \o Unsent(writer) = expected

\* When cancel begins, and until the thread destroys the connection, no task is
\* left whose code may use it.
TasksAreDone ==
    pc \in {"drain", "flush", "close", "destroyed"} =>
        \A t \in Tasks : task[t] \notin {"queued", "running", "writing", "written"}

\* What waits for the peer is sent at last, by the loop or by cancel, unless the
\* socket fails.  If interest in POLLOUT was lost it takes the end of the loop,
\* which a peer that stays half closed puts off for ever: then POLLIN has no end.
PendingFlushed ==
    writer # <<>> ~> writer = <<>> \/ broken \/ [](peer = "shut")

\* Every connection ends, whatever its peer, its tasks and broadcasts do, unless
\* the peer stays half closed.
Ends == <>(pc = "destroyed" \/ [](peer = "shut"))
=============================================================================
