# TLA+ models of the Stappler web server

This directory holds TLA+ specifications of the server part of libstappler
(`src/extra/webserver`), the TLC configurations that check them on small
instances, and TLAPS proofs of the properties that hold for every instance.
Definitions keep the names of the C++ code where they can; `PROJECT.json` says
which lines each definition stands for.

## 1. The system and its parts

| part | state | operations | met by | hard about it |
|---|---|---|---|---|
| `ConnectionQueue` (`unix/`) | priority queue of tasks, `_taskCounter`, `_refCount`, eventfd, pipe, listening socket | `run`, `cancel`, `pushTask`, `popTask`, `releaseTask`, `retain`, `release` | root, every worker, every thread that pushes | `pushTask` is three steps; one eventfd for all; deletion at the last release |
| `ConnectionWorker` (`unix/`) | an epoll instance, `_shouldClose`, a generation of clients | `threadInit`, `worker`, `poll`, `runTask`, `pushFd` | queue, root, clients | edge-triggered descriptors, exclusive wake-ups, batches, `errno` |
| `UnixRoot` (`unix/`) | `_queue`, `_running`, hosts | `init`, `cancel`, `performTask`, `scheduleTask`, `processRequest` | hosts, workers, the user's code | start-up and shutdown against running workers |
| client connection (`ConnectionWorker::Client`, `UnixRequestController`) | buffers, request state, `shutdown*`, `valid` | `performRead`, `runInputFilter`, `submitResponse`, `performWrite`, `release` | its worker, the kernel | partial input, half-closed sockets, release while in use |
| buffer chains (`ConnectionWorker::BufferChain`) | list of buffers with offsets | `write`, `read`, `extract`, `releaseEmpty` | client | offsets at buffer boundaries, end of stream |
| task groups (`webserver/utils/SPWebAsyncTask.cc`) | `_added`, `_completed`, `_queue`, a condition variable | `onAdded`, `onPerformed`, `update`, `waitForAll` | owner thread, workers | wait without a predicate, life of the group, tasks that never come back |
| simulated websocket (`unix/SPWebUnixWebsocket.cc`) | input frames and values, `_shouldTerminate` | `run`, `read`, `receive`, `wakeup`, `terminate` | its own thread, the peer, the manager | lost wake-up, end of the connection with tasks under way |
| `WebsocketManager`, `WebsocketHandler` | list of handlers, pending broadcasts | `accept`, `run`, `receiveBroadcast`, `processBroadcasts` | heartbeat thread, connection threads | a broadcast that meets the end of a connection |
| websocket frames (`WebsocketFrameReader`, `-Writer`) | reader status, header, frame | `save`, `popFrame`, `nextReader`, `emplace` | connections | fragmentation with control frames in between |
| httpd websocket (`httpd/SPWebHttpdWebsocket.cc`) | poll set, pending output, close codes | `run`, `readSocket`, `write`, `writeSocket`, `cancel` | Apache, its thread, other threads | a poll set that changes while polled, close handshake |
| database pool (`webserver/dbd/SPWebDbd.cc`) | `opened` and `free` lists, `count` | `open`, `close`, `cleanup`, `finalize` | requests on every thread | limits tested outside the lock, expiry |
| `Root`, `Host`, `HostController`, components | hosts, components, databases, counters | `handleChildInit`, `handleHeartbeat`, `handleBroadcast`, request phases | everything | order of initialisation |
| `Session` | user, token, lifetime | `init`, `write`, `cancel`, `touch` | request, key-value store | expiry, renewal |
| input filters, multipart parser | parser state, limits | `read`, `step`, `finalize` | request | input cut anywhere |
| `HttpdRoot` | APR thread pool, pending tasks, timer | `performTask`, `scheduleTask`, `initThreads` | Apache | tasks before the pool exists |
| `pug::Cache` (`pug/SPPugCache.cc`) | templates by path, watches, `_inotifyAvailable` | `runTemplate`, `acquireTemplate`, `update` (two), `isNotifyAvailable` | requests, heartbeat, whoever reads inotify | files that change while they are read, an update without the mutex |
| resources, tools, template compiler, documents, MultiMarkdown | — | data transformation | handlers | size, not order |

How they interact: a peer's bytes wake the worker that accepted it; the worker
parses the request and runs the host's handler on its own thread; a handler or
a task hands more work to the root (`performTask`), which queues it for any
worker; a finished task either dies or goes to its group, whose owner waits;
websocket connections own a thread and a group; a broadcast reaches every
connection through the manager.

`PROJECT.json` lists every part, modelled or not, and under `hazards` what can
go wrong where.

## 2. Plan

1. **done** `EventPoll`, `ConnectionQueue`, `ConnectionWorker`, `UnixRoot`:
   how a task gets from the thread that pushes it to the worker that runs it,
   from `init` to `cancel`; `TaskPool` as its abstract specification.
2. **done** `TaskGroup` over `TaskPool`: the owner's `waitForAll` against the
   workers' `onPerformed`; every added task is completed once, the group is not
   touched after its owner may destroy it, `waitForAll` returns; nested groups.
3. **done** `WebsocketManager` with broadcasts, composed with a connection under
   Apache. Left of this: `WebsocketSim`, the stand-in for tests.
4. **done** `DbConnList`: no connection is handed out twice, counters, limits.
5. **done** `BufferChain` and `WorkerClient`: one connection from its events to
   the end of its answer, implementing `Exchange`. Left of this: the clients of
   a generation and how `poll` removes them, next to the accept loop.
6. **done** `FrameReader` and `FrameWriter`, then the httpd websocket loop,
   `HttpdWebsocket`, with its tasks, its peer and the manager.
7. **done** `MultipartParser`, `MultipartForm`, `InputFilter`: the body of a
   request from its pieces to what the handler is given.
8. **done** `PugCache`: the templates requests share, and how they are renewed.
9. `Session`, `HttpdRoot`'s pending tasks, hosts and components.

Theorems to come: of `InputFilter`, that a field reaches the handler as it was
sent.

## 3. The modules

### EventPoll (external)

The kernel's part, from how the code registers its descriptors. `eventFd` is
the eventfd's value, `cancelPipe` the pipe with the "END!" message that nobody
reads, `backlog` the listening socket, `unread` the clients with bytes to read,
`ready[w]` the ready list of worker `w`'s epoll instance as a set (its order is
left open, so every order is checked). `NotifyExclusive` is the wake-up under
`EPOLLEXCLUSIVE`: the instances passed until the first with a thread inside
`epoll_wait`, or all of them. `Harvested` polls each ready descriptor again, as
`epoll_wait` does, so that an edge whose data somebody took is not reported.

### ConnectionQueue

`queue`, `taskCounter`, `refCount` are `_inputQueue`, `_taskCounter`,
`_refCount`. `pushTask` is `PushTask`, `CountTask`, `WriteEvent`. The counter is
an integer and not a residue mod 2^64: that it never gets below zero is a
property. `popTask` may return any queued task, so that the results hold for
every order of priorities.

### ConnectionWorker

One action per step of `poll()` that another thread can see; `pc` says where the
thread is, `batch` which events of the last `epoll_wait` are still to be
handled, `value` what is left of the number read from the eventfd, `errnoIntr`
whether the thread's `errno` is `EINTR`. `StaleErrno` says whether a task or a
handler may return with `errno = EINTR`, as any call of theirs that was
interrupted can leave it. What a request does is the pair `DispatchClient`,
`FinishClient`; while a worker is between them, or runs a task, it may push
tasks of its own. Errors and hang-ups of clients are not in this module.

### UnixRoot

The main thread (`SpawnWorker`, `FinishInit`, `StartCancel`, `JoinWorker`,
`FinishCancel`), the pushing threads (`PerformTask`, `CountPushed`,
`SignalPushed`), the peers (`Connect`, `Send`) and the workers together.
Joining in any order is the same to the others as joining one by one. A task is
created once and pushed once. `fresh` and `done` record which tasks were not
created yet and which were released.

### TaskPool

What `performTask` promises: a task is run once, by at most as many threads as
there are workers, and every task is run unless the pool is closed. `UnixRoot`
implements it under the mapping at the end of that module.

### TaskGroup

`AsyncTaskGroup` over an instance of `TaskPool`, so that what is shown here
holds on any pool that keeps that promise. `phase[g]` is where the owner of the
group is in `waitForAll`, `step[t]` where a task is between `onAdded` and
`releaseTask`, `performed[g]` the group's `_queue`, `batch[th]` the `stack` of
thread `th` inside `update`. `onPerformed` is two actions, `OnPerformed` (the
push under `_mutex`) and `Notify` (the rest, after the unlock). The owner is
who calls `waitForAll`; the thread that made the group, whose id `onAdded`
compares, may be another: a websocket's group is made by the thread that serves
the upgrade request and waited for by the connection's thread. If the maker is
a thread of the pool the group is in `MadeByWorker`, and a task of it that runs
on that thread may call `update` beside the owner; a maker outside the pool
gives fewer behaviours, those without that step. Whether the 50 ms since the last `update` are over is left
open. What a task or a completion does is left open too: it may add tasks, and
a task may own and wait for a group. The model restricts users in three ways:
`waitForAll` is not called from a completion, only the owner and the group's
tasks add to it, and a task that used a group of its own waits for it.

The condition of `waitForAll`, `_added != _completed`, loads two atomics one
after the other: `LoadCounter` takes either first and keeps it in `loaded`,
`TestCounters` loads the other and compares. Tasks may be added, executed and
completed between the two. For a group that a worker made this lets `waitForAll`
return too early: `_added` is loaded, a task of the group adds another (`Missed`),
and the `update` in its `onAdded` completes as many as were missing. What is
still under way then uses a group that may be destroyed. `WaitIsComplete` and
`GoneIsQuiet` make an exception for just that; no line of the repository says
more of `waitForAll` than its name does, so no run calls it a violation. In
every other group only the owner completes tasks, and none while it compares.

### DbConnList

The pool of database connections with `persistent` set, as it is by default.
`held[u]` are the connections a thread has
open, `handle[u]` the one it is opening or closing. `opened` is the list as a sequence of handles, and the free list of nodes is
left out. The mutex is `lock`; each round of the loops in `cleanup` and `open`
is an action, and so are the test of the limits in `close`, which does not hold
the mutex, and the two parts of the push, because that test may see `count`
between them. A connection is younger than `exptime` until `Expire`; what
`isValid` answers for a connection the driver has finished is left open.
`finalize` is not modelled: `DbdModule::_destroyed` begins as true
(`SPWebDbd.h`), so `DbdModule::close` never calls it.

### BufferChain

The chain a client's input is read into. The units of the stream (a unit stands
for a run of bytes) are numbered as they arrive, so a buffer is a run of numbers
and one number, `pos`, says for every buffer how far it was read. `absolute`,
`GetBytesRead` and `Extract` compute what the code computes, which is the place
in the stream only as long as a line lies in one buffer and the chain was not
emptied between two lines; else `Extract` gives the parser other units, or
`Garbled`.

### Exchange

What a connection promises: lines, body and answer in order, whole and once,
and nothing of the request is taken after the answer began.

### WorkerClient

One `Client` and the worker that handles its events, with the peer and the
kernel's socket. `edge` is whether the edge-triggered descriptor has an event to
report, `mask` the events of the round of `poll` that is under way, `pc` where
it is: "read" to "body" are inside `performRead`, "filter" is the head of the
loop in `runInputFilter`, "out" is `performWrite`. A call of `write` or
`sendfile` takes as many units as there is room for, which the peer may make
during the call (`Accepted`). `response` and `output` are sequences of the
answer's units with the flags that end a stream. What the parsers accept, what
`processRequest` answers (`Verdicts`), what `content-length` says, how much a
handler writes and whether the filter refuses a piece are left open.
`shutdownRead` and `shutdownWrite` set a flag and no more, as in the code: they
call `shutdown` with `event.data.fd`, which shares its memory with the
pointer stored in `event.data.ptr`. `released` counts the calls of `removeClient`.
`window`, the room for sending, is chosen at the start from `Windows`: in the
small ones every write is cut, in those that are `Roomy` none. Of a line that
lies in several buffers `extract` gives the parser no more than the limit; the
mapping to `Exchange` (`Whole`) takes such a line for the whole one.

### FrameReader

The reader of websocket frames as a value, each operation an operator
(`Save`, `UpdateState`, `PopFrame`). A byte is the pair of the set of its bits
and the set of the peer's unknown bytes (of the key and the payload) that are
XORed into it, so "the payload is plain" says that each of its bytes is the one
the peer had, whatever that was. `Small`, `Size16Max` and `Most` scale the widths
125, 65535 and the largest message down, and `BufferSize` the 128 bytes of the
buffer for everything but payloads of messages: `prepare` shortens what is asked
for to what is left of it (`PreparedBytes`; the buffer's class is in a submodule
that is not here). `Encoded` is the peer's side, and
external: a frame of `PeerFrames` has any opcode, mask bit and extra bits, and a
size that eight bytes can hold (`ConnectionAssumption`).

### FrameWriter

The slots in which a connection keeps what its socket would not take: a sequence
of slots, a slot a sequence of slices with an offset into the first.

### WebsocketManager

The list of handlers under `_mutex`, the threads that broadcast, and each
handler's mailbox. `todo[b]` is what is left of the loop of caster `b`,
`casting[b]` where it is with the first of it: `isEnabled`, the push under
`_broadcastMutex`, and the wake-up of the connection are three steps. In `src/`
nobody calls `receiveBroadcast`: the call in `Host::handleBroadcast`
(`SPWebHost.cc:565`) is commented out. The module has the public function and
leaves its callers open.

### HttpdWebsocket

The thread of one connection with its peer, the socket, the tasks its handler
starts and the manager. `pc` follows `run`: "poll" to "handle" are
`processSocket`, `readSocket` and `writeSocket`, "unlist" is `endCb`, "drain",
"flush" and "close" are `cancel`. One round of `readSocket`, one slice of
`writeSocket` and one `write` (which holds `_mutex`) are a step each; that
`writeSocket` found the writer empty and that it gives up `POLLOUT` are two
(`WriteSocket`, `DropInterest`). `pulled`
and `taken` tell what the input filter keeps in its own brigade from what the
reader was given. A frame for the peer is a brigade of buckets, which end at the places
in `Brigade`;
`wire` is what the socket took, `expected` what all writers together wrote.
These things the code does are in the model as they are:

- `writeSocket` changes the writer's slots without `_mutex`. A task that caches
  output meanwhile has an undefined outcome; the model keeps either list and
  sets `broken`.
- A `send` with no room fails with `EAGAIN`, which at the beginning of a bucket
  is taken for an error (`UnexceptedCondition`). From then on what is not sent
  at once is dropped and not cached, until `PollTimeout` overwrites the code.
- A wake-up without activity of the socket is `APR_EINTR` with no descriptor and
  ends the loop: `update` and `processBroadcasts` stand behind a comparison with
  another code, which is never returned, and so are not in the model. Every
  finished task, broadcast or `wakeup` may end the connection in this way.
- A task that caches a frame after `writeSocket` found nothing left and before
  it gives up `POLLOUT` loses the interest it asked for. The frame waits for the
  next one to be cached or for `cancel`, which is why `PendingFlushed`, too, makes
  an exception of a peer that stays half closed: with it the loop goes on for
  ever, and so may the wait.
- `_fdchanged` is never reset.
- A fragment, a Pong or a Continue frame leaves the reader as it is, with no
  bytes required: the connection hears its peer no more. (`_frame.fin` and the
  block are kept for a next fragment that never comes.) A first fragment with no
  payload is the exception: `save` is not called for it, so `_frame.fin` still
  is what `clear` set, and it is handed on as a whole message.
- So does a control frame that is longer than the reader's buffer, once that is
  full: the protocol has none, and `ReadHead` does not ask.
- A half-closed peer makes the loop spin, since POLLIN is never over.

The handler's tasks are complete when `waitForAll` returns (`AllComplete`), as
`TaskGroup` promises of a group that no thread of the pool made, or to which no
task adds another: here tasks add none.

TLS is left out, and so are the codes of the close frame but
`UnexceptedCondition`, which changes what `write` does.

### MultipartParser, MultipartForm, InputFilter

`MultipartParser` is the parser of forms. A unit is a character it tells apart,
or a word, or part of one; the boundary is `--B` after the end of a line. One
action is one round of the loop of `run()`. `root` is the tree of the fields, a
function of the paths in it. `MultipartForm` is the reference: how a form is
sent, and what of it is to reach the handler given the limits and what the
request asks for. `InputFilter` is the caller: which parser a body gets, the
pieces, `finalize`, and the parsers for other bodies, which take a piece in one
step. What is left as the code has it: text before the first delimiter ends
the reading with false, though the comment at `State::Begin` says that it is
skipped (Apache's filter ignores the result); a '-' anywhere in the line after a
delimiter ends the body; a part with a type and no file name is a file; names of
headers are compared by their prefix; a value whose length reaches the limit is
dropped; a form of which only files-as-data are asked for is not parsed at all.

### PugCache

The templates a host has read, `templates` with `watches`; the files on `disk`,
which editors rewrite (`Truncate`, `Write`, `CloseWrite`) or replace; and three
kinds of threads. A request runs a template, which includes others to a depth of
`Depth`: it looks twice (`RunTemplate`, `Acquire`) and opens the file itself if
it has to. `openTemplate` is `Stat`, `Read` and `AddWatch`, with the editors'
steps between them, whoever calls it. What `acquireTemplate` found is `peek`
until the reference that is returned retains it (`Copy`): the mutex is what
keeps the two together. The heartbeat walks the templates without the mutex. The
reader of the inotify descriptor calls the other `update`, with the mutex; in
the repository only `tests/common/src/PugTest.cpp` reads it.

Things to know of the code. Under a server nobody reads the descriptor, and the
heartbeat does nothing while `isNotifyAvailable`, so with inotify a template
stays as it was first read. When there is no room for a watch, "inotify limit is
reached: fall back to timed watcher" is printed by `openTemplate`'s callback and
does not reach `onError`, whose comparison with that text would end the use of
inotify; it would also lock the mutex a second time. A watch is added after the
content is read, so what changes in between is not reported. A file that takes
the name of another has a new watch which `_watches` does not know unless
`regenerate` is given. `runTemplate` without options takes the options of a
template it may not have, and the server ends; the model has the other
`runTemplate`, which fails.
What is undefined in the code is taken to do what it was meant to: a walk of
`_templates` that meets an insertion, a template retained after the heartbeat
released it, `_pool` used by two threads, and `it->second` after `it` is erased.

### Mutants

An operator whose comment begins with "Mutant of" is the named definition with
a plausible error; it is used nowhere. `PROJECT.json` says which property it
breaks.

## 4. What the runs show

| run | instance | checks |
|---|---|---|
| `UnixRootSafe` | 2 workers, 3 tasks, 1 peer, stale `errno` possible | `TypeOK`; `TokenBalance`: wake-ups and queued tasks stay in balance; `WokenFindsTask`: a woken worker finds a task; `CounterNeverWraps`: the counter of unfinished tasks; `QueueOutlivesUsers`: the queue is deleted last |
| `UnixRootLive` | 3 workers, 2 tasks, no peer, no stale `errno` | `WorkConserving`: no queued task waits for a busy worker beside an idle one; `ImplementsTaskPool`, `CancelReturns` |
| `UnixRootLostCancel` | 2 workers, 2 peers | violation of `CancelReturns`: the accept loop's `break` drops the end signal |
| `UnixRootStaleErrno` | 2 workers, 2 tasks | violation of `WorkConserving`: a left-over `EINTR` drops a wake-up |
| `TaskGroup` | 2 workers, 5 tasks: one owns a group of three, which another worker made, and one of these a group of one, which it made itself | `GroupBalance`: the counters count the tasks under way; `WaitIsComplete`: waitForAll returns only when all is complete, or, in a group a worker made, a task was added between its two loads; `GoneIsQuiet`: with the same exception a destroyed group's counters and queue are left alone; `WaitReturns`: waitForAll returns, unless every worker is inside it |
| `DbConnListExpiry` | 2 threads, 4 connections, nkeep 1, nmax 2, an expiry time | `CountIsLength`, `OneOwner`: no connection is given out twice; `CleanupInList`: cleanup never runs off the list; `Bounded`: the list is longer than nmax by the other threads at most; `KeptIsLive`: until the first connection expires no finished one is kept or handed out |
| `WorkerClient` | a head of 3 lines and a body over two buffers, a limit of 2 units for a line, room for 1 unit or for the whole answer | `TypeOK`; `BodyCounted`: the body is counted down to its end; `ImplementsExchange`; `WholeIfRoomy`: a client is shut only when all is out, if the socket holds a whole answer; `Served`: a head that was sent is handled; `Closed`: an answer that fits ends the connection |
| `WorkerClientCutAnswer` | room for 2 units | violation of `ShutAtEndOrError`: `performWrite` takes a full socket for an unrecoverable error |
| `HttpdWebsocket` | a peer with one of seven scripts of frames, room for 2 units, 2 frames to write in buckets of 1 and 2 units, one task, one caster | `TypeOK`; `DeliveredWhole`: messages whole and in order; `NothingHeldBack`: none is kept when the loop waits; `FramesWhole`: what goes out is what was written; `TasksAreDone`, `CastersTouchLive`: no task and no broadcast uses a connection that is destroyed; `PendingFlushed`, `Ends` |
| `HttpdWebsocketSegments` | a message in two fragments | violation of `NothingHeldBack`: the reader never asks for the second |
| `InputFilter` | forms and other bodies, two of the forms with each unit lost in turn, in pieces of any length | `TypeOK`; `FieldsAreWhole`, `FilesAreSent`: what was read is what was sent, wherever a piece ends; `ContentIsContiguous`: what there is of a part is a run of the body, damaged ones too; `HandlerSees`: a complete body reaches the handler; `RunReturns`: no input makes the parser go round for ever |
| `PugCache` | 2 files, 2 requests, 3 modifications, includes to a depth of 2, with inotify and without | `TimeIsHonest`: a template with its file's time has its content; `Refreshed`: without inotify a modification gets into the cache; `FoundIsLive`: with it, what a request found is owned until it is retained |

Bounds. Three tasks are what it takes for a worker to read three wake-ups at
once, keep one and forward two, which is the case in which a forwarded number
is neither zero nor one; two workers race for every step, and the third in
`UnixRootLive` gives the exclusive wake-up a choice of whom to wake while one
is busy (two tasks are enough for that). One peer is enough for requests that push tasks; the second in
`UnixRootLostCancel` connects while the first is served. Nothing else is bounded:
a task is created once, so the counters are bounded by `Tasks`.

In `TaskGroup` three tasks of one group are what it takes to meet the two loads:
the owner loads `_added` while there is one, which adds a second and, when that
has run, a third, whose `onAdded` completes the second. The owner of that group
and the task in it that owns another can be inside `waitForAll` on both workers;
the tasks they wait for are then never run. That is the exception `[]Starved` in
`WaitReturns`, which does not hold without it; the run shows that nothing else
keeps an owner waiting for ever. While the first owner holds one worker, the
tasks of its group run one after the other on the second; the proofs of
`GroupBalance`, `WaitIsComplete` and `GoneIsQuiet` are for any number of both,
and for owners outside the pool.

In `DbConnList` four connections are one more than fit (nmax 2 and one race),
and nkeep 1 makes `cleanup` walk over expired connections to young ones.

In `WorkerClient` a line has two or three units, so that input can stop inside
it, the buffer of eight holds the head and one unit of the body, and the answer
has a head of three pieces, which a socket with room for one cuts in the middle
and one with room for seven takes with the body. A limit of two units refuses
the first line unless its units come one by one: the limit is compared with what
is unread and not with the line.

In `HttpdWebsocket` a payload of at most 2 has its size in the head, 3 in two
bytes and 4 in eight, and 10 is too large; the buffer has the 8 bytes that such a
size needs. The scripts have all of these, an empty message, a ping, one of 9
bytes that does not fit, and each of the reader's errors a peer can cause. Pieces
end after the first byte, inside the key or the size, inside the payload, and
after each whole script (`InFields`). A brigade of 3 units meets room for 2, so
a frame is cut inside its second bucket, and two of them fill the writer; a slot
holds 4, so the second needs a new one. In `InputFilter` a value of 6 units is at
the limit; content that begins like a delimiter is in a text and in a file.

In `PugCache` three modifications, on both files or on one, let an editor empty
and rewrite a file while it is read and once more before the next comparison;
the second request opens or includes what the first one runs. That two
modifications have the same time is left out: where the clock of the file system
is coarser than that, `TimeIsHonest` does not hold.

`ImplementsExchange` and `Served` hold under two conditions on the peer that the
code does not enforce. The head fits the first buffer (8 KiB): of a line that
crosses into a second one the parser gets the part before the boundary, and the
next line begins with the rest (`getBytesRead` asks the first buffer only). And
the input does not pause between two lines of the head (`CutAtLineEnd`): after
the request line the next line is taken for a part of it, because
`checkForReqeust` does not report a line that ends the input; after a later line
the chain is emptied and counts from zero again while `bytesRead` does not.
Changing `Capacity` to 6 or `CutAtLineEnd` to TRUE in `WorkerClient.cfg`
shows both. No document promises otherwise, so no run calls them violations.

`KeptIsLive` ends with the first connection that expires. `cleanup` removes the
connections that have *not* expired, and whichever it takes out of the list, it
finishes the one at the head: with an expired connection before a young one the
head stays in the list finished, and is handed out, and the one taken out is
leaked. No document says what `nkeep` and `exptime` mean, so no run calls this a
violation; without `expired = {}` in `KeptIsLive` the run shows it.

Fairness. Every worker and every pushing thread is weakly fair: the kernel
schedules them, and the code of tasks and requests is taken to return. Nobody
has to push, connect or call `cancel`. In `TaskGroup` the steps of the pool are
as fair as `TaskPool` promises, an owner goes on, and `wait_for` returns after
its 50 ms: `WaitReturns` rests on that timeout and not on the notification,
which is lost when it comes before the wait. `epoll_wait` being interrupted is never
required and may happen for ever. In `WorkerClient` the thread of the worker goes
on, and the peer owes nothing: it need not send, drain or leave. In
`HttpdWebsocket` the threads go on, that is, the loop, each task and each
caster, and the peer's side drains what it was sent (`PeerDrains`), because
`cancel` writes what is left to a blocking socket: with a peer that takes
nothing it hangs there (`cancel` sets the socket's timeout to -1). `poll` has the timeout
`ttl`, so `PollTimeout` is part of the loop's step and fair with it. In
`InputFilter` a piece that came is read; none has to come. In `PugCache` the
heartbeat goes on and who has the mutex goes on to release it; `BeginUpdate` is
strongly fair, as the heartbeat waits for a mutex that requests take and release,
and an operating system gives it to everyone who waits long enough. Editors, the
requests outside the mutex and the reader of inotify owe nothing.

`CHECK_DEADLOCK FALSE`: the system stops after `cancel`, and a server with no
work waits.

`CancelReturns` is violated only where peers exist: without
them (`UnixRootLive`) the accept branch is never taken and `cancel` returns.
Tasks that are still queued when the workers end stay there for ever; the
abstract pool says so (`SF ~closed /\ Start`).

## 5. What is proved

`UnixRootProofs` proves, for every finite set of workers and tasks, every set of
peers and every choice of `StaleErrno` unless said otherwise:

- `TypeCorrect`: `Spec => []TypeOK`.
- `TokenInvariance`: `Spec => []TokenInv`, where `TokenInv` joins the type
  invariant, `TokenBalance`, `CounterBalance` and `Holding`. `Holding` is what
  the balances lack to be inductive: a worker owes wake-ups only between the
  read and the forwarding, holds a task only from the pop to the release, and a
  queued task is not fresh, so that a push really adds one.
- From it `WakeUpsBalance`, `WokenNeverIdle` (a worker at "pop" owes at least
  one wake-up, so the queue is not empty) and `CounterIsSound` (the counter is a
  sum of sizes).
- `WorkIsConserved`, assuming `~StaleErrno`: every write to the eventfd reaches
  a worker in `epoll_wait` or else all of them (`WriteReaches`), and no step
  takes the mark away without reading the eventfd.
- `QueueIsRetained`: `refCount` is the number of started workers that were not
  joined, plus one for the root (`ReferenceInv`), and whoever is inside
  `pushTask` is a worker in a task or a request, or the main thread before
  `cancel`.

The wake-ups in workers' hands are counted as the pairs in `TokensOf(value)`,
so that sums become cardinalities; `TokenColumn`, `TokenCount` and `TokensMove`
relate the two. The assumptions are those of the constants: workers and tasks
are finite sets, the three system descriptors are not clients, `NoTask` is no
task, and `Main` is no worker.

It also proves the safety half of `ImplementsTaskPool` on the same
assumptions. `TaskRunsOnce`: a task is in one place, not created, queued, in one
worker's hands or done (`RunOnce`), so it is run once. `PoolIsImplemented`:
`Init` maps to the pool's, and each step to one of its steps or to a stutter
(`PoolStep`): `PerformTask` to `Submit`, `TakeTask` to `Start`, `ReturnTask` to
`Finish` and `StartCancel` to `Close` (by `ClosedByCancel`, only once). `Start`
is the one that needs more than `RunOnce`: a woken worker finds a task, by
`TokenInv`, and fewer tasks run than the pool has threads because the worker
that takes one has none (`SpareWorker`).

`TaskGroupProofs` proves, for every finite set of tasks, every set of groups and
every choice of owners and makers: `GroupTypeCorrect`, `CountersBalance`,
`WaitWaitsForAll` and `GroupIsQuiet`, that is, all the safety properties of the
runs and the type invariant. The inductive invariant `GroupInv` adds two parts
to them. `Places`: a task that is queued for its group or collected has been
performed, and is in one such place only. `Unfinished(g)` then gains its task in
`OnAdded`, loses it in `Complete` and is left alone by every other step
(`OnAddedUnfinished`, `CompleteUnfinished`, `OtherUnfinished`), so the counters
follow it; and nobody can add to a group without unfinished tasks whose owner
has left, because whoever could is a task of the group (`GoneIsClosed`).
`Loading` is about the two loads: what was loaded is at most what the counter is
now, and for a group that its owner made, a `_added` that was loaded is still
`_added` or `_completed` is below it, because only the owner completes, and not
now (`OwnerWaits`). So when the two loads agree (`FinishedInTime`), the counters
do, and by `GroupBalance` nothing is unfinished, or the group is a worker's and
`Missed` holds, which stays so (`WaitStep`).

`DbConnListProofs` proves all the safety properties of the run of
`DbConnList` and its type invariant, for every finite set of threads, every set
of connections, all limits and both choices of `Expires`:

- `ConnTypeCorrect`, `CountFollowsList` and `ListBounded`, from `CountInv`. Of
  its parts `Locking` says who is inside the mutex, and `Pressure` is why the
  list is bounded: a thread that passes the test of nmax finds `count` below it,
  and then at most the other threads have passed too and not counted yet.
- `CleanupStaysInList`, from `Swept`: `cleanup` ends with at most nkeep
  connections or with expired ones only, and `close` puts one in front of them.
  So if two or more are to be removed, only the first of the list can be young,
  and when `cleanup` takes out another one it takes out the last it has to.
- `OneOwnerEach`, from `OwnerInv`: a thread gets a connection from the list,
  which loses it, or a new one (`HandedOut`).
- `KeptStaysLive`, from `UsedIsLive` with the two others: while nothing has
  expired `Swept` leaves `cleanup` at the head of the list, so what it finishes
  is what it takes out (`CleanupHead`), and `OneOwner` says that nobody else has
  it.

`PugCacheProofs` proves the safety properties of the run of `PugCache` and its
type invariant, for every finite set of files and of requests, however many
changes editors make and however deep templates include each other. The
inductive invariant `CacheInv` adds four parts to them:

- `Carrying` says what a thread has in its hands at each step, and `Locking`
  that whoever opens or has found a template has the mutex, except the
  heartbeat, which is under way only once inotify was given up (`AvailableLost`:
  it is never taken up again). Hence `FoundStaysLive`: a step that replaces a
  template is one of the thread at "install" (`ThreadStep`), and with inotify
  that is not the heartbeat, so it has the mutex, which the request has.
- `Placed` says that a template is under its own path, and `Dated` that what a
  thread has read is no newer than its file, and has its content if it is as
  new. Hence `TimesAreHonest`: the time is taken before the content, and a step
  of an editor only makes a file newer (`EditorStep`). With the two in the other
  order `Dated` is lost at "watch", which is the mutant of the run.

`HttpdWebsocketProofs` proves the safety properties of the websocket, for any
scripts of the peer, any casters, tasks, room, buckets and limits of slots:

- `CastersAreSafe`, from `CastInv`: the handler is in the list from `begin` to
  `endCb` and nowhere else, and what a caster has still to visit is in the list,
  because who removes a handler waits for the manager's mutex, which the caster
  has as long as it visits.
- `TasksEndFirst`, from `TaskInv`: from the end of `waitForAll` on every task is
  complete, and none starts, as only the loop starts them.
- `FramesStayWhole`, from `WriteInv`: the units on the wire followed by those in
  the writer's slots are the units of the frames in order. `Span` names a run of
  a frame's units; a write gives the socket the first of them and the slots the
  rest (`Rest`, `Cached`), at whatever bucket and unit the socket stopped, and
  `writeSocket` moves the border between the two and no unit. `UnitsInv` says
  besides that every unit is one of a frame that was written.
- `DeliveredInOrder` and `NoMessageHeldBack`, from `ReadInv`. This is about the
  reader, and has four parts:
  - *Bits and octets.* `OctetNumber`: a number below 256 is the sum of its bits.
    So the head tells the reader what the peer put there (`HeadSays`), and
    the size that `ReadSize` puts together is the one sent (`OctetsValue`), in
    two bytes if it is at most `Size16Max`, else in eight (`WidthFits`). To
    unmask twice with the key at the same place changes nothing (`XorTwice`),
    and `Unmask` begins at the place in the key where the last piece ended
    (`UnmaskedPart`).
  - *Where the reader is.* `InFrame(r, f, F, st, b, t)` says what a reader holds
    that has been given `t` bytes of the stream and whose frame `F` begins after
    `b`: one disjunct for each status. `SaveStep`: to save any number of bytes,
    up to those required, leads from one such place to another or to an error,
    so how the stream is cut does not matter. `ReaderPops`: a frame that is
    complete and taken out leaves the reader at the head of the next.
  - *Messages.* `Fits(s, d, n)`: what was delivered is what the first `n` frames
    of the script say. A frame that is handed on adds the next message
    (`FrameHanded`), a ping none (`PingSkipped`).
  - *The reading.* `ReadInv` joins `sent`, `pulled` and `taken` with the frame the
    reader is at (`AtFrame`), and says that the loop waits only with a reader
    that has seen to all it had (`Settled`) and after the filter has given all
    it had pulled. That last conjunct is what `NoMessageHeldBack` needs: a
    reader that requires more has not come to the end of its frame
    (`ReaderBefore`) and has room for more (`ReaderHasRoom`), and the messages
    complete by then are delivered.

  Their hypotheses are about the peers and are named where they bite.
  `NoEmptyFragment`, for `DeliveredInOrder`: a frame that is not the last of its
  message has a payload; with an empty first fragment the reader delivers an
  empty message (see section 3), and the property is false.
  `Unfragmented`, for `NoMessageHeldBack`: no fragment, no Continue frame, no
  Pong, each of which stops the reader for good, as `HttpdWebsocketSegments`
  shows of the first; and `ShortControlFrames`: none is longer than the
  reader's buffer. The scripts of the run `HttpdWebsocket` satisfy them all, but
  for the long ping, which has no message behind it.
- `TypesHold`: `Spec => []TypeOK`, from `ListInv` (the manager's list and its
  count), `FlagInv` (the peer and the flags of the poll set), `WriteInv`,
  `ReadInv` and `TaskInv`. `ReadInv` has the conjuncts on `sent`, `pulled`,
  `taken` and `reader` whatever the peers send: only `Fits` needs a hypothesis.

`WorkerClientProofs` proves what one connection does for every head, stream,
buffer, limit, answer and room for sending. `ClientInv` has two halves beside the
types of the kernel's and the worker's variables.

- `InputInv` is about the chain: its buffers follow each other and all but the
  last are full (`Tiled`), and they hold all that was received and not read
  (`Covers`), after `getWriteTarget` has filled the last one (`ReadCovers`), after
  `releaseEmpty` (`ReleaseCovers`), and after a piece was read (`UnreadLeft`). So
  the pieces that `processInput` takes from buffer to buffer join without a gap
  (`UnreadJoined`), which is what `BodyIsContiguous` and `BodyIsCounted` say.
- `AnswerInv` numbers the answer: the wire has its first units, `output` those
  that follow, and what is to be written next comes after both, except when
  nothing more is taken for sending (`Deaf`). Hence `AnswerGoesOutInOrder`: the
  three ways a piece can go (behind what waits, to the kernel, or half of each)
  keep the numbers in a row.
- `AnswerIsWholeIfRoomy` adds `RoomInv`: a handler writes at the request and at
  the end of its body, and no sooner (`Written`), so what is to be sent has room
  until it is, and the kernel never declines. This proof found that room for the
  longest body is not enough where `Bodies` has 0 only: a request whose handler
  writes nothing is answered with a body all the same. `Roomy` says so now.

`ClientTypeCorrect` follows from both halves.

`ExchangeIsImplemented` is the refinement: with a head that fits the first buffer
and does not pause between two of its lines (the two conditions of section 4,
which the theorem states as `HeadLength <= Capacity` and `~CutAtLineEnd`, and
`WorkerClient.cfg` meets) every behaviour is one of `Exchange`. `LineInv` adds
what `ClientInv` does not say of the head: where the lines end that the parser
was given (`Taken`), that `bytesRead` is that place, that no line ends among the
units read since (`ReadingHead`), and that until the head is taken the chain
begins with the stream, because neither a release nor a pause has emptied it.
Hence `LineIsNext`: `getBytesRead`, which asks the first buffer only, and
`extract`, which cuts at the limit, find the line where it is. Each step is then
a step of `Exchange` or leaves its variables alone (`ExchangeStep`). Without
either condition `LineInv` is not inductive, and the property is false, as
section 4 says.

`InputFilterProofs` proves what holds of any body, damaged or not, in any pieces.
`Units` is what bodies are made of: it has what the parser looks for and not the
mark that the model's `Stop` uses for the end of a piece. `Requests` and `Others`
are sets of texts of any size; other bodies are not of the type of a form.

- `FilterTypeCorrect` and `ContentIsARun`, from `FilterInv`: `TypeOK`,
  `ContentIsContiguous`, and three facts. No delimiter is half read in a header
  (`Delimiting`), the part that is read into a file has one (`FileIsOpen`), and
  only forms are parsed (`OnlyFormsAreParsed`). `HeaderStep` is what all steps
  inside a header have in common. That the content is a run of the body is what
  a delimiter that fails could break (`ReadMismatch`): what was held back for it,
  possibly over several pieces, goes to the content in its place.
- `OtherBodiesAreSeen`, from `SeenInv`: what `DataParser`, `UrlEncodeParser` and
  `FileParser` have is what was read so far (`ReadSoFar`), and `_body` is what
  was given to `step`. A file below the limit is whole, because the test that
  `FileParser` repeats with every piece holds for all of them (`FileGrows`), and
  one at the limit was never made.

`SequenceLemmas` has what these proofs need of sequences: parts and
concatenations, and `FlattenSeq`, which the community modules define by
recursion. Induction is stated with a set in place of a predicate (`Induction`:
a set that has 0 and with each number the next has all of them), from which the
lemmas on `FlattenSeq` and on the buffers of a chain follow, and those on
`Upper`, `BigEndian` and `Assembled`, which are recursive functions.

Only model-checked: liveness and the fairness half of `TaskPool` (out of the
prover's reach: `CancelReturns`, `WaitReturns`, `Served`, `Closed`,
`PendingFlushed`, `Ends`, `RunReturns`, `Refreshed`); of the websocket what
becomes of scripts outside the hypotheses above; and of the input filter
`FieldsAreWhole`, `FilesAreSent` and `HandlerSees` for forms, which compare the
parser with the form that was sent, whose encoding is defined by folding over its
parts.

## 6. What is left out

See `PROJECT.json` for the parts. Within the parts modelled: `MaxEvents`, the
order of a ready list, priorities and `performFirst` (the code ignores it), the
interval of `scheduleTask` (the code ignores it too), signals other than as the
cause of `EINTR`, failures of `epoll_create1`, `eventfd`, `pipe2` and of writes
to a full eventfd, threads that are neither workers nor the main thread, and the
hosts' initialisation, which runs while the workers already serve.

Of a connection: other clients of the same worker (the batch, the list of the
generation, `releaseAll`), the files behind a buffer and that they may change
while they are sent, TLS (there is none), `shutdownAll` (`valid` is never
cleared), the states `ReqeustClosed` and `ReqeustInvalid` of `runInputFilter`,
which are not entered or not looked at again, `bytesSent`. A unit of the
answer's head stands for a call of `Client::write`. `EndEvent` removes a client
twice when it hung up as its answer was finished, reading it in between; the
model takes the freed memory to hold what it did, and no property speaks of it.

Of a connection under Apache: TLS, the set-up in `accept`, `create` and
`prepare`, what becomes of the reader's own brigade (`popFrame` and `clear` clear
the pool of the base class, in which `HttpdWebsocketConnection`'s reader has made
its `tmpbb`, and the reading goes on with it; the model reads on as if it were
whole), the codes and the reason of the close frame, `processBroadcasts`
(never reached, see above), what a handler does with a broadcast, and the bytes
of the heads the server writes. The group's notification after its owner has
gone on is a use of freed memory (`NotifyGroup` after "destroyed"); no property
claims that it is not. Of the input filter: progress reports, the transfer
encoding, `urldecode`, how a complete value is decoded (in `stappler-core`, a
submodule that is not here), and the part that is over its limit and is to become
data without a file before it, which removes the last of an empty list.

Not modelled at all, and why: `WebsocketSim` stands in for a socket in tests;
sessions, Apache's thread pool, hosts and components are in the plan; the
template compiler, documents and the MultiMarkdown scanners (most of the lines of `src/`, largely
generated by re2c) are sequential transformations of text without a protocol;
resources are calls into `stappler-db`, whose directory is empty in this commit.

Of the database pool: `persistent = false` (no list), the driver's own pools of
memory, the node list. `openConnection` tests the connection once more and drops
an invalid one without finishing it (`OpenConnection`); this leak breaks no
property here.

Of a task group: the second part of `onPerformed` reads `_notifyFn` and the
condition variable after `_mutex` is released, and the model has behaviours in
which the owner has gone on, and may have destroyed the group, before that
(`Notify` with `phase = "gone"`); no property claims the opposite.
`getCounters`, `tl_currentGroup` (set, never reset, read by nobody) and the
pools of memory of the tasks are left out.
