-------------------------- MODULE WebsocketManager --------------------------
(***************************************************************************)
(* stappler::web::WebsocketManager and the mailboxes of its handlers: the  *)
(* list of handlers whose connections run, under _mutex, and the threads   *)
(* that broadcast to them.  The handlers' connections belong to threads of *)
(* their own, which add and remove them; a connection is destroyed by its  *)
(* thread.  What calls receiveBroadcast is outside the sources: the call   *)
(* in Host::handleBroadcast is commented out.                              *)
(***************************************************************************)
EXTENDS Naturals, Sequences, FiniteSets, SequencesExt

CONSTANTS
    Handlers,       \* with the connection of each
    Casters,        \* the threads that broadcast
    Broadcasts,     \* how many messages each of them has
    Nobody          \* no owner of _mutex

ASSUME ManagerAssumption ==
    IsFiniteSet(Handlers) /\ Casters \cap Handlers = {} /\ Nobody \notin Casters /\ Broadcasts \in Nat

VARIABLES
    handlers,       \* _handlers
    count,          \* _count
    managerMutex,   \* the owner of _mutex, while a broadcast goes on
    enabled,        \* _enabled of each connection
    destroyed,      \* whether the connection, its pool and its handler are freed
    mailbox,        \* _broadcastsMessages, as the number of messages
    todo,           \* for each caster the handlers its loop has before it
    casting,        \* where each caster is with the first of them
    made            \* how many broadcasts each caster has begun

managerVars == <<handlers, count, managerMutex, enabled, destroyed, mailbox,
                 todo, casting, made>>

ManagerTypeOK ==
    /\ handlers \in Seq(Handlers)
    /\ count \in Nat
    /\ managerMutex \in Casters \cup {Nobody}
    /\ enabled \in [Handlers -> BOOLEAN] /\ destroyed \in [Handlers -> BOOLEAN]
    /\ mailbox \in [Handlers -> Nat]
    /\ todo \in [Casters -> Seq(Handlers)]
    /\ casting \in [Casters -> {"idle", "test", "put", "wake"}]
    /\ made \in [Casters -> 0 .. Broadcasts]

ManagerInit ==
    /\ handlers = <<>> /\ count = 0 /\ managerMutex = Nobody
    /\ enabled = [h \in Handlers |-> FALSE]
    /\ destroyed = [h \in Handlers |-> FALSE]
    /\ mailbox = [h \in Handlers |-> 0]
    /\ todo = [b \in Casters |-> <<>>]
    /\ casting = [b \in Casters |-> "idle"]
    /\ made = [b \in Casters |-> 0]

AddHandler(h) ==
    /\ managerMutex = Nobody
    /\ handlers' = Append(handlers, h)
    /\ count' = count + 1

\* Mutant of RemoveHandler: without the mutex.
RemoveHandlerUnlocked(h) ==
    /\ handlers' = RemoveFirst(handlers, h)
    /\ count' = count - 1

\* The first that is found, if any.
RemoveHandler(h) ==
    /\ managerMutex = Nobody
    /\ handlers' = RemoveFirst(handlers, h)
    /\ count' = count - 1

----------------------------------------------------------------------------
\* receiveBroadcast of a message that onBroadcast lets pass.
ReceiveBroadcast(b) ==
    /\ casting[b] = "idle"
    /\ made[b] < Broadcasts
    /\ managerMutex = Nobody
    /\ managerMutex' = b
    /\ made' = [made EXCEPT ![b] = @ + 1]
    /\ todo' = [todo EXCEPT ![b] = handlers]
    /\ casting' = [casting EXCEPT ![b] = "test"]
    /\ UNCHANGED <<handlers, count, enabled, destroyed, mailbox>>

\* The handler's receiveBroadcast, first part: isEnabled.
TestEnabled(b) ==
    /\ casting[b] = "test"
    /\ todo[b] # <<>>
    /\ IF enabled[Head(todo[b])]
       THEN casting' = [casting EXCEPT ![b] = "put"] /\ UNCHANGED todo
       ELSE todo' = [todo EXCEPT ![b] = Tail(@)] /\ UNCHANGED casting
    /\ UNCHANGED <<handlers, count, managerMutex, enabled, destroyed, mailbox, made>>

\* Under _broadcastMutex.
PutMessage(b) ==
    /\ casting[b] = "put"
    /\ mailbox' = [mailbox EXCEPT ![Head(todo[b])] = @ + 1]
    /\ casting' = [casting EXCEPT ![b] = "wake"]
    /\ UNCHANGED <<handlers, count, managerMutex, enabled, destroyed, todo, made>>

\* _conn->wakeup(), which the connection's module completes.
WakeConnection(b) ==
    /\ casting[b] = "wake"
    /\ todo' = [todo EXCEPT ![b] = Tail(@)]
    /\ casting' = [casting EXCEPT ![b] = "test"]
    /\ UNCHANGED <<handlers, count, managerMutex, enabled, destroyed, mailbox, made>>

\* Mutant of EndBroadcast: _mutex stays locked.
EndBroadcastLocked(b) ==
    /\ casting[b] = "test"
    /\ todo[b] = <<>>
    /\ casting' = [casting EXCEPT ![b] = "idle"]
    /\ UNCHANGED <<handlers, count, managerMutex, enabled, destroyed, mailbox, todo, made>>

EndBroadcast(b) ==
    /\ casting[b] = "test"
    /\ todo[b] = <<>>
    /\ managerMutex' = Nobody
    /\ casting' = [casting EXCEPT ![b] = "idle"]
    /\ UNCHANGED <<handlers, count, enabled, destroyed, mailbox, todo, made>>

----------------------------------------------------------------------------
\* A broadcast never uses the connection of a handler that its thread has
\* destroyed: removeHandler cannot pass a broadcast that has the handler before
\* it, and the thread destroys the connection after removeHandler.
CastersTouchLive ==
    \A b \in Casters : \A k \in DOMAIN todo[b] : ~destroyed[todo[b][k]]
=============================================================================
