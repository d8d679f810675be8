----------------------------- MODULE EventPoll -----------------------------
(***************************************************************************)
(* The part of Linux the server's threads meet in: one epoll instance per  *)
(* worker, an eventfd that counts queued tasks, the pipe that tells the    *)
(* workers to finish, the listening socket and the client sockets.  None   *)
(* of it is under src/: it is modelled from how ConnectionQueue and        *)
(* ConnectionWorker register and use the descriptors.                      *)
(*                                                                         *)
(*   input   EPOLLIN | EPOLLEXCLUSIVE             level-triggered          *)
(*   cancel  EPOLLIN | EPOLLET                    edge-triggered           *)
(*   event   EPOLLIN | EPOLLET | EPOLLEXCLUSIVE   edge-triggered           *)
(*   client  EPOLLIN | EPOLLOUT | EPOLLET | EPOLLRDHUP  edge-triggered     *)
(*                                                                         *)
(* The order of a worker's ready list is abstracted: it is a set.  The     *)
(* limit on the events of one epoll_wait (MaxEvents = 16) is not reached   *)
(* by the few sources of an instance.                                      *)
(***************************************************************************)
EXTENDS Naturals, FiniteSets

CONSTANTS
    Workers,    \* the ConnectionWorker threads
    Clients     \* the peers that may connect

SystemSources == {"input", "cancel", "event"}

ASSUME SourcesAssumption ==
    /\ IsFiniteSet(Workers)
    /\ SystemSources \cap Clients = {}

Sources == SystemSources \cup Clients

VARIABLES
    eventFd,     \* the value of the eventfd
    cancelPipe,  \* the pipe holds the "END!" message, which nobody reads
    backlog,     \* connections waiting in the listening socket
    unread,      \* clients with bytes the server has not read yet
    ready        \* the ready list of each worker's epoll instance

pollVars == <<eventFd, cancelPipe, backlog, unread, ready>>

EventPollTypeOK ==
    /\ eventFd \in Nat
    /\ cancelPipe \in BOOLEAN
    /\ backlog \in SUBSET Clients
    /\ unread \in SUBSET Clients
    /\ ready \in [Workers -> SUBSET Sources]

EventPollInit ==
    /\ eventFd = 0
    /\ cancelPipe = FALSE
    /\ backlog = {}
    /\ unread = {}
    /\ ready = [w \in Workers |-> {}]

\* What epoll finds readable when it polls the descriptor again, which it
\* does when a descriptor is added and when a ready list is harvested.
Readable(s) ==
    \/ s = "event" /\ eventFd > 0
    \/ s = "cancel" /\ cancelPipe
    \/ s = "input" /\ backlog # {}
    \/ s \in unread

\* epoll_ctl(EPOLL_CTL_ADD) of the sources in added.
Register(w, added) ==
    ready' = [ready EXCEPT ![w] = @ \cup {s \in added : Readable(s)}]

Notify(s, woken) ==
    ready' = [w \in Workers |-> IF w \in woken THEN ready[w] \cup {s} ELSE ready[w]]

\* A write to a descriptor that several instances poll with EPOLLEXCLUSIVE:
\* the kernel walks the instances, marks each one it passes, and stops at the
\* first that has a thread inside epoll_wait; with none, it marks them all.
NotifyExclusive(s, registered, waiting) ==
    \E woken \in SUBSET registered :
        /\ woken \cap waiting # {} \/ woken = registered
        /\ Notify(s, woken)

\* epoll_wait takes what is still readable; a level-triggered source stays.
Harvested(w) == {s \in ready[w] : Readable(s)}

Harvest(w) == ready' = [ready EXCEPT ![w] = Harvested(w) \cap {"input"}]
=============================================================================
