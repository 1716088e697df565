--------------------------- MODULE WebSocketServer ---------------------------
(***************************************************************************)
(* WebSocketServer (WebSocketServer.hpp, WebSocketServer.cpp): the life of *)
(* the server, the listener, the inbound half of each session, the client  *)
(* registry clients_ behind clientsMutex_ and the calls applications make. *)
(* The outbound half of a session is WsSession, whose steps are steps of   *)
(* this module under the guards the server adds.                           *)
(*                                                                         *)
(* Actors are the strands of the sessions and the application's threads;   *)
(* the owner is the thread that calls start() and stop().  A strand runs   *)
(* a handler only on one of the NThreads workers.  A session is named by   *)
(* its client id: generateClientId() counts atomically and never repeats.  *)
(***************************************************************************)
EXTENDS WsSession, FiniteSets

CONSTANTS
    NThreads,   \* threads_
    Paths,      \* the keys of messageHandlers_
    MaxIn,      \* bound: messages each peer sends
    MaxStarts   \* bound: calls of start() that get past bind()

ASSUME WebSocketServerAssumption ==
    /\ NThreads \in Nat
    /\ MaxIn \in Nat
    /\ MaxStarts \in Nat

VARIABLES
    owner,       \* where the owner is in start() or stop(); "out" of both
    starts,      \* calls of start() so far
    running,     \* running_
    iocStopped,  \* ioc_.stop() was called; nothing calls restart()
    workers,     \* threads that call ioc_.run()
    accepting,   \* the listener has an async_accept outstanding
    inOp,        \* the accept or read each session has outstanding, or its result
    inbox,       \* messages each peer still has to send
    left,        \* handlers still to be called for the message being processed
    during,      \* the handler of the application each strand is in: connect,
                 \* message, disconnect or none
    clients,     \* the keys of clients_
    mutex,       \* who holds clientsMutex_ across steps: nobody or one actor
    section,     \* the call that holds it
    todo,        \* clients the loop of that call has still to visit
    reached,     \* clients it has sent to; its size is the call's count
    connects,    \* calls of connectHandler_ for each session (history)
    disconnects  \* calls of disconnectHandler_ for each session (history)

ownerVars == <<owner, starts, running, iocStopped, workers>>
readVars == <<accepting, inOp, inbox, left, during>>
mutexVars == <<mutex, section, todo, reached>>
noteVars == <<connects, disconnects>>
serverVars == <<owner, starts, running, iocStopped, workers, accepting, inOp, inbox, left,
                during, clients, mutex, section, todo, reached, connects, disconnects>>
vars == <<sessionVars, serverVars>>

Init ==
    /\ SessionInit
    /\ owner = "out"
    /\ starts = 0
    /\ running = FALSE
    /\ iocStopped = FALSE
    /\ workers = 0
    /\ accepting = FALSE
    /\ inOp = [s \in Sessions |-> "new"]
    /\ inbox = [s \in Sessions |-> MaxIn]
    /\ left = [s \in Sessions |-> {}]
    /\ during = [s \in Sessions |-> "none"]
    /\ clients = {}
    /\ mutex = {}
    /\ section = "none"
    /\ todo = {}
    /\ reached = {}
    /\ connects = [s \in Sessions |-> 0]
    /\ disconnects = [s \in Sessions |-> 0]

\* A worker is free to take a handler.
WorkerFree ==
    /\ ~iocStopped
    /\ Cardinality({s \in Sessions : pc[s] # "idle"}) < workers

-----------------------------------------------------------------------------
(* Mistakes the mutation runs put in the place of the definitions below.   *)

MutFree == TRUE                                \* no lock_guard
MutStop ==                                     \* stop() takes clientsMutex_ and joins
    /\ owner = "out"
    /\ running
    /\ mutex = {}
    /\ mutex' = {"owner"}
    /\ iocStopped' = TRUE
    /\ owner' = "joining"
    /\ UNCHANGED <<sessionVars, starts, running, workers, readVars,
                   clients, section, todo, reached, noteVars>>
MutRemove(S, s) == S                           \* removeClient() forgotten
MutPoolSize == NThreads + 1                    \* i <= threads_
MutReadBeforeHandler(s) ==                     \* doRead() at the top of onAccept
    /\ WorkerFree
    /\ inOp[s] = "accepted"
    /\ inOp' = [inOp EXCEPT ![s] = "read"]
    /\ Goto(s, "add")
    /\ UNCHANGED <<streamVars, to, wip, ownerVars, accepting, inbox, left, during,
                   clients, mutexVars, noteVars>>
MutEndOfRead(s, label, next) ==                \* another way out of onRead
    /\ WorkerFree
    /\ inOp[s] \in {"closed", "error"} /\ pc[s] = "idle" /\ connects[s] > 0
    /\ inOp' = [inOp EXCEPT ![s] = next]
    /\ Goto(s, label)
    /\ UNCHANGED <<streamVars, to, wip, ownerVars, accepting, inbox, left, during,
                   clients, mutexVars, noteVars>>
MutReadGoesOn(s) == MutEndOfRead(s, "remove", "read")   \* no return after an error
MutSilentEnd(s) == MutEndOfRead(s, "idle", "none")      \* an error is only logged

-----------------------------------------------------------------------------
(* The owner: start() and stop().                                          *)

\* start() up to listener_->run().  A start() whose bind() fails throws and
\* changes nothing.  stop() leaves the acceptor open, so a second start()
\* gets past bind() only where SO_REUSEADDR lets two sockets listen.
StartListening ==
    /\ owner = "out"
    /\ ~running
    /\ starts < MaxStarts
    /\ starts' = starts + 1
    /\ owner' = "listening"
    /\ accepting' = TRUE
    /\ UNCHANGED <<sessionVars, running, iocStopped, workers, inOp, inbox, left, during,
                   clients, mutexVars, noteVars>>

\* The loop that creates the threads; one that cannot be created makes
\* start() throw, with the earlier ones at work and running_ still false.
PoolSize == NThreads

StartThreads ==
    /\ owner = "listening"
    /\ \/ owner' = "started" /\ workers' = PoolSize
       \/ owner' = "threw" /\ \E n \in 0..PoolSize : n < PoolSize /\ workers' = n
    /\ UNCHANGED <<sessionVars, starts, running, iocStopped, readVars,
                   clients, mutexVars, noteVars>>

StartReturns ==
    /\ owner = "started"
    /\ running' = TRUE
    /\ owner' = "out"
    /\ UNCHANGED <<sessionVars, starts, iocStopped, workers, readVars,
                   clients, mutexVars, noteVars>>

Stop ==
    /\ owner = "out"
    /\ running
    /\ iocStopped' = TRUE
    /\ owner' = "joining"
    /\ UNCHANGED <<sessionVars, starts, running, workers, readVars,
                   clients, mutexVars, noteVars>>

\* A worker returns from run() when the handler it is in returns.
Joined == \A s \in Sessions : pc[s] = "idle"

StopReturns ==
    /\ owner = "joining"
    /\ Joined
    /\ workers' = 0
    /\ running' = FALSE
    /\ owner' = "out"
    /\ UNCHANGED <<sessionVars, starts, iocStopped, readVars,
                   clients, mutexVars, noteVars>>

Owner == StartListening \/ StartThreads \/ StartReturns \/ Stop \/ StopReturns

-----------------------------------------------------------------------------
(* The listener, and the transport's side of accept and read.              *)

\* Listener::onAccept, which runs on the acceptor's strand: the session of
\* the new connection starts its handshake and the listener accepts again.
\* The constructor of Session asks for the remote endpoint and throws when
\* the peer has gone already; nothing catches it in the worker, which ends
\* the process before the next doAccept().
Accept(s) ==
    /\ accepting
    /\ WorkerFree
    /\ inOp[s] = "new"
    /\ \/ /\ inOp' = [inOp EXCEPT ![s] = "handshake"]
          /\ UNCHANGED <<accepting, ended>>
       \/ /\ accepting' = FALSE
          /\ ended' = "exception"
          /\ UNCHANGED inOp
    /\ UNCHANGED <<sendQueue, pushed, writeOp, frame, wire, up, callVars, ownerVars,
                   inbox, left, during, clients, mutexVars, noteVars>>

Arrives(s, from, result) ==
    /\ inOp[s] = from
    /\ inOp' = [inOp EXCEPT ![s] = result]
    /\ UNCHANGED <<sendQueue, pushed, writeOp, frame, wire, ended, callVars, ownerVars,
                   accepting, left, during, clients, mutexVars, noteVars>>

PeerUpgrades(s) ==
    up[s] /\ Arrives(s, "handshake", "accepted") /\ UNCHANGED <<up, inbox>>

PeerSends(s) ==
    /\ up[s]
    /\ inbox[s] > 0
    /\ inbox' = [inbox EXCEPT ![s] = @ - 1]
    /\ Arrives(s, "read", "message")
    /\ UNCHANGED up

PeerCloses(s) ==
    /\ up[s]
    /\ up' = [up EXCEPT ![s] = FALSE]
    /\ Arrives(s, "read", "closed")
    /\ UNCHANGED inbox

InFails(s) ==
    /\ up' = [up EXCEPT ![s] = FALSE]
    /\ \E from \in {"handshake", "read"} : Arrives(s, from, "error")
    /\ UNCHANGED inbox

Network(s) ==
    \/ PeerUpgrades(s) \/ PeerSends(s) \/ PeerCloses(s) \/ InFails(s)
    \/ Transport(s) /\ UNCHANGED serverVars

-----------------------------------------------------------------------------
(* Handlers of a session, on its strand.  The first step of each needs a   *)
(* free worker; a step that locks clientsMutex_ for itself waits for it.   *)

Free == mutex = {}

\* A step of the strand of s to label, with nothing of the session's outbound
\* half changed.
Step(s, from, label) ==
    pc[s] = from /\ Goto(s, label) /\ UNCHANGED <<streamVars, to, wip, ownerVars, accepting,
                                                   inbox, mutexVars>>

\* The application's handler of this kind is called.  In it the application may
\* call the server back, which it could not do under clientsMutex_.
Enters(s, from, kind) ==
    /\ Step(s, from, "handler")
    /\ during' = [during EXCEPT ![s] = kind]

\* onAccept: with an error it returns, and the session goes.
OnAccept(s) ==
    /\ WorkerFree
    /\ inOp[s] = "accepted"
    /\ inOp' = [inOp EXCEPT ![s] = "none"]
    /\ Step(s, "idle", "add")
    /\ UNCHANGED <<left, during, clients, noteVars>>

AddClient(s) ==
    /\ Free
    /\ clients' = clients \cup {s}
    /\ Step(s, "add", "greet")
    /\ UNCHANGED <<inOp, left, during, noteVars>>

ConnectHandler(s) ==
    /\ connects' = [connects EXCEPT ![s] = @ + 1]
    /\ Enters(s, "greet", "connect")
    /\ UNCHANGED <<inOp, left, clients, disconnects>>

\* onRead with a message: every handler of messageHandlers_ is called, in an
\* order of the map's choosing, before the next read.
OnReadMessage(s) ==
    /\ WorkerFree
    /\ inOp[s] = "message"
    /\ inOp' = [inOp EXCEPT ![s] = "none"]
    /\ left' = [left EXCEPT ![s] = Paths]
    /\ Step(s, "idle", "dispatch")
    /\ UNCHANGED <<during, clients, noteVars>>

CallHandler(s) ==
    /\ \E p \in left[s] : left' = [left EXCEPT ![s] = @ \ {p}]
    /\ Enters(s, "dispatch", "message")
    /\ UNCHANGED <<inOp, clients, noteVars>>

\* In a message handler the application may call the callback it was given,
\* which calls send() on this strand without clientsMutex_.
Reply(s) ==
    /\ pc[s] = "handler" /\ during[s] = "message"
    /\ pushed[s] < MaxSends
    /\ Goto(s, "test")
    /\ to' = [to EXCEPT ![s] = s]
    /\ UNCHANGED <<streamVars, wip, serverVars>>

\* onAccept and the loop of onRead go on; onRead and onWrite return after
\* disconnectHandler_.
HandlerReturns(s) ==
    /\ Step(s, "handler", IF during[s] = "disconnect" THEN "idle" ELSE "dispatch")
    /\ during' = [during EXCEPT ![s] = "none"]
    /\ UNCHANGED <<inOp, left, clients, noteVars>>

DoRead(s) ==
    /\ left[s] = {}
    /\ inOp' = [inOp EXCEPT ![s] = "read"]
    /\ Step(s, "dispatch", "idle")
    /\ UNCHANGED <<left, during, clients, noteVars>>

\* onRead with error::closed or any other error.
OnReadEnd(s) ==
    /\ WorkerFree
    /\ inOp[s] \in {"closed", "error"}
    /\ connects[s] > 0
    /\ inOp' = [inOp EXCEPT ![s] = "none"]
    /\ Step(s, "idle", "remove")
    /\ UNCHANGED <<left, during, clients, noteVars>>

Remove(S, s) == S \ {s}

RemoveClient(s) ==
    /\ Free
    /\ clients' = Remove(clients, s)
    /\ Step(s, "remove", "notify")
    /\ UNCHANGED <<inOp, left, during, noteVars>>

DisconnectHandler(s) ==
    /\ disconnects' = [disconnects EXCEPT ![s] = @ + 1]
    /\ Enters(s, "notify", "disconnect")
    /\ UNCHANGED <<inOp, left, clients, connects>>

OnWrite(s) ==
    /\ \/ WorkerFree /\ (OnWriteOk(s) \/ OnWriteError(s, "remove"))
       \/ OnWriteNext(s)
    /\ UNCHANGED serverVars

Strand(s) ==
    \/ OnAccept(s) \/ AddClient(s) \/ ConnectHandler(s)
    \/ OnReadMessage(s) \/ CallHandler(s) \/ HandlerReturns(s) \/ DoRead(s)
    \/ OnReadEnd(s) \/ RemoveClient(s) \/ DisconnectHandler(s)
    \/ OnWrite(s)

-----------------------------------------------------------------------------
(* Calls of the application, on a thread of its own or in a handler.       *)

Home(a) == IF a \in Threads THEN "idle" ELSE "handler"

Lock(a, op, targets) ==
    /\ Free
    /\ pc[a] = Home(a)
    /\ \A s \in targets : pushed[s] < MaxSends
    /\ mutex' = {a}
    /\ section' = op
    /\ todo' = targets
    /\ reached' = {}
    /\ Goto(a, "loop")
    /\ UNCHANGED <<streamVars, to, wip, ownerVars, readVars, clients, noteVars>>

\* sendToClient() of a client that is not registered returns false and
\* changes nothing, and so does broadcast() when nobody is registered.
SendToClient(a, s) == s \in clients /\ Lock(a, "sendToClient", {s})
Broadcast(a) == clients # {} /\ Lock(a, "broadcast", clients)

\* pair.second->send(message); count++
Visit(a) ==
    /\ pc[a] = "loop"
    /\ \E s \in todo :
          /\ todo' = todo \ {s}
          /\ reached' = reached \cup {s}
          /\ to' = [to EXCEPT ![a] = s]
    /\ Goto(a, "test")
    /\ UNCHANGED <<streamVars, wip, ownerVars, readVars, clients, mutex, section, noteVars>>

\* send() returns to the loop that called it, or to the handler.
Back(a) == IF mutex = {a} THEN "loop" ELSE Home(a)

Sending(a) ==
    /\ SendTest(a) \/ SendPush(a, Back(a)) \/ SendStart(a, Back(a))
    /\ UNCHANGED serverVars

\* The call is over: where its sends went is forgotten.
Unlock(a) ==
    /\ pc[a] = "loop"
    /\ todo = {}
    /\ mutex' = {}
    /\ section' = "none"
    /\ reached' = {}
    /\ to' = IF a \in Sessions THEN [to EXCEPT ![a] = a] ELSE to
    /\ Goto(a, Home(a))
    /\ UNCHANGED <<streamVars, wip, ownerVars, readVars, clients, todo, noteVars>>

\* disconnectClient() only takes the client out of the registry.
DisconnectClient(a, s) ==
    /\ Free
    /\ pc[a] = Home(a)
    /\ s \in clients
    /\ clients' = Remove(clients, s)
    /\ UNCHANGED <<sessionVars, ownerVars, readVars, mutexVars, noteVars>>

Caller(a) == Visit(a) \/ Sending(a) \/ Unlock(a)

-----------------------------------------------------------------------------

Next ==
    /\ Alive
    /\ \/ Owner
       \/ \E s \in Sessions : Accept(s) \/ Network(s) \/ Strand(s) \/ Reply(s)
       \/ \E a \in Actors : Caller(a) \/ Broadcast(a)
       \/ \E a \in Actors, s \in Sessions : SendToClient(a, s) \/ DisconnectClient(a, s)

Spec == Init /\ [][Next]_vars

\* The owner finishes the calls it makes; threads and handlers run on, and the
\* application's handlers return.  asio queues ready handlers first in, first
\* out, so one that keeps becoming able to run does run, and so does a strand
\* that keeps finding clientsMutex_ free.  Each async_write ends.
FairSpec ==
    /\ Spec
    /\ WF_vars(Alive /\ (StartThreads \/ StartReturns \/ StopReturns))
    /\ \A a \in Actors : WF_vars(Alive /\ Caller(a))
    /\ \A s \in Sessions : SF_vars(Alive /\ Strand(s))
    /\ \A s \in Sessions : WF_vars(Alive /\ Transport(s) /\ UNCHANGED serverVars)

-----------------------------------------------------------------------------
(* Properties.                                                             *)

StrandPcs == {"add", "greet", "dispatch", "handler", "remove", "notify"}

\* Every variable has its type, and clientsMutex_ has at most one holder.
TypeOK ==
    /\ StreamTypeOK
    /\ pc \in [Actors -> SendPcs \cup StrandPcs \cup {"idle", "next", "loop"}]
    /\ owner \in {"out", "listening", "started", "threw", "joining"}
    /\ starts \in 0..MaxStarts
    /\ running \in BOOLEAN
    /\ iocStopped \in BOOLEAN
    /\ workers \in 0..NThreads
    /\ accepting \in BOOLEAN
    /\ inOp \in [Sessions -> {"new", "handshake", "accepted", "none",
                              "read", "message", "closed", "error"}]
    /\ inbox \in [Sessions -> 0..MaxIn]
    /\ left \in [Sessions -> SUBSET Paths]
    /\ during \in [Sessions -> {"none", "connect", "message", "disconnect"}]
    /\ clients \subseteq Sessions
    /\ mutex = {} \/ \E a \in Actors : mutex = {a}
    /\ section \in {"none", "sendToClient", "broadcast"}
    /\ todo \subseteq Sessions
    /\ reached \subseteq Sessions
    /\ connects \in [Sessions -> Nat]
    /\ disconnects \in [Sessions -> Nat]

\* sendToClient() and broadcast() hold pointers into clients_ while they run
\* send(): what they visit stays registered, whatever sessions end meanwhile.
PinnedWhileUsed ==
    /\ todo \subseteq clients
    /\ \A a \in Actors : mutex = {a} /\ pc[a] \in SendPcs => to[a] \in clients

\* broadcast() calls send() for every registered client once and counts each: what
\* it has reached and what it has not are, at every step, the clients of clients_.
\* Whether a client it counts receives anything is CountsReceivers.
BroadcastExact ==
    section = "broadcast" => reached \cup todo = clients /\ reached \cap todo = {}

\* "@return Number of clients that successfully received the message": a client that
\* broadcast() counts is connected when it is counted, or it can receive nothing.
CountsReceivers ==
    [][section = "broadcast" => \A s \in reached' \ reached : up[s]]_vars

\* A client whose end was reported is not in clients_, where sendToClient()
\* and broadcast() would go on sending to it.
GoneIsUnlisted == \A s \in Sessions : disconnects[s] > 0 => s \notin clients

\* The application hears of a client first by its connect handler, once: no
\* message and no end of a client it has not been told of, and none registered
\* that it will not be told of.
ConnectFirst ==
    \A s \in Sessions :
        /\ connects[s] <= 1
        /\ \/ pc[s] \in {"handler", "remove", "notify"}
           \/ disconnects[s] > 0
           \/ inOp[s] \in {"read", "message", "closed"}
           => connects[s] = 1
        /\ s \in clients => connects[s] = 1 \/ pc[s] = "greet"

\* The end of a client is reported at most twice, by the read that fails and
\* by the write that fails: neither loop goes on after an error.
NoticesBounded == \A s \in Sessions : disconnects[s] <= 2

\* The end of a connected client is reported, unless the server is stopped.
LossReported ==
    \A s \in Sessions :
        ~up[s] /\ connects[s] = 1 ~> disconnects[s] > 0 \/ iocStopped \/ ~Alive

\* stop() does not stay in its joins: no worker it joins waits for clientsMutex_ for
\* ever, whoever holds it and whoever else wants it.
StopEnds == []<>(owner # "joining" \/ ~Alive)

\* What any handler pushes for any client is written, unless the connection fails or
\* the server stops: where a send() finds the queue non-empty and leaves its message
\* to onWrite(), onWrite() comes for it.
Served ==
    \A s \in Sessions :
        []<>(Len(wire[s]) = pushed[s] \/ ~up[s] \/ iocStopped \/ ~Alive)
=============================================================================
