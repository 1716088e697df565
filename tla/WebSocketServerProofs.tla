------------------------ MODULE WebSocketServerProofs ------------------------
(***************************************************************************)
(* Proofs about WebSocketServer, for any clients, workers, threads of the  *)
(* application, handlers and bounds.                                       *)
(*                                                                         *)
(* The types rest on what WsSessionProofs shows of the streams.  Locked    *)
(* says what clientsMutex_ protects while it is held across steps, Lives   *)
(* where in its life each session is; Alone and Notices are about servers  *)
(* with one worker.                                                        *)
(***************************************************************************)
EXTENDS WebSocketServer, WsSessionProofs, FiniteSetTheorems

\* The part of TypeOK that is the server's own, with the states of the mutex left out.
ServerTypeOK ==
    /\ pc \in [Actors -> SendPcs \cup StrandPcs \cup {"idle", "next", "loop"}]
    /\ owner \in {"out", "listening", "started", "threw", "joining"}
    /\ starts \in 0..MaxStarts
    /\ running \in BOOLEAN
    /\ iocStopped \in BOOLEAN
    /\ workers \in 0..NThreads
    /\ accepting \in BOOLEAN
    /\ inOp \in [Sessions -> {"new", "handshake", "accepted", "none",
                              "read", "message", "closed", "error"}]
    /\ inbox \in [Sessions -> 0..MaxIn]
    /\ left \in [Sessions -> SUBSET Paths]
    /\ during \in [Sessions -> {"none", "connect", "message", "disconnect"}]
    /\ clients \subseteq Sessions
    /\ mutex = {} \/ \E a \in Actors : mutex = {a}
    /\ section \in {"none", "sendToClient", "broadcast"}
    /\ todo \subseteq Sessions
    /\ reached \subseteq Sessions
    /\ connects \in [Sessions -> Nat]
    /\ disconnects \in [Sessions -> Nat]

\* The labels send() returns to.
Returns == {"idle", "handler", "loop"}

-----------------------------------------------------------------------------
(* Types.                                                                  *)

USE DEF Step, Enters, Goto, SendPcs, streamVars, callVars, sessionVars, readVars, ownerVars,
        mutexVars, noteVars, serverVars

LEMMA ServerTypeInit == Init => StreamInv /\ ServerTypeOK
<1> SUFFICES ASSUME Init
             PROVE  StreamInv /\ ServerTypeOK
  OBVIOUS
<1>1. StreamInv
  BY StreamInit DEF Init
<1>2. /\ starts \in 0..MaxStarts
      /\ workers \in 0..NThreads
      /\ inbox \in [Sessions -> 0..MaxIn]
      /\ connects \in [Sessions -> Nat]
      /\ disconnects \in [Sessions -> Nat]
  BY WebSocketServerAssumption DEF Init
<1>3. /\ pc \in [Actors -> SendPcs \cup StrandPcs \cup {"idle", "next", "loop"}]
      /\ inOp \in [Sessions -> {"new", "handshake", "accepted", "none",
                                "read", "message", "closed", "error"}]
      /\ left \in [Sessions -> SUBSET Paths]
      /\ during \in [Sessions -> {"none", "connect", "message", "disconnect"}]
  BY DEF Init, SessionInit
<1>4. ServerTypeOK
  BY <1>2, <1>3 DEF Init, ServerTypeOK
<1>5. QED
  BY <1>1, <1>4

\* send() returns to the loop under the mutex, to a handler or to a thread.
LEMMA Returning ==
    ASSUME NEW a \in Actors
    PROVE  Back(a) \in Returns /\ Home(a) \in Returns
BY DEF Back, Home, Returns

\* What the server adds to the steps of a session leaves its stream alone, but
\* for the end of the connection or of the process.
LEMMA ServerStreamNext == StreamInv /\ ServerTypeOK /\ [Next]_vars => StreamInv'
<1> SUFFICES ASSUME StreamInv, ServerTypeOK, [Next]_vars
             PROVE  StreamInv'
  OBVIOUS
<1> USE DEF StreamInv, StreamTypeOK, HeldWhileWriting, Actors
<1>1. CASE UNCHANGED vars
  BY <1>1 DEF vars
<1>2. CASE Owner
  BY <1>2 DEF Owner, StartListening, StartThreads, StartReturns, Stop, StopReturns
<1>3. ASSUME NEW s \in Sessions, Accept(s)
      PROVE  StreamInv'
  BY <1>3 DEF Accept
<1>4. ASSUME NEW s \in Sessions, Network(s)
      PROVE  StreamInv'
  <2>1. CASE Transport(s)
    BY <2>1, StreamNext
  <2>2. CASE ~Transport(s)
    BY <1>4, <2>2 DEF Network, PeerUpgrades, PeerSends, PeerCloses, InFails, Arrives
  <2>3. QED
    BY <2>1, <2>2
<1>5. ASSUME NEW s \in Sessions, Strand(s)
      PROVE  StreamInv'
  <2>1. CASE OnWrite(s)
    BY <2>1, StreamNext DEF OnWrite
  <2>2. CASE ~OnWrite(s)
    <3>1. UNCHANGED <<streamVars, to, wip>>
      BY <1>5, <2>2 DEF Strand, OnAccept, AddClient, ConnectHandler, OnReadMessage,
            CallHandler, HandlerReturns, DoRead, OnReadEnd, RemoveClient, DisconnectHandler
    <3>2. QED
      BY <3>1
  <2>3. QED
    BY <2>1, <2>2
<1>6. ASSUME NEW s \in Sessions, Reply(s)
      PROVE  StreamInv'
  BY <1>6 DEF Reply
<1>7. ASSUME NEW a \in Actors, Caller(a)
      PROVE  StreamInv'
  <2>1. CASE Sending(a)
    <3>1. \E label \in Returns : SendTest(a) \/ SendPush(a, label) \/ SendStart(a, label)
      BY <2>1, Returning DEF Sending
    <3>2. QED
      BY <3>1, StreamNext
  <2>2. CASE Visit(a)
    <3>1. PICK s \in Sessions : to' = [to EXCEPT ![a] = s]
      BY <2>2 DEF Visit, ServerTypeOK
    <3>2. UNCHANGED <<streamVars, wip>>
      BY <2>2 DEF Visit
    <3>3. QED
      BY <3>1, <3>2
  <2>3. CASE Unlock(a)
    BY <2>3 DEF Unlock
  <2>4. QED
    BY <1>7, <2>1, <2>2, <2>3 DEF Caller
<1>8. ASSUME NEW a \in Actors, NEW S, NEW op, Lock(a, op, S)
      PROVE  StreamInv'
  BY <1>8 DEF Lock
<1>9. ASSUME NEW a \in Actors, NEW s \in Sessions, DisconnectClient(a, s)
      PROVE  StreamInv'
  BY <1>9 DEF DisconnectClient
<1>10. QED
  BY <1>1, <1>2, <1>3, <1>4, <1>5, <1>6, <1>7, <1>8, <1>9
     DEF Next, Broadcast, SendToClient

LEMMA ServerTypeNext == StreamInv /\ ServerTypeOK /\ [Next]_vars => ServerTypeOK'
<1> SUFFICES ASSUME StreamInv, ServerTypeOK, [Next]_vars
             PROVE  ServerTypeOK'
  OBVIOUS
<1> USE DEF ServerTypeOK, Actors, StrandPcs
<1>0. to \in [Actors -> Sessions]
  BY DEF StreamInv, StreamTypeOK
<1>1. CASE UNCHANGED vars
  BY <1>1 DEF vars
<1>2. CASE Owner
  <2>1. CASE StartListening
    <3>1. starts' \in 0..MaxStarts
      BY <2>1, WebSocketServerAssumption DEF StartListening
    <3>2. QED
      BY <2>1, <3>1 DEF StartListening
  <2>2. CASE StartThreads
    <3>1. workers' \in 0..NThreads
      BY <2>2, WebSocketServerAssumption DEF StartThreads, PoolSize
    <3>2. QED
      BY <2>2, <3>1 DEF StartThreads
  <2>3. CASE StopReturns
    <3>1. workers' \in 0..NThreads
      BY <2>3, WebSocketServerAssumption DEF StopReturns
    <3>2. QED
      BY <2>3, <3>1 DEF StopReturns
  <2>4. CASE StartReturns \/ Stop
    BY <2>4 DEF StartReturns, Stop
  <2>5. QED
    BY <1>2, <2>1, <2>2, <2>3, <2>4 DEF Owner
<1>3. ASSUME NEW s \in Sessions, Accept(s)
      PROVE  ServerTypeOK'
  BY <1>3 DEF Accept
<1>4. ASSUME NEW s \in Sessions, Network(s)
      PROVE  ServerTypeOK'
  <2>1. CASE PeerSends(s)
    <3>1. inbox' \in [Sessions -> 0..MaxIn]
      BY <2>1, WebSocketServerAssumption DEF PeerSends
    <3>2. QED
      BY <2>1, <3>1 DEF PeerSends, Arrives
  <2>2. CASE PeerUpgrades(s) \/ PeerCloses(s) \/ InFails(s)
    BY <2>2 DEF PeerUpgrades, PeerCloses, InFails, Arrives
  <2>3. CASE Transport(s) /\ UNCHANGED serverVars
    BY <2>3 DEF Transport, WriteDone, WriteFails
  <2>4. QED
    BY <1>4, <2>1, <2>2, <2>3 DEF Network
<1>5. ASSUME NEW s \in Sessions, OnAccept(s) \/ AddClient(s) \/ ConnectHandler(s)
      PROVE  ServerTypeOK'
  BY <1>5 DEF OnAccept, AddClient, ConnectHandler
<1>6. ASSUME NEW s \in Sessions,
             OnReadMessage(s) \/ CallHandler(s) \/ HandlerReturns(s) \/ DoRead(s)
      PROVE  ServerTypeOK'
  BY <1>6 DEF OnReadMessage, CallHandler, HandlerReturns, DoRead
<1>7. ASSUME NEW s \in Sessions, OnReadEnd(s) \/ RemoveClient(s) \/ DisconnectHandler(s)
      PROVE  ServerTypeOK'
  BY <1>7 DEF OnReadEnd, RemoveClient, Remove, DisconnectHandler
<1>8. ASSUME NEW s \in Sessions, OnWrite(s)
      PROVE  ServerTypeOK'
  BY <1>8 DEF OnWrite, OnWriteOk, OnWriteError, OnWriteNext
<1>9. ASSUME NEW s \in Sessions, Reply(s)
      PROVE  ServerTypeOK'
  BY <1>9 DEF Reply
<1>10. ASSUME NEW a \in Actors, Sending(a)
       PROVE  ServerTypeOK'
  BY <1>10, Returning DEF Sending, SendTest, SendPush, SendStart, Returns
<1>11. ASSUME NEW a \in Actors, Visit(a)
       PROVE  ServerTypeOK'
  BY <1>11 DEF Visit
<1>12. ASSUME NEW a \in Actors, Unlock(a)
       PROVE  ServerTypeOK'
  BY <1>12, Returning DEF Unlock, Returns
<1>13. ASSUME NEW a \in Actors, NEW S \in SUBSET Sessions,
              NEW op \in {"sendToClient", "broadcast"}, Lock(a, op, S)
       PROVE  ServerTypeOK'
  BY <1>13 DEF Lock
<1>14. ASSUME NEW a \in Actors, NEW s \in Sessions, DisconnectClient(a, s)
       PROVE  ServerTypeOK'
  BY <1>14 DEF DisconnectClient, Remove
<1>15. QED
  BY <1>1, <1>2, <1>3, <1>4, <1>5, <1>6, <1>7, <1>8, <1>9, <1>10, <1>11, <1>12, <1>13,
     <1>14 DEF Next, Strand, Caller, Broadcast, SendToClient

\* Every variable of the server and of its sessions' streams keeps its type;
\* clientsMutex_ never has two holders.
THEOREM WsTypeCorrect == Spec => []TypeOK
<1>1. StreamInv /\ ServerTypeOK => TypeOK
  BY DEF StreamInv, ServerTypeOK, TypeOK
<1>2. QED
  BY <1>1, ServerTypeInit, ServerStreamNext, ServerTypeNext, PTL DEF Spec

-----------------------------------------------------------------------------
(* clientsMutex_.                                                          *)

\* One actor at most is between Lock and Unlock, at a label that says so, and
\* what its loop has visited and has to visit are registered clients.
Locked ==
    /\ mutex = {} => section = "none" /\ todo = {}
    /\ \A a \in Actors : pc[a] = "loop" => mutex = {a}
    /\ \A a \in Actors : mutex = {a} => pc[a] \in SendPcs \cup {"loop"}
    /\ \A t \in Threads : pc[t] \in SendPcs => mutex = {t}
    /\ \A t \in Threads : pc[t] \in SendPcs \cup {"idle", "loop"}
    /\ PinnedWhileUsed
    /\ BroadcastExact

LEMMA LockedInit == Init => Locked
BY WsSessionAssumption
   DEF Init, SessionInit, Locked, PinnedWhileUsed, BroadcastExact, Actors

\* What is done to clients_ waits for the mutex, and what is done under the
\* mutex leaves clients_ as it is.
LEMMA LockedNext ==
    StreamInv /\ ServerTypeOK /\ Locked /\ [Next]_vars => Locked'
<1> SUFFICES ASSUME StreamInv, ServerTypeOK, Locked, [Next]_vars
             PROVE  Locked'
  OBVIOUS
<1> USE WsSessionAssumption DEF Locked, PinnedWhileUsed, BroadcastExact, Actors
<1>0. /\ pc \in [Actors -> SendPcs \cup StrandPcs \cup {"idle", "next", "loop"}]
      /\ to \in [Actors -> Sessions]
      /\ mutex = {} \/ \E a \in Actors : mutex = {a}
      /\ clients \subseteq Sessions
  BY DEF ServerTypeOK, StreamInv, StreamTypeOK
<1>1. CASE UNCHANGED vars
  BY <1>1 DEF vars
<1>2. CASE Owner
  BY <1>2 DEF Owner, StartListening, StartThreads, StartReturns, Stop, StopReturns
<1>3. ASSUME NEW s \in Sessions, Accept(s) \/ Network(s)
      PROVE  Locked'
  BY <1>3 DEF Accept, Network, PeerUpgrades, PeerSends, PeerCloses, InFails, Arrives,
              Transport, WriteDone, WriteFails
<1>4. ASSUME NEW s \in Sessions, AddClient(s) \/ RemoveClient(s)
      PROVE  Locked'
  BY <1>0, <1>4 DEF AddClient, RemoveClient, Remove, Free
<1>5. ASSUME NEW s \in Sessions,
             \/ OnAccept(s) \/ ConnectHandler(s)
             \/ OnReadMessage(s) \/ CallHandler(s) \/ HandlerReturns(s) \/ DoRead(s)
             \/ OnReadEnd(s) \/ DisconnectHandler(s)
      PROVE  Locked'
  BY <1>0, <1>5 DEF OnAccept, ConnectHandler, OnReadMessage, CallHandler, HandlerReturns,
                    DoRead, OnReadEnd, DisconnectHandler
<1>6. ASSUME NEW s \in Sessions, OnWrite(s)
      PROVE  Locked'
  BY <1>0, <1>6 DEF OnWrite, OnWriteOk, OnWriteError, OnWriteNext
<1>7. ASSUME NEW s \in Sessions, Reply(s)
      PROVE  Locked'
  BY <1>0, <1>7 DEF Reply
<1>8. ASSUME NEW a \in Actors, Sending(a)
      PROVE  Locked'
  BY <1>0, <1>8 DEF Sending, SendTest, SendPush, SendStart, Back, Home
<1>9. ASSUME NEW a \in Actors, Visit(a)
      PROVE  Locked'
  BY <1>0, <1>9 DEF Visit
<1>10. ASSUME NEW a \in Actors, Unlock(a)
       PROVE  Locked'
  BY <1>0, <1>10 DEF Unlock, Home
<1>11. ASSUME NEW a \in Actors, NEW S \in SUBSET clients, NEW op, Lock(a, op, S),
              op = "broadcast" => S = clients
       PROVE  Locked'
  BY <1>0, <1>11 DEF Lock, Free, Home
<1>12. ASSUME NEW a \in Actors, NEW s \in Sessions, DisconnectClient(a, s)
       PROVE  Locked'
  BY <1>0, <1>12 DEF DisconnectClient, Remove, Free, Home
<1> HIDE DEF Locked, PinnedWhileUsed, BroadcastExact
<1>13. QED
  BY <1>1, <1>2, <1>3, <1>4, <1>5, <1>6, <1>7, <1>8, <1>9, <1>10, <1>11, <1>12
     DEF Next, Strand, Caller, Broadcast, SendToClient

\* What sendToClient() and broadcast() visit stays registered while they run.
THEOREM WsPinned == Spec => []PinnedWhileUsed
<1>1. Locked => PinnedWhileUsed
  BY DEF Locked
<1>2. QED
  BY <1>1, ServerTypeInit, ServerStreamNext, ServerTypeNext, LockedInit, LockedNext, PTL
     DEF Spec

\* broadcast() reaches each registered client, once.
THEOREM WsBroadcastExact == Spec => []BroadcastExact
<1>1. Locked => BroadcastExact
  BY DEF Locked
<1>2. QED
  BY <1>1, ServerTypeInit, ServerStreamNext, ServerTypeNext, LockedInit, LockedNext, PTL
     DEF Spec

-----------------------------------------------------------------------------
(* The lives of the sessions.                                              *)

\* Nobody can have sent to a client that was never registered.
Unknown(s) ==
    /\ s \notin clients
    /\ writeOp[s] = "none"
    /\ \A a \in Actors : pc[a] \in SendPcs => to[a] # s

\* A session is not announced before onAccept, announced once in it, then read,
\* and once it is unregistered by its own end it is registered no more.
Lived(s) ==
    /\ inOp[s] \in {"new", "handshake", "accepted"} => connects[s] = 0 /\ pc[s] = "idle"
    /\ pc[s] \in {"add", "greet"} => connects[s] = 0 /\ inOp[s] = "none"
    /\ connects[s] = 0 => pc[s] \in {"idle", "add", "greet"} /\ disconnects[s] = 0
    /\ connects[s] = 0 /\ pc[s] # "greet" => Unknown(s)
    /\ connects[s] \in {0, 1}
    /\ inOp[s] \in {"read", "message", "closed"} => connects[s] = 1
    /\ pc[s] = "notify" \/ disconnects[s] > 0 => s \notin clients
    /\ pc[s] \in SendPcs /\ mutex # {s} => to[s] = s

Lives == \A s \in Sessions : Lived(s)

LEMMA LivesInit == Init => Lives
<1> SUFFICES ASSUME Init, NEW s \in Sessions
             PROVE  Lived(s)
  BY DEF Lives
<1>1. /\ pc[s] = "idle" /\ inOp[s] = "new" /\ connects[s] = 0 /\ disconnects[s] = 0
      /\ writeOp[s] = "none" /\ clients = {}
      /\ \A a \in Actors : pc[a] = "idle"
  BY DEF Init, SessionInit, Actors
<1>2. QED
  BY <1>1 DEF Lived, Unknown

LEMMA LivesNext ==
    StreamInv /\ ServerTypeOK /\ Locked /\ Lives /\ [Next]_vars => Lives'
<1> SUFFICES ASSUME StreamInv, ServerTypeOK, Locked, Lives, [Next]_vars
             PROVE  Lives'
  OBVIOUS
<1> USE WsSessionAssumption DEF Lives, Lived, Unknown, Actors
<1>0. /\ pc \in [Actors -> SendPcs \cup StrandPcs \cup {"idle", "next", "loop"}]
      /\ to \in [Actors -> Sessions]
      /\ writeOp \in [Sessions -> {"none", "pending", "ok", "error"}]
      /\ inOp \in [Sessions -> {"new", "handshake", "accepted", "none",
                                "read", "message", "closed", "error"}]
      /\ connects \in [Sessions -> Nat] /\ disconnects \in [Sessions -> Nat]
      /\ clients \subseteq Sessions
      /\ todo \subseteq clients
      /\ \A a \in Actors : pc[a] = "loop" => mutex = {a}
      /\ \A t \in Threads : pc[t] \in SendPcs => mutex = {t}
  BY DEF ServerTypeOK, StreamInv, StreamTypeOK, Locked, PinnedWhileUsed
<1>1. CASE UNCHANGED vars
  BY <1>1 DEF vars
<1>2. CASE Owner
  BY <1>2 DEF Owner, StartListening, StartThreads, StartReturns, Stop, StopReturns
<1>3. ASSUME NEW s \in Sessions, Accept(s)
      PROVE  Lives'
  <2>1. inOp' = inOp \/ (inOp[s] = "new" /\ inOp' = [inOp EXCEPT ![s] = "handshake"])
    BY <1>3 DEF Accept
  <2>2. UNCHANGED <<pc, to, writeOp, clients, mutex, connects, disconnects>>
    BY <1>3 DEF Accept
  <2>3. QED
    BY <1>0, <2>1, <2>2
<1>4. ASSUME NEW s \in Sessions, Network(s)
      PROVE  Lives'
  <2>1. UNCHANGED <<pc, to, clients, mutex, connects, disconnects>>
    BY <1>4 DEF Network, PeerUpgrades, PeerSends, PeerCloses, InFails, Arrives,
                Transport, WriteDone, WriteFails
  <2>2. CASE Transport(s) /\ UNCHANGED serverVars
    <3>1. inOp' = inOp
      BY <2>2
    <3>2. \A r \in Sessions : writeOp[r] = "none" => writeOp'[r] = "none"
      BY <1>0, <2>2 DEF Transport, WriteDone, WriteFails
    <3>3. QED
      BY <1>0, <2>1, <3>1, <3>2
  <2>3. CASE PeerUpgrades(s) \/ PeerSends(s) \/ PeerCloses(s) \/ InFails(s)
    <3>1. writeOp' = writeOp
      BY <2>3 DEF PeerUpgrades, PeerSends, PeerCloses, InFails, Arrives
    <3>2. CASE PeerUpgrades(s)
      BY <1>0, <2>1, <3>1, <3>2 DEF PeerUpgrades, Arrives
    <3>3. CASE PeerSends(s)
      BY <1>0, <2>1, <3>1, <3>3 DEF PeerSends, Arrives
    <3>4. CASE PeerCloses(s)
      BY <1>0, <2>1, <3>1, <3>4 DEF PeerCloses, Arrives
    <3>5. CASE InFails(s)
      <4>1. inOp[s] \in {"handshake", "read"} /\ inOp' = [inOp EXCEPT ![s] = "error"]
        BY <3>5 DEF InFails, Arrives
      <4>2. QED
        BY <1>0, <2>1, <3>1, <4>1
    <3>6. QED
      BY <2>3, <3>2, <3>3, <3>4, <3>5
  <2>4. QED
    BY <1>4, <2>2, <2>3 DEF Network
<1>5. ASSUME NEW s \in Sessions, OnAccept(s) \/ AddClient(s) \/ ConnectHandler(s)
      PROVE  Lives'
  BY <1>0, <1>5 DEF OnAccept, AddClient, ConnectHandler
<1>6. ASSUME NEW s \in Sessions,
             OnReadMessage(s) \/ CallHandler(s) \/ HandlerReturns(s) \/ DoRead(s)
      PROVE  Lives'
  BY <1>0, <1>6 DEF OnReadMessage, CallHandler, HandlerReturns, DoRead
<1>7. ASSUME NEW s \in Sessions, OnReadEnd(s) \/ RemoveClient(s) \/ DisconnectHandler(s)
      PROVE  Lives'
  <2>1. CASE OnReadEnd(s)
    BY <1>0, <2>1 DEF OnReadEnd
  <2>2. CASE RemoveClient(s)
    BY <1>0, <2>2 DEF RemoveClient, Remove
  <2>3. CASE DisconnectHandler(s)
    BY <1>0, <2>3 DEF DisconnectHandler
  <2>4. QED
    BY <1>7, <2>1, <2>2, <2>3
<1>8. ASSUME NEW s \in Sessions, OnWrite(s)
      PROVE  Lives'
  BY <1>0, <1>8 DEF OnWrite, OnWriteOk, OnWriteError, OnWriteNext, DoWrite
<1>9. ASSUME NEW s \in Sessions, Reply(s)
      PROVE  Lives'
  BY <1>0, <1>9 DEF Reply
<1>10. ASSUME NEW a \in Actors, Sending(a)
       PROVE  Lives'
  <2>1. /\ pc[a] \in SendPcs
        /\ UNCHANGED <<to, clients, mutex, inOp, connects, disconnects>>
    BY <1>10 DEF Sending, SendTest, SendPush, SendStart
  <2>2. pc' = [pc EXCEPT ![a] = pc'[a]] /\ pc'[a] \in SendPcs \cup Returns
    BY <1>0, <1>10, Returning DEF Sending, SendTest, SendPush, SendStart
  <2>3. a \in Sessions => pc'[a] \in SendPcs \cup {"handler", "loop"}
    BY <1>0, <1>10 DEF Sending, SendTest, SendPush, SendStart, Back, Home
  <2>4. \A s \in Sessions : s # to[a] => writeOp'[s] = writeOp[s]
    BY <1>0, <1>10 DEF Sending, SendTest, SendPush, SendStart, DoWrite
  <2>5. QED
    BY <1>0, <2>1, <2>2, <2>3, <2>4 DEF Returns
<1>11. ASSUME NEW a \in Actors, Visit(a)
       PROVE  Lives'
  BY <1>0, <1>11 DEF Visit
<1>12. ASSUME NEW a \in Actors, Unlock(a)
       PROVE  Lives'
  <2>1. /\ pc[a] = "loop" /\ mutex = {a} /\ mutex' = {}
        /\ UNCHANGED <<writeOp, clients, inOp, connects, disconnects>>
    BY <1>0, <1>12 DEF Unlock
  <2>2. pc' = [pc EXCEPT ![a] = IF a \in Threads THEN "idle" ELSE "handler"]
    BY <1>12 DEF Unlock, Home
  <2>3. \A b \in Actors : b # a => to'[b] = to[b]
    BY <1>0, <1>12 DEF Unlock
  <2>4. ASSUME NEW s \in Sessions
        PROVE  Unknown(s) => Unknown(s)'
    BY <1>0, <2>1, <2>2, <2>3
  <2>5. ASSUME NEW s \in Sessions, s # a
        PROVE  Lived(s)'
    <3>1. pc'[s] = pc[s]
      BY <1>0, <2>2, <2>5
    <3>2. to'[s] = to[s]
      BY <2>3, <2>5
    <3>3. mutex # {s}
      BY <2>1, <2>5
    <3>4. QED
      BY <2>1, <2>4, <2>5, <3>1, <3>2, <3>3
  <2>6. ASSUME a \in Sessions
        PROVE  Lived(a)'
    BY <1>0, <2>1, <2>2, <2>6
  <2>7. QED
    BY <2>5, <2>6
<1>13. ASSUME NEW a \in Actors, NEW S \in SUBSET clients, NEW op, Lock(a, op, S)
       PROVE  Lives'
  BY <1>0, <1>13 DEF Lock, Free, Home
<1>14. ASSUME NEW a \in Actors, NEW s \in Sessions, DisconnectClient(a, s)
       PROVE  Lives'
  BY <1>0, <1>14 DEF DisconnectClient, Remove
<1> HIDE DEF Lives, Lived, Unknown
<1>15. QED
  BY <1>1, <1>2, <1>3, <1>4, <1>5, <1>6, <1>7, <1>8, <1>9, <1>10, <1>11, <1>12, <1>13,
     <1>14 DEF Next, Strand, Caller, Broadcast, SendToClient

\* The application hears of a client first by its connect handler, once.
THEOREM WsConnectFirst == Spec => []ConnectFirst
<1>1. ServerTypeOK /\ Lives => ConnectFirst
  <2> SUFFICES ASSUME Lives, NEW s \in Sessions
               PROVE  /\ connects[s] <= 1
                      /\ \/ pc[s] \in {"handler", "remove", "notify"}
                         \/ disconnects[s] > 0
                         \/ inOp[s] \in {"read", "message", "closed"}
                         => connects[s] = 1
                      /\ s \in clients => connects[s] = 1 \/ pc[s] = "greet"
    BY DEF ConnectFirst
  <2>1. Lived(s)
    BY DEF Lives
  <2>2. QED
    BY <2>1 DEF Lived, Unknown
<1>2. QED
  BY <1>1, ServerTypeInit, ServerStreamNext, ServerTypeNext, LockedInit, LockedNext,
     LivesInit, LivesNext, PTL DEF Spec

\* A client whose end was reported is registered no more.
THEOREM WsGoneIsUnlisted == Spec => []GoneIsUnlisted
<1>1. Lives => GoneIsUnlisted
  BY DEF Lives, Lived, GoneIsUnlisted
<1>2. QED
  BY <1>1, ServerTypeInit, ServerStreamNext, ServerTypeNext, LockedInit, LockedNext,
     LivesInit, LivesNext, PTL DEF Spec

-----------------------------------------------------------------------------
(* One worker.  Handlers do not overlap, so a handler may send to any      *)
(* client as if it were on the client's strand.                            *)

OneWorker == Threads = {} /\ NThreads \in {0, 1} /\ IsFiniteSet(Sessions)

\* Somebody is about to see to the queue of s.
Attended(s) ==
    \/ writeOp[s] # "none"
    \/ pc[s] = "next"
    \/ \E a \in Sessions : to[a] = s /\ pc[a] = "start"

\* The test in send() is still true when it acts on it, and a write starts
\* where there is none.
Alone ==
    /\ ended # "assertion"
    /\ \A r, s \in Sessions : pc[r] # "idle" /\ pc[s] # "idle" => r = s
    /\ \A a \in Sessions : pc[a] = "push" => (wip[a] <=> sendQueue[to[a]] # <<>>)
    /\ \A a \in Sessions :
          pc[a] = "start" => writeOp[to[a]] = "none" /\ sendQueue[to[a]] # <<>>
    /\ \A s \in Sessions : pc[s] = "next" => writeOp[s] = "none"
    /\ \A s \in Sessions : sendQueue[s] # <<>> /\ up[s] => Attended(s)
    /\ \A s \in Sessions : writeOp[s] = "error" => ~up[s]

LEMMA AloneInit == Init => Alone
BY DEF Init, SessionInit, Alone, Actors

\* A worker that is free is the only one.
LEMMA FreeAlone ==
    ASSUME OneWorker, ServerTypeOK, WorkerFree
    PROVE  \A s \in Sessions : pc[s] = "idle"
<1> DEFINE Busy == {s \in Sessions : pc[s] # "idle"}
<1>1. IsFiniteSet(Busy)
  BY FS_Subset DEF OneWorker
<1>2. Cardinality(Busy) \in Nat /\ Cardinality(Busy) < workers /\ workers \in 0..NThreads
  BY <1>1, FS_CardinalityType DEF WorkerFree, ServerTypeOK
<1>3. NThreads \in {0, 1}
  BY DEF OneWorker
<1>4. Cardinality(Busy) = 0
  BY <1>2, <1>3
<1>5. Busy = {}
  BY <1>1, <1>4, FS_EmptySet
<1>6. QED
  BY <1>5

LEMMA AloneNext ==
    OneWorker /\ StreamInv /\ ServerTypeOK /\ Alone /\ [Next]_vars => Alone'
<1> SUFFICES ASSUME OneWorker, StreamInv, ServerTypeOK, Alone, [Next]_vars
             PROVE  Alone'
  OBVIOUS
<1> USE DEF Alone, Attended
<1>0. /\ Actors = Sessions
      /\ pc \in [Sessions -> SendPcs \cup StrandPcs \cup {"idle", "next", "loop"}]
      /\ to \in [Sessions -> Sessions]
      /\ wip \in [Sessions -> BOOLEAN]
      /\ up \in [Sessions -> BOOLEAN]
      /\ sendQueue \in [Sessions -> Seq(Nat)]
      /\ writeOp \in [Sessions -> {"none", "pending", "ok", "error"}]
      /\ \A s \in Sessions : writeOp[s] # "none" => sendQueue[s] # <<>>
  BY DEF OneWorker, Actors, ServerTypeOK, StreamInv, StreamTypeOK, HeldWhileWriting
<1>1. CASE UNCHANGED vars
  BY <1>1 DEF vars
<1>2. CASE Owner
  BY <1>2 DEF Owner, StartListening, StartThreads, StartReturns, Stop, StopReturns
<1>3. ASSUME NEW s \in Sessions, Accept(s)
      PROVE  Alone'
  <2>1. UNCHANGED <<sendQueue, writeOp, up, pc, to, wip>> /\ ended' \in {ended, "exception"}
    BY <1>3 DEF Accept
  <2>2. QED
    BY <2>1
<1>4. ASSUME NEW s \in Sessions, Network(s)
      PROVE  Alone'
  <2>1. /\ UNCHANGED <<sendQueue, pc, to, wip, ended>>
        /\ \A r \in Sessions : up'[r] => up[r]
    BY <1>0, <1>4 DEF Network, PeerUpgrades, PeerSends, PeerCloses, InFails, Arrives,
                      Transport, WriteDone, WriteFails
  <2>2. \A r \in Sessions : /\ writeOp'[r] # "none" <=> writeOp[r] # "none"
                            /\ writeOp'[r] = "error" => writeOp[r] = "error" \/ ~up'[r]
    BY <1>0, <1>4 DEF Network, PeerUpgrades, PeerSends, PeerCloses, InFails, Arrives,
                      Transport, WriteDone, WriteFails
  <2>3. QED
    BY <1>0, <2>1, <2>2
<1>5. ASSUME NEW s \in Sessions, OnAccept(s) \/ OnReadMessage(s) \/ OnReadEnd(s)
      PROVE  Alone'
  BY <1>0, <1>5, FreeAlone DEF OnAccept, OnReadMessage, OnReadEnd
<1>6. ASSUME NEW s \in Sessions,
             \/ AddClient(s) \/ ConnectHandler(s) \/ CallHandler(s) \/ HandlerReturns(s)
             \/ DoRead(s) \/ RemoveClient(s) \/ DisconnectHandler(s)
      PROVE  Alone'
  <2>1. /\ pc[s] \notin {"idle", "next", "push", "start"}
        /\ \E label \in StrandPcs \cup {"idle"} : pc' = [pc EXCEPT ![s] = label]
        /\ UNCHANGED <<sendQueue, writeOp, up, ended, to, wip>>
    BY <1>0, <1>6 DEF AddClient, ConnectHandler, CallHandler, HandlerReturns, DoRead,
                      RemoveClient, DisconnectHandler, StrandPcs
  <2>2. PICK label \in StrandPcs \cup {"idle"} : pc' = [pc EXCEPT ![s] = label]
    BY <2>1
  <2>3. label \notin {"next", "push", "start"}
    BY DEF StrandPcs
  <2>4. \A r \in Sessions : Attended(r) => Attended(r)'
    BY <1>0, <2>1, <2>2
  <2>5. QED
    BY <1>0, <2>1, <2>2, <2>3, <2>4
<1>7. ASSUME NEW s \in Sessions, WorkerFree, OnWriteOk(s) \/ OnWriteError(s, "remove")
      PROVE  Alone'
  <2>1. \A r \in Sessions : pc[r] = "idle"
    BY <1>7, FreeAlone
  <2>2. CASE OnWriteOk(s)
    <3>1. \A r \in Sessions : r # s => sendQueue'[r] = sendQueue[r] /\ writeOp'[r] = writeOp[r]
      BY <1>0, <2>2 DEF OnWriteOk
    <3>2. pc' = [pc EXCEPT ![s] = "next"] /\ writeOp'[s] = "none" /\ UNCHANGED <<up, ended, to>>
      BY <1>0, <2>2 DEF OnWriteOk
    <3>3. QED
      BY <1>0, <2>1, <3>1, <3>2
  <2>3. CASE OnWriteError(s, "remove")
    <3>1. /\ pc' = [pc EXCEPT ![s] = "remove"] /\ ~up[s]
          /\ writeOp' = [writeOp EXCEPT ![s] = "none"]
          /\ UNCHANGED <<sendQueue, up, ended, to>>
      BY <1>0, <2>3 DEF OnWriteError
    <3>2. QED
      BY <1>0, <2>1, <3>1
  <2>4. QED
    BY <1>7, <2>2, <2>3
<1>8. ASSUME NEW s \in Sessions, OnWriteNext(s)
      PROVE  Alone'
  <2>1. /\ pc[s] = "next" /\ pc' = [pc EXCEPT ![s] = "idle"] /\ writeOp[s] = "none"
        /\ \A r \in Sessions : r # s => pc[r] = "idle"
        /\ UNCHANGED <<sendQueue, up, to, wip>>
    BY <1>0, <1>8 DEF OnWriteNext
  <2>2. /\ ended' = ended
        /\ writeOp' = IF sendQueue[s] = <<>> THEN writeOp ELSE [writeOp EXCEPT ![s] = "pending"]
    BY <1>8, <2>1 DEF OnWriteNext, DoWrite
  <2>3. QED
    BY <1>0, <2>1, <2>2
<1>9. ASSUME NEW s \in Sessions, Reply(s)
      PROVE  Alone'
  BY <1>0, <1>9 DEF Reply
<1>10. ASSUME NEW a \in Sessions, SendTest(a)
       PROVE  Alone'
  <2>1. /\ pc[a] = "test" /\ pc' = [pc EXCEPT ![a] = "push"]
        /\ wip' = [wip EXCEPT ![a] = sendQueue[to[a]] # <<>>]
        /\ UNCHANGED <<sendQueue, writeOp, up, ended, to>>
    BY <1>10 DEF SendTest, WriteInProgress
  <2>2. QED
    BY <1>0, <2>1
<1>11. ASSUME NEW a \in Sessions, NEW label \in {"handler", "loop"}, SendPush(a, label)
       PROVE  Alone'
  <2>1. /\ pc[a] = "push" /\ pc' = [pc EXCEPT ![a] = IF wip[a] THEN label ELSE "start"]
        /\ \A r \in Sessions : r # a => pc[r] = "idle"
        /\ UNCHANGED <<writeOp, up, ended, to>>
    BY <1>0, <1>11 DEF SendPush
  <2>2. PICK q \in Seq(Nat) : q # <<>> /\ sendQueue' = [sendQueue EXCEPT ![to[a]] = q]
    <3>1. /\ pushed[to[a]] + 1 \in Nat /\ sendQueue[to[a]] \in Seq(Nat)
          /\ sendQueue' = [sendQueue EXCEPT ![to[a]] =
                              Append(sendQueue[to[a]], pushed[to[a]] + 1)]
      BY <1>0, <1>11 DEF SendPush, PushBack, StreamInv, StreamTypeOK
    <3>2. /\ Append(sendQueue[to[a]], pushed[to[a]] + 1) \in Seq(Nat)
          /\ Append(sendQueue[to[a]], pushed[to[a]] + 1) # <<>>
      BY ONLY <3>1, AppendProperties
    <3>3. QED
      BY <3>1, <3>2
  <2>3. wip[a] <=> sendQueue[to[a]] # <<>>
    BY <1>0, <2>1
  <2>4. \A r \in Sessions : Attended(r) => writeOp[r] # "none"
    BY <1>0, <2>1
  <2>5. writeOp[to[a]] = "none" => ~wip[a] \/ ~up[to[a]]
    BY <1>0, <2>3, <2>4
  <2>6. ~wip[a] => writeOp[to[a]] = "none"
    BY <1>0, <2>3
  <2>7. \A r \in Sessions : sendQueue'[r] # <<>> /\ up'[r] => Attended(r)'
    BY <1>0, <2>1, <2>2, <2>4, <2>5
  <2>8. QED
    BY <1>0, <2>1, <2>2, <2>6, <2>7
<1>12. ASSUME NEW a \in Sessions, NEW label \in {"handler", "loop"}, SendStart(a, label)
       PROVE  Alone'
  <2>1. /\ pc[a] = "start" /\ pc' = [pc EXCEPT ![a] = label]
        /\ writeOp[to[a]] = "none" /\ sendQueue[to[a]] # <<>>
        /\ \A r \in Sessions : r # a => pc[r] = "idle"
        /\ UNCHANGED <<sendQueue, up, to, wip>>
    BY <1>0, <1>12 DEF SendStart
  <2>2. ended' = ended /\ writeOp' = [writeOp EXCEPT ![to[a]] = "pending"]
    BY <1>12, <2>1 DEF SendStart, DoWrite
  <2>3. QED
    BY <1>0, <2>1, <2>2
<1>13. ASSUME NEW a \in Sessions, Visit(a)
       PROVE  Alone'
  BY <1>0, <1>13 DEF Visit
<1>14. ASSUME NEW a \in Sessions, Unlock(a)
       PROVE  Alone'
  BY <1>0, <1>14 DEF Unlock, Home, OneWorker
<1>15. ASSUME NEW a \in Sessions, NEW S, NEW op, Lock(a, op, S)
       PROVE  Alone'
  BY <1>0, <1>15 DEF Lock, Home, OneWorker
<1>16. ASSUME NEW a \in Sessions, NEW s \in Sessions, DisconnectClient(a, s)
       PROVE  Alone'
  BY <1>16 DEF DisconnectClient
<1> HIDE DEF Alone, Attended
<1>17. \A a \in Sessions : Back(a) \in {"handler", "loop"}
  BY DEF Back, Home, OneWorker
<1>18. ASSUME NEW a \in Sessions, Sending(a)
       PROVE  Alone'
  BY <1>10, <1>11, <1>12, <1>17, <1>18 DEF Sending
<1>19. QED
  BY <1>0, <1>1, <1>2, <1>3, <1>4, <1>5, <1>6, <1>7, <1>8, <1>9, <1>13, <1>14, <1>15,
     <1>16, <1>18 DEF Next, Strand, OnWrite, Caller, Broadcast, SendToClient

\* On one worker, handlers may send to whichever client they like.
THEOREM WsOneWorkerOneWrite == OneWorker => (Spec => []OneWriteAtATime)
<1>1. Alone => OneWriteAtATime
  BY DEF Alone, OneWriteAtATime
<1>2. SUFFICES ASSUME OneWorker
               PROVE  Spec => []OneWriteAtATime
  OBVIOUS
<1>3. QED
  BY <1>1, <1>2, ServerTypeInit, ServerStreamNext, ServerTypeNext, AloneInit, AloneNext,
     PTL DEF Spec

\* There no message waits for a write that nobody will start.
THEOREM WsOneWorkerNoneStranded == OneWorker => (Spec => []NoStranded)
<1>1. OneWorker /\ Alone => NoStranded
  BY DEF Alone, Attended, NoStranded, OneWorker, Actors
<1>2. SUFFICES ASSUME OneWorker
               PROVE  Spec => []NoStranded
  OBVIOUS
<1>3. QED
  BY <1>1, <1>2, ServerTypeInit, ServerStreamNext, ServerTypeNext, AloneInit, AloneNext,
     PTL DEF Spec

\* The read loop of s has ended: nothing is outstanding, and the strand is not in
\* a handler that goes on to doRead().
ReadOver(s) ==
    /\ connects[s] # 0
    /\ inOp[s] = "none"
    /\ pc[s] \in {"idle", "next", "remove", "notify"} \/ during[s] = "disconnect"

\* Its write loop has: the message that failed stays at the front for good.
WriteOver(s) == sendQueue[s] # <<>> /\ ~Attended(s)

Reports(s) == pc[s] \in {"remove", "notify"}

\* Each loop reports its end once.
Noticed(s) ==
    /\ disconnects[s] \in {0, 1, 2}
    /\ disconnects[s] = 2 => ~Reports(s)
    /\ disconnects[s] = 1 \/ Reports(s) => ReadOver(s) \/ WriteOver(s)
    /\ disconnects[s] = 2 \/ (disconnects[s] = 1 /\ Reports(s)) => ReadOver(s) /\ WriteOver(s)
    /\ during[s] # "none" => pc[s] \in SendPcs \cup {"handler", "loop"}

Notices == \A s \in Sessions : Noticed(s)

LEMMA NoticesInit == Init => Notices
<1> SUFFICES ASSUME Init, NEW s \in Sessions
             PROVE  Noticed(s)
  BY DEF Notices
<1>1. disconnects[s] = 0 /\ pc[s] = "idle" /\ during[s] = "none"
  BY DEF Init, SessionInit, Actors
<1>2. QED
  BY <1>1 DEF Noticed, Reports

\* A write loop that has ended stays so.
LEMMA WriteOverStays ==
    ASSUME OneWorker, StreamInv, ServerTypeOK, Alone, Next, NEW r \in Sessions, WriteOver(r)
    PROVE  WriteOver(r)'
<1> USE DEF WriteOver, Attended
<1>0. /\ Actors = Sessions
      /\ pc \in [Sessions -> SendPcs \cup StrandPcs \cup {"idle", "next", "loop"}]
      /\ to \in [Sessions -> Sessions]
      /\ wip \in [Sessions -> BOOLEAN]
      /\ sendQueue \in [Sessions -> Seq(Nat)]
      /\ writeOp \in [Sessions -> {"none", "pending", "ok", "error"}]
  BY DEF OneWorker, Actors, ServerTypeOK, StreamInv, StreamTypeOK
<1>1. CASE Owner
  BY <1>1 DEF Owner, StartListening, StartThreads, StartReturns, Stop, StopReturns
<1>2. ASSUME NEW s \in Sessions, Accept(s)
      PROVE  WriteOver(r)'
  <2>1. UNCHANGED <<sendQueue, writeOp, pc, to>>
    BY <1>2 DEF Accept
  <2>2. QED
    BY <2>1
<1>3. ASSUME NEW s \in Sessions, Network(s)
      PROVE  WriteOver(r)'
  <2>1. UNCHANGED <<sendQueue, pc, to>> /\ writeOp'[r] = writeOp[r]
    BY <1>0, <1>3 DEF Network, PeerUpgrades, PeerSends, PeerCloses, InFails, Arrives,
                      Transport, WriteDone, WriteFails
  <2>2. QED
    BY <2>1
<1>4. ASSUME NEW s \in Sessions, Strand(s), ~OnWrite(s)
      PROVE  WriteOver(r)'
  <2>1. /\ \E label \in StrandPcs \cup {"idle"} : pc' = [pc EXCEPT ![s] = label]
        /\ UNCHANGED <<sendQueue, writeOp, to>>
    BY <1>4 DEF Strand, OnAccept, AddClient, ConnectHandler, OnReadMessage, CallHandler,
                HandlerReturns, DoRead, OnReadEnd, RemoveClient, DisconnectHandler, StrandPcs
  <2>2. PICK label \in StrandPcs \cup {"idle"} : pc' = [pc EXCEPT ![s] = label]
    BY <2>1
  <2>3. label \notin {"next", "start"}
    BY DEF StrandPcs
  <2>4. QED
    BY <1>0, <2>1, <2>2, <2>3
<1>5. ASSUME NEW s \in Sessions, OnWrite(s)
      PROVE  WriteOver(r)'
  <2>1. s # r \/ OnWriteError(s, "remove") \/ writeOp[s] = "ok" \/ pc[s] = "next"
    BY <1>5 DEF OnWrite, OnWriteOk, OnWriteNext
  <2>2. s # r
    BY <1>5, <2>1 DEF OnWrite, OnWriteOk, OnWriteNext, OnWriteError
  <2>3. /\ sendQueue'[r] = sendQueue[r] /\ writeOp'[r] = writeOp[r] /\ to' = to
        /\ pc'[r] = pc[r]
        /\ \A a \in Sessions : pc'[a] = "start" => pc[a] = "start"
    BY <1>0, <1>5, <2>2 DEF OnWrite, OnWriteOk, OnWriteNext, OnWriteError, DoWrite
  <2>4. QED
    BY <2>3
<1>6. ASSUME NEW s \in Sessions, Reply(s)
      PROVE  WriteOver(r)'
  BY <1>0, <1>6 DEF Reply
<1>7. ASSUME NEW a \in Sessions, SendTest(a)
      PROVE  WriteOver(r)'
  BY <1>0, <1>7 DEF SendTest
<1>8. ASSUME NEW a \in Sessions, NEW label \in {"handler", "loop"}, SendPush(a, label)
      PROVE  WriteOver(r)'
  <2>1. pc[a] = "push" /\ UNCHANGED <<writeOp, to>>
        /\ pc' = [pc EXCEPT ![a] = IF wip[a] THEN label ELSE "start"]
    BY <1>8 DEF SendPush
  <2>2. to[a] = r => wip[a]
    BY <1>0, <2>1 DEF Alone
  <2>3. ~Attended(r)'
    BY <1>0, <2>1, <2>2
  <2>4. sendQueue'[r] # <<>>
    <3>1. /\ pushed[to[a]] + 1 \in Nat /\ sendQueue[to[a]] \in Seq(Nat)
          /\ sendQueue' = [sendQueue EXCEPT ![to[a]] =
                              Append(sendQueue[to[a]], pushed[to[a]] + 1)]
      BY <1>0, <1>8 DEF SendPush, PushBack, StreamInv, StreamTypeOK
    <3>2. Append(sendQueue[to[a]], pushed[to[a]] + 1) # <<>>
      BY ONLY <3>1, AppendProperties
    <3>3. QED
      BY <1>0, <3>1, <3>2
  <2>5. QED
    BY <2>3, <2>4
<1>9. ASSUME NEW a \in Sessions, NEW label \in {"handler", "loop"}, SendStart(a, label)
      PROVE  WriteOver(r)'
  <2>1. /\ pc[a] = "start" /\ pc' = [pc EXCEPT ![a] = label]
        /\ UNCHANGED <<sendQueue, to>>
    BY <1>9 DEF SendStart
  <2>2. to[a] # r
    BY <2>1
  <2>3. writeOp'[r] = writeOp[r]
    BY <1>0, <1>9, <2>2 DEF SendStart, DoWrite
  <2>4. QED
    BY <1>0, <2>1, <2>3
<1>10. ASSUME NEW a \in Sessions, Visit(a)
       PROVE  WriteOver(r)'
  BY <1>0, <1>10 DEF Visit
<1>11. ASSUME NEW a \in Sessions, Unlock(a)
       PROVE  WriteOver(r)'
  BY <1>0, <1>11 DEF Unlock, Home, OneWorker
<1>12. ASSUME NEW a \in Sessions, NEW S, NEW op, Lock(a, op, S)
       PROVE  WriteOver(r)'
  BY <1>0, <1>12 DEF Lock
<1>13. ASSUME NEW a \in Sessions, NEW s \in Sessions, DisconnectClient(a, s)
       PROVE  WriteOver(r)'
  BY <1>13 DEF DisconnectClient
<1> HIDE DEF WriteOver, Attended
<1>14. ASSUME NEW a \in Sessions, Sending(a)
       PROVE  WriteOver(r)'
  <2>1. Back(a) \in {"handler", "loop"}
    BY DEF Back, Home, OneWorker
  <2>2. QED
    BY <1>7, <1>8, <1>9, <1>14, <2>1 DEF Sending
<1>15. QED
  BY <1>0, <1>1, <1>2, <1>3, <1>4, <1>5, <1>6, <1>10, <1>11, <1>12, <1>13, <1>14
     DEF Next, Caller, Broadcast, SendToClient

\* A step that neither begins nor ends a report, and revives no loop.
LEMMA NoticedSame ==
    ASSUME NEW r \in Sessions, Noticed(r), WriteOver(r) => WriteOver(r)',
           ReadOver(r) => ReadOver(r)', disconnects'[r] = disconnects[r],
           Reports(r)' => Reports(r),
           (during[r] # "none" => pc[r] \in SendPcs \cup {"handler", "loop"})'
    PROVE  Noticed(r)'
BY DEF Noticed

LEMMA NoticesNext ==
    OneWorker /\ StreamInv /\ ServerTypeOK /\ Alone /\ Notices /\ [Next]_vars => Notices'
<1> SUFFICES ASSUME OneWorker, StreamInv, ServerTypeOK, Alone, Notices, [Next]_vars,
                    NEW r \in Sessions
             PROVE  Noticed(r)'
  BY DEF Notices
<1>0. /\ Actors = Sessions
      /\ pc \in [Sessions -> SendPcs \cup StrandPcs \cup {"idle", "next", "loop"}]
      /\ inOp \in [Sessions -> {"new", "handshake", "accepted", "none",
                                "read", "message", "closed", "error"}]
      /\ during \in [Sessions -> {"none", "connect", "message", "disconnect"}]
      /\ connects \in [Sessions -> Nat] /\ disconnects \in [Sessions -> Nat]
      /\ Noticed(r)
  BY DEF OneWorker, Actors, ServerTypeOK, Notices
<1>1. WriteOver(r) => WriteOver(r)'
  <2>1. CASE UNCHANGED vars
    BY <2>1 DEF vars, WriteOver, Attended
  <2>2. QED
    BY <2>1, WriteOverStays
<1>2. during[r] # "none" => pc[r] \in SendPcs \cup {"handler", "loop"}
  BY <1>0 DEF Noticed
<1>3. ASSUME connects'[r] = connects[r], inOp'[r] = inOp[r], pc'[r] = pc[r],
             during'[r] = during[r], disconnects'[r] = disconnects[r]
      PROVE  Noticed(r)'
  BY <1>0, <1>1, <1>2, <1>3, NoticedSame DEF ReadOver, Reports
<1>4. CASE UNCHANGED vars
  BY <1>3, <1>4 DEF vars
<1>5. CASE Owner
  BY <1>3, <1>5 DEF Owner, StartListening, StartThreads, StartReturns, Stop, StopReturns
<1>6. ASSUME NEW s \in Sessions, Accept(s) \/ Network(s)
      PROVE  Noticed(r)'
  <2>1. /\ UNCHANGED <<pc, during, connects, disconnects>>
        /\ inOp'[r] = inOp[r] \/ inOp[r] # "none"
    BY <1>0, <1>6 DEF Accept, Network, PeerUpgrades, PeerSends, PeerCloses, InFails, Arrives,
                      Transport, WriteDone, WriteFails
  <2>2. QED
    BY <1>0, <1>1, <1>2, <2>1, NoticedSame DEF ReadOver, Reports
<1>7. ASSUME NEW s \in Sessions, OnAccept(s) \/ AddClient(s) \/ ConnectHandler(s)
      PROVE  Noticed(r)'
  <2>1. CASE s # r
    BY <1>0, <1>3, <1>7, <2>1 DEF OnAccept, AddClient, ConnectHandler
  <2>2. CASE s = r
    <3>1. /\ disconnects'[r] = disconnects[r] /\ ~Reports(r)' /\ ~ReadOver(r)
          /\ (during[r] # "none" => pc[r] \in SendPcs \cup {"handler", "loop"})'
      BY <1>0, <1>2, <1>7, <2>2 DEF OnAccept, AddClient, ConnectHandler, Reports, ReadOver
    <3>2. QED
      BY <1>0, <1>1, <3>1, NoticedSame
  <2>3. QED
    BY <2>1, <2>2
<1>8. ASSUME NEW s \in Sessions,
             OnReadMessage(s) \/ CallHandler(s) \/ HandlerReturns(s) \/ DoRead(s)
      PROVE  Noticed(r)'
  <2>1. CASE s # r
    BY <1>0, <1>3, <1>8, <2>1 DEF OnReadMessage, CallHandler, HandlerReturns, DoRead
  <2>2. CASE s = r
    <3>1. /\ disconnects'[r] = disconnects[r] /\ ~Reports(r)'
          /\ (during[r] # "none" => pc[r] \in SendPcs \cup {"handler", "loop"})'
      BY <1>0, <1>2, <1>8, <2>2
         DEF OnReadMessage, CallHandler, HandlerReturns, DoRead, Reports
    <3>2. ReadOver(r) => ReadOver(r)'
      BY <1>0, <1>2, <1>8, <2>2
         DEF OnReadMessage, CallHandler, HandlerReturns, DoRead, ReadOver
    <3>3. QED
      BY <1>0, <1>1, <3>1, <3>2, NoticedSame
  <2>3. QED
    BY <2>1, <2>2
<1>9. ASSUME NEW s \in Sessions, OnReadEnd(s)
      PROVE  Noticed(r)'
  <2>1. CASE s # r
    BY <1>0, <1>3, <1>9, <2>1 DEF OnReadEnd
  <2>2. CASE s = r
    <3>1. /\ ~ReadOver(r) /\ ReadOver(r)' /\ disconnects'[r] = disconnects[r]
          /\ during'[r] = during[r] /\ during[r] = "none" /\ ~Reports(r)
      BY <1>0, <1>2, <1>9, <2>2 DEF OnReadEnd, ReadOver, Reports
    <3>2. QED
      BY <1>0, <1>1, <3>1 DEF Noticed
  <2>3. QED
    BY <2>1, <2>2
<1>10. ASSUME NEW s \in Sessions, RemoveClient(s)
       PROVE  Noticed(r)'
  <2>1. CASE s # r
    BY <1>0, <1>3, <1>10, <2>1 DEF RemoveClient
  <2>2. CASE s = r
    <3>1. /\ disconnects'[r] = disconnects[r] /\ Reports(r) /\ during'[r] = during[r]
          /\ during[r] = "none"
      BY <1>0, <1>2, <1>10, <2>2 DEF RemoveClient, Reports
    <3>2. ReadOver(r) => ReadOver(r)'
      BY <1>0, <1>10, <2>2 DEF RemoveClient, ReadOver
    <3>3. QED
      BY <1>0, <1>1, <3>1, <3>2, NoticedSame
  <2>3. QED
    BY <2>1, <2>2
<1>11. ASSUME NEW s \in Sessions, DisconnectHandler(s)
       PROVE  Noticed(r)'
  <2>1. CASE s # r
    BY <1>0, <1>3, <1>11, <2>1 DEF DisconnectHandler
  <2>2. CASE s = r
    <3>1. /\ disconnects'[r] = disconnects[r] + 1 /\ Reports(r) /\ ~Reports(r)'
          /\ pc'[r] = "handler"
      BY <1>0, <1>11, <2>2 DEF DisconnectHandler, Reports
    <3>2. ReadOver(r) => ReadOver(r)'
      BY <1>0, <1>11, <2>2 DEF DisconnectHandler, ReadOver
    <3>3. QED
      BY <1>0, <1>1, <3>1, <3>2 DEF Noticed
  <2>3. QED
    BY <2>1, <2>2
<1>12. ASSUME NEW s \in Sessions, WorkerFree, OnWriteError(s, "remove"), UNCHANGED serverVars
       PROVE  Noticed(r)'
  <2>1. CASE s # r
    BY <1>0, <1>3, <1>12, <2>1 DEF OnWriteError
  <2>2. CASE s = r
    <3>1. /\ pc[r] = "idle" /\ pc' = [pc EXCEPT ![r] = "remove"] /\ writeOp[r] = "error"
          /\ sendQueue[r] # <<>> /\ writeOp'[r] = "none" /\ UNCHANGED <<sendQueue, to>>
      BY <1>12, <2>2 DEF OnWriteError, StreamInv, StreamTypeOK, HeldWhileWriting
    <3>2. \A a \in Sessions : pc[a] = "idle"
      BY <1>12, FreeAlone
    <3>3. ~WriteOver(r) /\ WriteOver(r)'
      BY <1>0, <3>1, <3>2 DEF WriteOver, Attended
    <3>4. /\ disconnects'[r] = disconnects[r] /\ during'[r] = during[r] /\ during[r] = "none"
          /\ ~Reports(r)
      BY <1>0, <1>2, <1>12, <3>1 DEF Reports
    <3>5. ReadOver(r) => ReadOver(r)'
      BY <1>0, <1>12, <3>1, <3>4 DEF ReadOver
    <3>6. QED
      BY <1>0, <3>3, <3>4, <3>5 DEF Noticed
  <2>3. QED
    BY <2>1, <2>2
<1>13. ASSUME NEW s \in Sessions, OnWriteOk(s) \/ OnWriteNext(s), UNCHANGED serverVars
       PROVE  Noticed(r)'
  <2>1. CASE s # r
    BY <1>0, <1>3, <1>13, <2>1 DEF OnWriteOk, OnWriteNext
  <2>2. CASE s = r
    <3>1. /\ pc[r] \in {"idle", "next"} /\ pc'[r] \in {"idle", "next"}
          /\ during[r] = "none" /\ UNCHANGED <<disconnects, connects, inOp, during>>
      BY <1>0, <1>2, <1>13, <2>2 DEF OnWriteOk, OnWriteNext
    <3>2. QED
      BY <1>0, <1>1, <3>1, NoticedSame DEF ReadOver, Reports
  <2>3. QED
    BY <2>1, <2>2
<1>14. ASSUME NEW a \in Sessions, Reply(a) \/ Caller(a)
       PROVE  Noticed(r)'
  <2>1. /\ UNCHANGED <<during, connects, inOp, disconnects>>
        /\ pc[a] \in SendPcs \cup {"handler", "loop"}
        /\ \A s \in Sessions : s # a => pc'[s] = pc[s]
    BY <1>0, <1>14 DEF Reply, Caller, Visit, Unlock, Sending, SendTest, SendPush, SendStart
  <2>2. pc'[a] \in SendPcs \cup {"handler", "loop"}
    BY <1>0, <1>14 DEF Reply, Caller, Visit, Unlock, Sending, SendTest, SendPush, SendStart,
                       Back, Home, OneWorker
  <2>3. CASE a = r
    BY <1>0, <1>1, <2>1, <2>2, <2>3, NoticedSame DEF ReadOver, Reports
  <2>4. CASE a # r
    BY <1>3, <2>1, <2>4
  <2>5. QED
    BY <2>3, <2>4
<1>15. ASSUME NEW a \in Sessions, NEW S, NEW op, Lock(a, op, S)
       PROVE  Noticed(r)'
  <2>1. /\ UNCHANGED <<during, connects, inOp, disconnects>>
        /\ pc[a] = "handler" /\ pc' = [pc EXCEPT ![a] = "loop"]
    BY <1>15 DEF Lock, Home, OneWorker
  <2>2. CASE a = r
    BY <1>0, <1>1, <2>1, <2>2, NoticedSame DEF ReadOver, Reports
  <2>3. CASE a # r
    BY <1>0, <1>3, <2>1, <2>3
  <2>4. QED
    BY <2>2, <2>3
<1>16. ASSUME NEW a \in Sessions, NEW s \in Sessions, DisconnectClient(a, s)
       PROVE  Noticed(r)'
  BY <1>3, <1>16 DEF DisconnectClient
<1>17. QED
  BY <1>0, <1>4, <1>5, <1>6, <1>7, <1>8, <1>9, <1>10, <1>11, <1>12, <1>13, <1>14, <1>15,
     <1>16 DEF Next, Strand, OnWrite, Broadcast, SendToClient

\* On one worker the end of a client is reported twice at most.
THEOREM WsNoticesBounded == OneWorker => (Spec => []NoticesBounded)
<1>1. Notices => NoticesBounded
  <2> SUFFICES ASSUME Notices, NEW s \in Sessions
               PROVE  disconnects[s] <= 2
    BY DEF NoticesBounded
  <2>1. disconnects[s] \in {0, 1, 2}
    BY DEF Notices, Noticed
  <2>2. QED
    BY <2>1
<1>2. SUFFICES ASSUME OneWorker
               PROVE  Spec => []NoticesBounded
  OBVIOUS
<1>3. QED
  BY <1>1, <1>2, ServerTypeInit, ServerStreamNext, ServerTypeNext, AloneInit, AloneNext,
     NoticesInit, NoticesNext, PTL DEF Spec
=============================================================================
