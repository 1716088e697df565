------------------------ MODULE WebSocketClientProofs ------------------------
(***************************************************************************)
(* Proofs about WebSocketClient, for any bounds and any number of          *)
(* connections, failures and reconnections.  OneWriteAtATime, that sending *)
(* and the outstanding write agree, holds whatever callbacks do, and with  *)
(* the types it is inductive.  That no queued message is stranded needs    *)
(* callbacks that return: one that throws in onHandshake() skips its       *)
(* doSend(); so do the reads of a connection (ReadInv).  The order of the  *)
(* messages (OrderInv) holds without.                                      *)
(***************************************************************************)
EXTENDS WebSocketClient, SequenceTheorems, TLAPS

USE DEF userVars, flagVars, streamVars, sendVars, UserGoes, IoGoes, Takes, Post, PostSend,
        Busy, Pop, PushBack, Reset, Reads, After

\* The client as the constructor leaves it has its types.
LEMMA TypeInit == Init => TypeOK
<1> SUFFICES ASSUME Init
             PROVE  TypeOK
  OBVIOUS
<1>1. 0 \in 0..MaxConnects
  BY ClientAssumption
<1>2. io \in Labels
  BY DEF Init, Labels
<1>3. \A S : <<>> \in Seq(S)
  OBVIOUS
<1>4. tasks \in Seq({"doConnect", "doSend", "close"})
  BY <1>3 DEF Init
<1>5. ControlOK
  <2>1. {iocStopped, connecting, connected, stopping, reading} \subseteq BOOLEAN
    BY DEF Init
  <2>2. QED
    BY <1>1, <1>2, <1>4, <2>1 DEF Init, ControlOK
<1>6. MessagesOK
  <2>1. sendQueue \in Seq(Nat \ {0}) /\ wire \in Seq(Nat \cup Garbage)
    BY <1>3 DEF Init
  <2>2. QED
    BY <2>1 DEF Init, MessagesOK
<1>7. QED
  BY <1>5, <1>6 DEF TypeOK

\* Where the handlers of the io thread go.
LEMMA LabelsHold ==
    {"idle", "gone", "closing", "closed", "unshaken", "shaken", "reads", "sends", "readsMore",
     "retry", "sleep", "connectCallback", "messageCallback", "errorCallback", "closeCallback"}
        \subseteq Labels
  BY DEF Labels, Callbacks

\* The threads, the flags and the stream keep their types.
LEMMA ControlNext == ControlOK /\ [Next]_vars => ControlOK'
<1> SUFFICES ASSUME ControlOK, [Next]_vars
             PROVE  ControlOK'
  OBVIOUS
<1> USE DEF ControlOK
<1>0. MaxConnects \in Nat
  BY ClientAssumption
<1>1. CASE ConnectTest
  BY <1>0, <1>1 DEF ConnectTest
<1>2. CASE ConnectStarts
  <2>1. resolves' \in Nat
    BY <1>2 DEF ConnectStarts, StartAttempt
  <2>2. QED
    BY <1>2, <2>1 DEF ConnectStarts, StartAttempt
<1>3. ASSUME NEW label \in {"disconnectAgain", "disconnectLastAgain"},
             NEW found \in {"disconnect", "disconnectLast"}, NEW after \in {"out", "stop"},
             \/ DisconnectTest(found, label)
             \/ DisconnectTestAgain(label, found, after)
             \/ DisconnectPosts(found, after)
      PROVE  ControlOK'
  <2>1. tasks' \in Seq({"doConnect", "doSend", "close"})
    <3>1. UNCHANGED tasks \/ tasks' = Append(tasks, "close")
      BY <1>3 DEF DisconnectTest, DisconnectTestAgain, DisconnectPosts
    <3>2. QED
      BY <3>1
  <2>2. QED
    BY <1>3, <2>1 DEF DisconnectTest, DisconnectTestAgain, DisconnectPosts
<1>4. CASE SendTest \/ SendPush \/ StopIo \/ JoinIo
  BY <1>4 DEF SendTest, SendPush, StopIo, JoinIo
<1>5. CASE SendPosts
  BY <1>5 DEF SendPosts
<1>6. ASSUME NEW t, NextTask(t)
      PROVE  tasks' \in Seq({"doConnect", "doSend", "close"})
  <2>1. tasks # <<>> /\ tasks' = Tail(tasks)
    BY <1>6 DEF NextTask
  <2>2. QED
    BY <2>1
<1>7. ASSUME NEW busy, NEW out, DoSend(busy, out)
      PROVE  ended' \in {ended, "writes"}
  BY <1>7 DEF DoSend
<1>8. CASE TaskConnect
  <2>1. tasks' \in Seq({"doConnect", "doSend", "close"})
    BY <1>6, <1>8 DEF TaskConnect
  <2>2. resolves' \in {resolves, resolves + 1}
    BY <1>8 DEF TaskConnect, StartAttempt
  <2>3. resolves' \in Nat
    BY <2>2
  <2>4. QED
    BY <1>8, <2>1, <2>3 DEF TaskConnect, StartAttempt
<1>9. CASE TaskSend
  <2>1. tasks' \in Seq({"doConnect", "doSend", "close"}) /\ ended' \in {ended, "writes"}
    BY <1>6, <1>7, <1>9 DEF TaskSend
  <2>2. QED
    BY <1>9, <2>1 DEF TaskSend
<1>10. CASE TaskClose
  <2>1. tasks' \in Seq({"doConnect", "doSend", "close"})
    BY <1>6, <1>10 DEF TaskClose
  <2>2. QED
    BY <1>10, <2>1, LabelsHold DEF TaskClose
<1>11. CASE CloseReturns \/ CloseEnds
  BY <1>11, LabelsHold DEF CloseReturns, CloseEnds
<1>12. CASE OnResolve
  <2>1. resolves' \in Nat
    BY <1>12 DEF OnResolve
  <2>2. QED
    BY <1>12, <2>1, LabelsHold DEF OnResolve, Error
<1>13. CASE OnConnect
  BY <1>13, LabelsHold DEF OnConnect, Error
<1>14. CASE OnHandshake \/ HandshakeFailed \/ HandshakeDone
  BY <1>14, LabelsHold DEF OnHandshake, HandshakeFailed, HandshakeDone, Error
<1>15. CASE StartReading \/ ReadMore
  BY <1>15, LabelsHold DEF StartReading, ReadMore, DoRead
<1>16. CASE StartSending
  <2>1. ended' \in {ended, "writes"}
    BY <1>7, <1>16 DEF StartSending
  <2>2. QED
    BY <1>16, <2>1, LabelsHold DEF StartSending
<1>17. CASE OnReadMessage
  BY <1>17, LabelsHold DEF OnReadMessage
<1>18. CASE OnReadEnd
  BY <1>18, LabelsHold DEF OnReadEnd, Error
<1>19. CASE OnWriteOk
  <2>1. ended' \in {ended, "writes"}
    BY <1>7, <1>19 DEF OnWriteOk
  <2>2. QED
    BY <1>19, <2>1 DEF OnWriteOk
<1>20. CASE OnWriteError
  BY <1>20, LabelsHold DEF OnWriteError, Error
<1>21. CASE CallbackEnds
  <2>1. io' \in Labels
    BY <1>21, LabelsHold DEF CallbackEnds
  <2>2. QED
    BY <1>21, <2>1 DEF CallbackEnds
<1>22. CASE CallbackSends
  BY <1>22 DEF CallbackSends
<1>23. CASE Retry
  BY <1>23, LabelsHold DEF Retry
<1>24. CASE Wakes
  BY <1>24, LabelsHold DEF Wakes
<1>25. CASE IoEnds
  BY <1>25, LabelsHold DEF IoEnds
<1>26. CASE UNCHANGED vars
  BY <1>26 DEF vars
<1>27. QED
  BY <1>1, <1>2, <1>3, <1>4, <1>5, <1>8, <1>9, <1>10, <1>11, <1>12, <1>13, <1>14, <1>15,
     <1>16, <1>17, <1>18, <1>19, <1>20, <1>21, <1>22, <1>23, <1>24, <1>25, <1>26
     DEF Next, UserChooses, UserGoesOn, Task, Within, Attempt, OnWrite, OnRead

\* doSend() keeps the types and the agreement of sending and the write.
LEMMA DoSendStep ==
    ASSUME NEW busy \in BOOLEAN, NEW out \in Nat \cup Garbage, busy <=> out # 0,
           sendQueue \in Seq(Nat \ {0}), ended # "writes", DoSend(busy, out)
    PROVE  /\ sendQueue' \in Seq(Nat \ {0})
           /\ sending' \in BOOLEAN
           /\ inFlight' \in Nat \cup Garbage
           /\ ended' # "writes"
           /\ sending' <=> inFlight' # 0
           /\ connected /\ sendQueue' # <<>> => sending'
<1>1. sendQueue # <<>> =>
          /\ Head(sendQueue) \in Nat \ {0}
          /\ Tail(sendQueue) \in Seq(Nat \ {0})
  BY HeadTailProperties
<1>2. 0 \notin Garbage
  BY ClientAssumption
<1>3. CASE connected /\ ~busy /\ sendQueue # <<>>
  <2>1. out = 0
    BY <1>3
  <2>2. /\ sending' = TRUE
        /\ inFlight' \in {Head(sendQueue)} \cup Garbage
        /\ sendQueue' = Tail(sendQueue)
        /\ UNCHANGED ended
    BY <1>3, <2>1 DEF DoSend
  <2>3. QED
    BY <1>1, <1>2, <1>3, <2>2
<1>4. CASE ~(connected /\ ~busy /\ sendQueue # <<>>)
  <2>1. sending' = busy /\ inFlight' = out /\ UNCHANGED <<sendQueue, ended>>
    BY <1>4 DEF DoSend
  <2>2. QED
    BY <1>4, <2>1
<1>5. QED
  BY <1>3, <1>4

\* The messages keep their types, and sending its agreement with the write.
LEMMA MessagesNext ==
    MessagesOK /\ OneWriteAtATime /\ [Next]_vars => MessagesOK' /\ OneWriteAtATime'
<1> SUFFICES ASSUME MessagesOK, OneWriteAtATime, [Next]_vars
             PROVE  MessagesOK' /\ OneWriteAtATime'
  OBVIOUS
<1> USE DEF MessagesOK, OneWriteAtATime
<1>1. ASSUME UNCHANGED sendVars, ended' # "writes"
      PROVE  MessagesOK' /\ OneWriteAtATime'
  BY <1>1
<1>2. CASE \/ SendPush \/ CallbackSends
  <2>1. /\ sendQueue' = Append(sendQueue, pushed + 1)
        /\ pushed' = pushed + 1
        /\ UNCHANGED <<sending, inFlight, wire, lost, ended>>
    BY <1>2 DEF SendPush, CallbackSends
  <2>2. sendQueue' \in Seq(Nat \ {0}) /\ pushed' \in Nat
    BY <2>1
  <2>3. QED
    BY <2>1, <2>2
<1>3. CASE TaskSend \/ StartSending
  <2>1. DoSend(sending, inFlight) /\ UNCHANGED <<pushed, wire, lost>>
    BY <1>3 DEF TaskSend, StartSending
  <2>2. /\ sendQueue' \in Seq(Nat \ {0}) /\ sending' \in BOOLEAN /\ ended' # "writes"
        /\ inFlight' \in Nat \cup Garbage /\ (sending' <=> inFlight' # 0)
    BY <2>1, DoSendStep
  <2>3. QED
    BY <2>1, <2>2
<1>4. CASE OnWriteOk
  <2>1. DoSend(FALSE, 0) /\ wire' = Append(wire, inFlight) /\ UNCHANGED <<pushed, lost>>
    BY <1>4 DEF OnWriteOk
  <2>2. wire' \in Seq(Nat \cup Garbage)
    BY <2>1
  <2>3. /\ sendQueue' \in Seq(Nat \ {0}) /\ sending' \in BOOLEAN /\ ended' # "writes"
        /\ inFlight' \in Nat \cup Garbage /\ (sending' <=> inFlight' # 0)
    BY <2>1, DoSendStep
  <2>4. QED
    BY <2>1, <2>2, <2>3
<1>5. CASE OnWriteError
  <2>1. /\ sending' = FALSE /\ inFlight' = 0 /\ lost' = lost + 1
        /\ UNCHANGED <<sendQueue, pushed, wire, ended>>
    BY <1>5 DEF OnWriteError
  <2>2. lost' \in Nat
    BY <2>1
  <2>3. QED
    BY <2>1, <2>2
<1>6. CASE ConnectTest \/ ConnectStarts \/ SendTest \/ SendPosts \/ StopIo \/ JoinIo
  BY <1>1, <1>6 DEF ConnectTest, ConnectStarts, SendTest, SendPosts, StopIo, JoinIo
<1>7. ASSUME NEW label, NEW found, NEW after,
             \/ DisconnectTest(found, label)
             \/ DisconnectTestAgain(label, found, after)
             \/ DisconnectPosts(found, after)
      PROVE  MessagesOK' /\ OneWriteAtATime'
  BY <1>1, <1>7 DEF DisconnectTest, DisconnectTestAgain, DisconnectPosts
<1>8. CASE \/ TaskConnect \/ TaskClose \/ CloseReturns \/ CloseEnds
           \/ OnConnect \/ OnHandshake \/ HandshakeFailed \/ HandshakeDone
  BY <1>1, <1>8 DEF TaskConnect, TaskClose, CloseReturns, CloseEnds,
                    OnConnect, OnHandshake, HandshakeFailed, HandshakeDone, Error
<1>9. CASE OnResolve \/ StartReading \/ ReadMore
  BY <1>1, <1>9 DEF OnResolve, StartReading, ReadMore, DoRead
<1>10. CASE OnReadMessage \/ OnReadEnd \/ CallbackEnds \/ Retry \/ Wakes \/ IoEnds
  BY <1>1, <1>10 DEF OnReadMessage, OnReadEnd, CallbackEnds, Retry, Wakes, IoEnds
<1>11. CASE UNCHANGED vars
  BY <1>1, <1>11 DEF vars
<1>12. QED
  BY <1>2, <1>3, <1>4, <1>5, <1>6, <1>7, <1>8, <1>9, <1>10, <1>11
     DEF Next, UserChooses, UserGoesOn, Task, Within, Attempt, OnWrite, OnRead

\* The types and the agreement of sending and the write are inductive.
LEMMA ClientInvariant == Spec => [](TypeOK /\ OneWriteAtATime)
<1>1. Init => TypeOK /\ OneWriteAtATime
  BY TypeInit DEF Init, OneWriteAtATime
<1>2. TypeOK /\ OneWriteAtATime /\ [Next]_vars => (TypeOK /\ OneWriteAtATime)'
  BY ControlNext, MessagesNext DEF TypeOK
<1>3. QED
  BY <1>1, <1>2, PTL DEF Spec

\* Every variable of the client keeps its type, for every bound and any callbacks.
THEOREM ClientTypeCorrect == Spec => []TypeOK
  BY ClientInvariant, PTL

\* doSend() never starts a second async_write, through any number of failures and
\* reconnections and whatever callbacks do; sending is TRUE exactly while one is out.
THEOREM ClientOneWrite == Spec => []OneWriteAtATime
  BY ClientInvariant, PTL

-----------------------------------------------------------------------------

SendPosted == \E i \in DOMAIN tasks : tasks[i] = "doSend"

\* A post keeps the posts before it, and one of a doSend() is a doSend() posted.
LEMMA PostKeeps ==
    ASSUME tasks \in Seq({"doConnect", "doSend", "close"}),
           NEW t \in {"doConnect", "doSend", "close"}, Post(t)
    PROVE  /\ SendPosted => SendPosted'
           /\ t = "doSend" => SendPosted'
<1>1. PICK n \in Nat : n = Len(tasks)
  OBVIOUS
<1>2. /\ Len(tasks') = n + 1
      /\ tasks'[n + 1] = t
      /\ \A i \in 1..n : tasks'[i] = tasks[i]
  BY <1>1
<1>3. DOMAIN tasks' = 1..(n + 1) /\ DOMAIN tasks = 1..n
  BY <1>1, <1>2
<1>4. n + 1 \in DOMAIN tasks' /\ DOMAIN tasks \subseteq DOMAIN tasks'
  BY <1>3
<1>5. QED
  BY <1>2, <1>3, <1>4 DEF SendPosted

\* Taking another task keeps a doSend() that is posted.
LEMMA TakeKeeps ==
    ASSUME tasks \in Seq({"doConnect", "doSend", "close"}), SendPosted,
           NEW t \in {"doConnect", "close"}, NextTask(t)
    PROVE  SendPosted'
<1>1. tasks # <<>> /\ Head(tasks) = t /\ tasks' = Tail(tasks)
  BY DEF NextTask
<1>2. PICK n \in Nat : n = Len(tasks)
  OBVIOUS
<1>3. PICK i \in 1..n : tasks[i] = "doSend"
  BY <1>2 DEF SendPosted
<1>4. tasks[1] = t
  BY <1>1
<1>5. i # 1
  BY <1>3, <1>4
<1>6. /\ Len(tasks') = n - 1
      /\ \A j \in 1..(n - 1) : tasks'[j] = tasks[j + 1]
  BY <1>1, <1>2
<1>7. i - 1 \in 1..(n - 1) /\ (i - 1) + 1 = i
  BY <1>2, <1>3, <1>5
<1>8. i - 1 \in DOMAIN tasks'
  <2>1. tasks' \in Seq({"doConnect", "doSend", "close"})
    BY <1>1
  <2>2. DOMAIN tasks' = 1..Len(tasks')
    BY <2>1
  <2>3. QED
    BY <2>2, <1>6, <1>7
<1>9. tasks'[i - 1] = "doSend"
  BY <1>3, <1>6, <1>7
<1>10. QED
  BY <1>8, <1>9 DEF SendPosted

\* Who comes for the queue, on a connection.
LEMMA NoStrandedNext ==
    ASSUME ~Throws, TypeOK, OneWriteAtATime, NoStranded, [Next]_vars
    PROVE  NoStranded'
<1> DEFINE Handed == io \in {"connectCallback", "reads", "sends"}
<1>1. /\ tasks \in Seq({"doConnect", "doSend", "close"})
      /\ sendQueue \in Seq(Nat \ {0})
      /\ sending \in BOOLEAN /\ inFlight \in Nat \cup Garbage
      /\ connected \in BOOLEAN /\ ended # "writes" /\ (sending <=> inFlight # 0)
  BY DEF TypeOK, ControlOK, MessagesOK, OneWriteAtATime
<1> USE DEF NoStranded, SendPosted
<1>2. ASSUME UNCHANGED <<user, sendQueue, sending>>, connected' \in {connected, FALSE},
             ended' = ended \/ ended' # "no", Handed => Handed' \/ ~connected',
             SendPosted => SendPosted'
      PROVE  NoStranded'
  BY <1>2 DEF Alive
<1>3. ASSUME NEW busy \in BOOLEAN, NEW out \in Nat \cup Garbage, busy <=> out # 0,
             DoSend(busy, out), UNCHANGED connected
      PROVE  NoStranded'
  BY <1>1, <1>3, DoSendStep DEF Alive
<1>4. CASE ConnectTest \/ SendTest \/ StopIo \/ JoinIo
  BY <1>4 DEF ConnectTest, SendTest, StopIo, JoinIo, Alive
<1>5. CASE ConnectStarts
  BY <1>5 DEF ConnectStarts, StartAttempt
<1>6. ASSUME NEW label \in {"disconnectAgain", "disconnectLastAgain"}, NEW found, NEW after,
             DisconnectTest(found, label) \/ DisconnectTestAgain(label, found, after)
      PROVE  NoStranded'
  BY <1>6 DEF DisconnectTest, DisconnectTestAgain, Alive
<1>7. ASSUME NEW from \in {"disconnect", "disconnectLast"}, NEW to, DisconnectPosts(from, to)
      PROVE  NoStranded'
  <2>1. SendPosted => SendPosted'
    BY <1>1, <1>7, PostKeeps DEF DisconnectPosts
  <2>2. QED
    BY <1>7, <2>1 DEF DisconnectPosts, Alive
<1>8. CASE SendPush
  BY <1>8 DEF SendPush
<1>9. CASE SendPosts \/ CallbackSends
  <2>1. Post("doSend")
    BY <1>9 DEF SendPosts, CallbackSends
  <2>2. SendPosted'
    BY <1>1, <2>1, PostKeeps
  <2>3. QED
    BY <2>2
<1>10. CASE TaskSend
  BY <1>1, <1>3, <1>10 DEF TaskSend
<1>11. CASE TaskConnect \/ TaskClose
  <2>1. SendPosted => SendPosted'
    BY <1>1, <1>11, TakeKeeps DEF TaskConnect, TaskClose
  <2>2. /\ UNCHANGED <<user, sendQueue, sending, ended>> /\ connected' \in {connected, FALSE}
        /\ Handed => Handed' \/ ~connected'
    BY <1>11 DEF TaskConnect, TaskClose, StartAttempt, NextTask
  <2>3. QED
    BY <1>2, <2>1, <2>2
<1>12. CASE CloseReturns \/ OnWriteError \/ HandshakeFailed \/ HandshakeDone
  BY <1>12 DEF CloseReturns, OnWriteError, HandshakeFailed, HandshakeDone, Error
<1>13. CASE OnResolve \/ OnConnect \/ OnReadMessage \/ OnReadEnd
  <2>1. /\ UNCHANGED <<user, sendQueue, sending, tasks>> /\ connected' \in {connected, FALSE}
        /\ ended' = ended \/ ended' # "no"
        /\ Handed => Handed' \/ ~connected'
    BY <1>13 DEF OnResolve, OnConnect, OnReadMessage, OnReadEnd, Error
  <2>2. QED
    BY <1>2, <2>1
<1>14. CASE OnHandshake \/ CloseEnds
  BY <1>2, <1>14 DEF OnHandshake, CloseEnds
<1>15. CASE StartReading \/ ReadMore
  <2>1. /\ UNCHANGED <<user, sendQueue, sending, tasks, connected>>
        /\ ended' = ended \/ ended' # "no"
        /\ Handed => Handed' \/ ~connected'
    BY <1>15 DEF StartReading, ReadMore, DoRead
  <2>2. QED
    BY <1>2, <2>1
<1>16. CASE StartSending
  BY <1>1, <1>3, <1>16 DEF StartSending
<1>17. CASE OnWriteOk
  BY <1>1, <1>3, <1>17 DEF OnWriteOk
<1>18. CASE CallbackEnds
  <2>1. /\ UNCHANGED <<user, sendQueue, sending, tasks, connected, ended>>
        /\ Handed => Handed'
    BY <1>18 DEF CallbackEnds, Callbacks
  <2>2. QED
    BY <1>2, <2>1
<1>19. CASE Retry \/ IoEnds
  BY <1>2, <1>19 DEF Retry, IoEnds
<1>20. CASE Wakes
  <2>1. SendPosted => SendPosted'
    BY <1>1, <1>20, PostKeeps DEF Wakes
  <2>2. QED
    BY <1>2, <1>20, <2>1 DEF Wakes
<1>21. CASE UNCHANGED vars
  BY <1>21 DEF vars, Alive
<1>22. QED
  BY <1>4, <1>5, <1>6, <1>7, <1>8, <1>9, <1>10, <1>11, <1>12, <1>13, <1>14, <1>15, <1>16,
     <1>17, <1>18, <1>19, <1>20, <1>21
     DEF Next, UserChooses, UserGoesOn, Task, Within, Attempt, OnWrite, OnRead

\* While callbacks return, a message queued on a connection always has a write, a
\* posted doSend() or onHandshake() coming for it: io thread and application cannot
\* leave it behind, whatever fails and however often the client reconnects.
THEOREM ClientNoneStranded ==
    ASSUME ~Throws
    PROVE  Spec => []NoStranded
<1>1. Init => NoStranded
  BY DEF Init, NoStranded
<1>2. TypeOK /\ OneWriteAtATime /\ NoStranded /\ [Next]_vars => NoStranded'
  BY NoStrandedNext
<1>3. QED
  BY <1>1, <1>2, ClientInvariant, PTL DEF Spec

-----------------------------------------------------------------------------
(* Reads.                                                                  *)

\* Who reads, wherever the io thread is.  While an attempt is on its way nothing
\* is read, because async_connect was started on a stream that was not in use.
ReadInv ==
    /\ ended # "reads"
    /\ Alive =>
        /\ stage # "none" => ~reading /\ ~connected
        /\ io \in {"shaken", "connectCallback", "reads", "messageCallback", "readsMore"}
                => ~reading
        /\ io \in {"idle", "sends"} /\ connected => reading
        /\ io \in {"closed", "errorCallback", "closeCallback", "retry", "sleep"} => ~connected
        /\ io = "shaken" => stage = "none"

LEMMA ReadNext ==
    ASSUME ~Throws, TypeOK, ReadInv, [Next]_vars
    PROVE  ReadInv'
<1> USE DEF ReadInv, Alive
<1>0. /\ connected \in BOOLEAN /\ reading \in BOOLEAN
      /\ stage \in {"none", "connect", "handshake"}
  BY DEF TypeOK, ControlOK
<1>1. ASSUME UNCHANGED <<io, stage, reading>>, connected' \in {connected, FALSE},
             ended' \in {ended, "writes"}
      PROVE  ReadInv'
  <2>1. ended' # "reads" /\ (Alive' => Alive)
    BY <1>1
  <2>2. io' = io /\ stage' = stage /\ reading' = reading
    BY <1>1
  <2>3. CASE connected' = connected
    BY <2>1, <2>2, <2>3
  <2>4. CASE connected' = FALSE
    BY <2>1, <2>2, <2>4
  <2>5. QED
    BY <1>1, <2>3, <2>4
<1>2. ASSUME NEW busy, NEW out, DoSend(busy, out)
      PROVE  ended' \in {ended, "writes"}
  BY <1>2 DEF DoSend
<1>3. CASE ConnectTest \/ ConnectStarts \/ SendTest \/ SendPush \/ SendPosts \/ StopIo \/ JoinIo
  BY <1>1, <1>3 DEF ConnectTest, ConnectStarts, StartAttempt, SendTest, SendPush, SendPosts,
                    StopIo, JoinIo
<1>4. ASSUME NEW label, NEW found, NEW after,
             \/ DisconnectTest(found, label)
             \/ DisconnectTestAgain(label, found, after)
             \/ DisconnectPosts(found, after)
      PROVE  ReadInv'
  BY <1>1, <1>4 DEF DisconnectTest, DisconnectTestAgain, DisconnectPosts
<1>5. CASE TaskConnect \/ CallbackSends
  BY <1>1, <1>5 DEF TaskConnect, StartAttempt, CallbackSends
<1>6. CASE TaskSend \/ OnWriteOk
  BY <1>1, <1>2, <1>6 DEF TaskSend, OnWriteOk
<1>7. CASE TaskClose
  BY <1>0, <1>7 DEF TaskClose, NextTask
<1>8. CASE CloseReturns \/ CloseEnds
  BY <1>0, <1>8 DEF CloseReturns, CloseEnds
<1>9. CASE OnResolve
  BY <1>0, <1>9 DEF OnResolve, StreamBusy, Error
<1>10. CASE OnConnect
  BY <1>0, <1>10 DEF OnConnect, Error
<1>11. CASE OnHandshake \/ HandshakeFailed \/ HandshakeDone
  BY <1>0, <1>11 DEF OnHandshake, HandshakeFailed, HandshakeDone, Error
<1>12. CASE StartReading \/ ReadMore
  <2>1. /\ io \in {"reads", "readsMore"} /\ io' \in {"sends", "idle"}
        /\ DoRead
        /\ UNCHANGED <<connected, stage>>
    BY <1>12 DEF StartReading, ReadMore
  <2>2. CASE Alive
    <3>1. ~reading /\ (stage # "none" => ~connected)
      BY <2>1, <2>2
    <3>2. /\ reading' = connected
          /\ UNCHANGED ended
      BY <1>0, <2>1, <3>1 DEF DoRead
    <3>3. QED
      BY <2>1, <2>2, <3>1, <3>2
  <2>3. CASE ~Alive
    BY <1>12, <2>3 DEF vars, Next, StartReading, ReadMore
  <2>4. QED
    BY <2>2, <2>3
<1>13. CASE StartSending
  <2>1. ended' \in {ended, "writes"}
    BY <1>2, <1>13 DEF StartSending
  <2>2. io = "sends" /\ io' = "idle" /\ UNCHANGED <<connected, reading, stage>>
    BY <1>13 DEF StartSending
  <2>3. QED
    BY <1>0, <2>1, <2>2
<1>14. CASE OnReadMessage
  BY <1>0, <1>14 DEF OnReadMessage
<1>15. CASE OnReadEnd
  BY <1>0, <1>15 DEF OnReadEnd, Error
<1>16. CASE OnWriteError
  BY <1>0, <1>16 DEF OnWriteError, Error
<1>17. CASE CallbackEnds
  BY <1>0, <1>17 DEF CallbackEnds, Callbacks
<1>18. CASE Retry \/ Wakes \/ IoEnds
  BY <1>0, <1>18 DEF Retry, Wakes, IoEnds
<1>19. CASE UNCHANGED vars
  BY <1>0, <1>19 DEF vars
<1>20. QED
  BY <1>3, <1>4, <1>5, <1>6, <1>7, <1>8, <1>9, <1>10, <1>11, <1>12, <1>13, <1>14, <1>15,
     <1>16, <1>17, <1>18, <1>19
     DEF Next, UserChooses, UserGoesOn, Task, Within, Attempt, OnWrite, OnRead

\* While callbacks return, doRead() never starts a second async_read, also where two
\* attempts to connect overlap, and a connection is read whenever the io thread is
\* between handlers.
THEOREM ClientReads ==
    ASSUME ~Throws
    PROVE  Spec => []ReadsWhileConnected
<1>1. Init => ReadInv
  BY DEF Init, ReadInv
<1>2. TypeOK /\ ReadInv /\ [Next]_vars => ReadInv'
  BY ReadNext
<1>3. ReadInv => ReadsWhileConnected
  BY DEF ReadInv, ReadsWhileConnected
<1>4. QED
  BY <1>1, <1>2, <1>3, ClientTypeCorrect, PTL DEF Spec

-----------------------------------------------------------------------------
(* The order of the messages.                                              *)

\* What is on the wire and the write that is out, when n messages have left the
\* queue: each is garbage or one of the n, in rising order.
WireOK(w, out, n) ==
    /\ \A i \in 1..Len(w) : w[i] \in Garbage \cup (1..n)
    /\ \A i, j \in 1..Len(w) : i < j => w[i] \in Garbage \/ w[j] \in Garbage \/ w[i] < w[j]
    /\ out \in Garbage \cup (0..n)
    /\ out \notin Garbage \cup {0} => \A i \in 1..Len(w) : w[i] \in Garbage \/ w[i] < out

\* The queue holds the last messages that were pushed.
QueueOK == \A i \in 1..Len(sendQueue) : sendQueue[i] = pushed - Len(sendQueue) + i

Out(x) == IF x # 0 THEN 1 ELSE 0

OrderInv ==
    /\ Len(sendQueue) + Len(wire) + lost + Out(inFlight) = pushed
    /\ QueueOK
    /\ WireOK(wire, inFlight, pushed - Len(sendQueue))

\* doSend() takes the first message of the queue, and it is the next of its order.
LEMMA DoSendOrder ==
    ASSUME NEW w \in Seq(Nat \cup Garbage), NEW busy \in BOOLEAN,
           NEW out \in Nat \cup Garbage, busy <=> out # 0,
           sendQueue \in Seq(Nat \ {0}), pushed \in Nat, Len(sendQueue) <= pushed, QueueOK,
           WireOK(w, out, pushed - Len(sendQueue)), DoSend(busy, out), UNCHANGED pushed
    PROVE  /\ QueueOK'
           /\ WireOK(w, inFlight', (pushed - Len(sendQueue))')
           /\ Len(sendQueue') + Out(inFlight') = Len(sendQueue) + Out(out)
<1>1. CASE connected /\ ~busy /\ sendQueue # <<>>
  <2>1. out = 0
    BY <1>1
  <2>2. /\ inFlight' \in {Head(sendQueue)} \cup Garbage
        /\ sendQueue' = Tail(sendQueue)
    BY <1>1, <2>1 DEF DoSend
  <2>3. PICK q \in Nat : q = Len(sendQueue)
    OBVIOUS
  <2>4. PICK n \in Nat : n = pushed - q
    BY <2>3
  <2>5. /\ q > 0
        /\ sendQueue[1] = n + 1
        /\ Head(sendQueue) = n + 1
    BY <1>1, <2>3, <2>4 DEF QueueOK
  <2>6. Len(sendQueue') = q - 1 /\ pushed' - Len(sendQueue') = n + 1
    BY <1>1, <2>2, <2>3, <2>4, <2>5
  <2>7. QueueOK'
    <3>1. ASSUME NEW i \in 1..(q - 1)
          PROVE  sendQueue'[i] = n + 1 + i
      <4>1. sendQueue'[i] = sendQueue[i + 1]
        BY <1>1, <2>2, <2>3
      <4>2. i + 1 \in 1..q
        BY <2>3
      <4>3. sendQueue[i + 1] = n + (i + 1)
        BY <2>3, <2>4, <4>2 DEF QueueOK
      <4>4. QED
        BY <4>1, <4>3
    <3>2. QED
      BY <2>6, <3>1 DEF QueueOK
  <2>8. WireOK(w, out, n)
    BY <2>3, <2>4
  <2>9. WireOK(w, inFlight', n + 1)
    <3>1. \A i \in 1..Len(w) : w[i] \in Garbage \/ (w[i] \in 1..n /\ w[i] < n + 1)
      BY <2>8 DEF WireOK
    <3>2. inFlight' \in Garbage \/ inFlight' = n + 1
      BY <2>2, <2>5
    <3>3. \A i \in 1..Len(w) : w[i] \in Garbage \cup (1..(n + 1))
      BY <3>1
    <3>4. inFlight' \in Garbage \cup (0..(n + 1))
      BY <3>2
    <3>5. inFlight' \notin Garbage => \A i \in 1..Len(w) : w[i] \in Garbage \/ w[i] < inFlight'
      BY <3>1, <3>2
    <3>6. \A i, j \in 1..Len(w) : i < j => w[i] \in Garbage \/ w[j] \in Garbage \/ w[i] < w[j]
      BY <2>8 DEF WireOK
    <3>7. QED
      BY <3>3, <3>4, <3>5, <3>6 DEF WireOK
  <2>10. Out(inFlight') = 1 /\ Out(out) = 0
    BY <2>1, <2>2, <2>5, ClientAssumption DEF Out
  <2>11. QED
    BY <2>3, <2>6, <2>7, <2>9, <2>10
<1>2. CASE ~(connected /\ ~busy /\ sendQueue # <<>>)
  <2>1. inFlight' = out /\ sendQueue' = sendQueue
    BY <1>2 DEF DoSend
  <2>2. QED
    BY <2>1 DEF QueueOK
<1>3. QED
  BY <1>1, <1>2

\* A write that ends leaves its payload on the wire, or is lost.
LEMMA WriteEnds ==
    ASSUME NEW w \in Seq(Nat \cup Garbage), NEW out \in Nat \cup Garbage, out # 0,
           NEW n \in Nat, WireOK(w, out, n)
    PROVE  WireOK(Append(w, out), 0, n) /\ WireOK(w, 0, n)
<1> DEFINE a == Append(w, out)
<1>1. PICK k \in Nat : k = Len(w)
  OBVIOUS
<1>2. Len(a) = k + 1 /\ a[k + 1] = out /\ \A i \in 1..k : a[i] = w[i]
  BY <1>1
<1>3. /\ \A i \in 1..k : w[i] \in Garbage \cup (1..n)
      /\ \A i, j \in 1..k : i < j => w[i] \in Garbage \/ w[j] \in Garbage \/ w[i] < w[j]
      /\ out \in Garbage \cup (1..n)
      /\ out \notin Garbage => \A i \in 1..k : w[i] \in Garbage \/ w[i] < out
  BY <1>1 DEF WireOK
<1> HIDE DEF a
<1>4. \A i \in 1..(k + 1) : a[i] \in Garbage \cup (1..n)
  BY <1>2, <1>3
<1>5. ASSUME NEW i \in 1..(k + 1), NEW j \in 1..(k + 1), i < j
      PROVE  a[i] \in Garbage \/ a[j] \in Garbage \/ a[i] < a[j]
  <2>1. i \in 1..k /\ a[i] = w[i]
    BY <1>2, <1>5
  <2>2. CASE j = k + 1
    BY <1>2, <1>3, <2>1, <2>2
  <2>3. CASE j \in 1..k
    BY <1>2, <1>3, <1>5, <2>1, <2>3
  <2>4. QED
    BY <2>2, <2>3
<1>6. WireOK(a, 0, n)
  BY <1>2, <1>4, <1>5 DEF WireOK
<1>7. WireOK(w, 0, n)
  BY <1>1, <1>3 DEF WireOK
<1>8. QED
  BY <1>6, <1>7 DEF a

\* Every step keeps the order.
LEMMA OrderNext ==
    ASSUME TypeOK, OneWriteAtATime, OrderInv, [Next]_vars
    PROVE  OrderInv'
<1>1. /\ sendQueue \in Seq(Nat \ {0}) /\ pushed \in Nat /\ lost \in Nat
      /\ wire \in Seq(Nat \cup Garbage) /\ inFlight \in Nat \cup Garbage
      /\ sending \in BOOLEAN /\ (sending <=> inFlight # 0)
  BY DEF TypeOK, MessagesOK, OneWriteAtATime
<1>2. Out(inFlight) \in {0, 1}
  BY DEF Out
<1>3. PICK q \in Nat, n \in Nat : q = Len(sendQueue) /\ n = pushed - q
  <2>1. Len(sendQueue) \in Nat /\ Len(wire) \in Nat
    BY <1>1
  <2>2. pushed - Len(sendQueue) \in Nat
    BY <1>1, <1>2, <2>1 DEF OrderInv
  <2>3. QED
    BY <2>1, <2>2
<1>4. ASSUME UNCHANGED <<sendQueue, pushed, inFlight, wire, lost>>
      PROVE  OrderInv'
  BY <1>4 DEF OrderInv, QueueOK
<1>5. CASE SendPush \/ CallbackSends
  <2>1. /\ sendQueue' = Append(sendQueue, pushed + 1)
        /\ pushed' = pushed + 1
        /\ UNCHANGED <<inFlight, wire, lost>>
    BY <1>5 DEF SendPush, CallbackSends
  <2>2. /\ Len(sendQueue') = q + 1 /\ pushed' - Len(sendQueue') = n
        /\ sendQueue'[q + 1] = pushed + 1
        /\ \A i \in 1..q : sendQueue'[i] = sendQueue[i]
    BY <1>1, <1>3, <2>1
  <2>3. \A i \in 1..q : sendQueue[i] = n + i
    BY <1>3 DEF OrderInv, QueueOK
  <2>4. QueueOK'
    BY <1>1, <1>3, <2>1, <2>2, <2>3 DEF QueueOK
  <2>5. Len(sendQueue') + Len(wire') + lost' + Out(inFlight') = pushed'
    <3>1. PICK w \in Nat, o \in {0, 1} : w = Len(wire) /\ o = Out(inFlight)
      BY <1>1, <1>2
    <3>2. q + w + lost + o = pushed
      BY <1>3, <3>1 DEF OrderInv
    <3>3. Len(wire') = w /\ Out(inFlight') = o /\ lost' = lost /\ pushed' = pushed + 1
      BY <2>1, <3>1
    <3>4. Len(sendQueue') + w + lost + o = pushed + 1
      BY <1>1, <1>3, <2>2, <3>1, <3>2
    <3>5. QED
      BY <3>3, <3>4
  <2>6. WireOK(wire', inFlight', pushed' - Len(sendQueue'))
    BY <1>3, <2>1, <2>2 DEF OrderInv
  <2>7. QED
    BY <2>4, <2>5, <2>6 DEF OrderInv
<1>6. CASE TaskSend \/ StartSending
  <2>1. DoSend(sending, inFlight) /\ UNCHANGED <<pushed, wire, lost>>
    BY <1>6 DEF TaskSend, StartSending
  <2>2. QueueOK /\ WireOK(wire, inFlight, pushed - Len(sendQueue)) /\ Len(sendQueue) <= pushed
    BY <1>1, <1>3 DEF OrderInv
  <2>3. /\ QueueOK' /\ WireOK(wire, inFlight', (pushed - Len(sendQueue))')
        /\ Len(sendQueue') + Out(inFlight') = Len(sendQueue) + Out(inFlight)
    BY <1>1, <2>1, <2>2, DoSendOrder
  <2>4. Len(sendQueue') \in Nat /\ Out(inFlight') \in {0, 1} /\ Len(wire) \in Nat
    <3>1. sendQueue' \in Seq(Nat \ {0})
      BY <1>1, <2>1, DoSendStep DEF OneWriteAtATime
    <3>2. QED
      BY <1>1, <3>1 DEF Out
  <2>5. Len(sendQueue') + Len(wire') + lost' + Out(inFlight') = pushed'
    <3>1. PICK w \in Nat, o \in {0, 1}, k \in Nat, x \in {0, 1} :
             w = Len(wire) /\ o = Out(inFlight) /\ k = Len(sendQueue') /\ x = Out(inFlight')
      BY <1>2, <2>4
    <3>2. q + w + lost + o = pushed /\ k + x = q + o
      BY <1>3, <2>3, <3>1 DEF OrderInv
    <3>3. k + w + lost + x = pushed
      <4>1. q \in Int /\ lost \in Int /\ pushed \in Int /\ w \in Int /\ k \in Int
        BY <1>1
      <4>2. o \in Int /\ x \in Int
        OBVIOUS
      <4>3. QED
        BY <3>2, <4>1, <4>2
    <3>4. Len(wire') = w /\ lost' = lost /\ pushed' = pushed
      BY <2>1, <3>1
    <3>5. QED
      BY <3>1, <3>3, <3>4
  <2>6. QED
    BY <2>1, <2>3, <2>5 DEF OrderInv
<1>7. CASE OnWriteOk
  <2>1. /\ inFlight # 0 /\ wire' = Append(wire, inFlight) /\ DoSend(FALSE, 0)
        /\ UNCHANGED <<pushed, lost>>
    BY <1>7 DEF OnWriteOk
  <2>2. /\ wire' \in Seq(Nat \cup Garbage) /\ Len(wire') = Len(wire) + 1
        /\ Len(wire) \in Nat
    BY <1>1, <2>1
  <2>3. QueueOK /\ WireOK(wire, inFlight, n) /\ Len(sendQueue) <= pushed
    BY <1>1, <1>3 DEF OrderInv
  <2>4. WireOK(wire', 0, pushed - Len(sendQueue))
    BY <1>1, <1>3, <2>1, <2>3, WriteEnds
  <2>5. /\ QueueOK' /\ WireOK(wire', inFlight', (pushed - Len(sendQueue))')
        /\ Len(sendQueue') + Out(inFlight') = Len(sendQueue) + Out(0)
    <3> DEFINE w == wire'
    <3>1. w \in Seq(Nat \cup Garbage) /\ WireOK(w, 0, pushed - Len(sendQueue))
      BY <2>2, <2>4
    <3> HIDE DEF w
    <3>2. /\ QueueOK' /\ WireOK(w, inFlight', (pushed - Len(sendQueue))')
          /\ Len(sendQueue') + Out(inFlight') = Len(sendQueue) + Out(0)
      BY <1>1, <2>1, <2>3, <3>1, DoSendOrder
    <3>3. QED
      BY <3>2 DEF w
  <2>6. Len(sendQueue') \in Nat /\ Out(inFlight') \in {0, 1} /\ Out(0) = 0 /\ Out(inFlight) = 1
    <3>1. sendQueue' \in Seq(Nat \ {0})
      BY <1>1, <2>1, DoSendStep DEF OneWriteAtATime
    <3>2. QED
      BY <2>1, <3>1 DEF Out
  <2>7. Len(sendQueue') + Len(wire') + lost' + Out(inFlight') = pushed'
    <3>1. q + Len(wire) + lost + 1 = pushed
      BY <1>3, <2>6 DEF OrderInv
    <3>2. PICK w \in Nat, k \in Nat, x \in {0, 1} :
             w = Len(wire) /\ k = Len(sendQueue') /\ x = Out(inFlight')
      BY <2>2, <2>6
    <3>3. q + w + lost + 1 = pushed /\ k + x = q
      BY <1>3, <2>5, <2>6, <3>1, <3>2
    <3>4. k + (w + 1) + lost + x = pushed
      BY <1>1, <1>3, <3>2, <3>3
    <3>5. Len(wire') = w + 1 /\ lost' = lost /\ pushed' = pushed
      BY <2>1, <2>2, <3>2
    <3>6. QED
      BY <3>2, <3>4, <3>5
  <2>8. QED
    BY <2>5, <2>7 DEF OrderInv
<1>8. CASE OnWriteError
  <2>1. /\ inFlight # 0 /\ inFlight' = 0 /\ lost' = lost + 1
        /\ UNCHANGED <<sendQueue, pushed, wire>>
    BY <1>8 DEF OnWriteError
  <2>2. WireOK(wire, 0, n)
    BY <1>1, <1>3, <2>1, WriteEnds DEF OrderInv
  <2>3. Out(inFlight) = 1 /\ Out(inFlight') = 0 /\ Len(wire) \in Nat
    BY <1>1, <2>1 DEF Out
  <2>4. Len(sendQueue') + Len(wire') + lost' + Out(inFlight') = pushed'
    BY <1>1, <1>3, <2>1, <2>3 DEF OrderInv
  <2>5. QED
    BY <1>3, <2>1, <2>2, <2>4 DEF OrderInv, QueueOK
<1>9. CASE ConnectTest \/ ConnectStarts \/ SendTest \/ SendPosts \/ StopIo \/ JoinIo
  BY <1>4, <1>9 DEF ConnectTest, ConnectStarts, SendTest, SendPosts, StopIo, JoinIo
<1>10. ASSUME NEW label, NEW found, NEW after,
              \/ DisconnectTest(found, label)
              \/ DisconnectTestAgain(label, found, after)
              \/ DisconnectPosts(found, after)
       PROVE  OrderInv'
  BY <1>4, <1>10 DEF DisconnectTest, DisconnectTestAgain, DisconnectPosts
<1>11. CASE \/ TaskConnect \/ TaskClose \/ CloseReturns \/ CloseEnds
            \/ OnConnect \/ OnHandshake \/ HandshakeFailed \/ HandshakeDone
  BY <1>4, <1>11 DEF TaskConnect, TaskClose, CloseReturns, CloseEnds,
                     OnConnect, OnHandshake, HandshakeFailed, HandshakeDone, Error
<1>12. CASE OnResolve \/ StartReading \/ ReadMore
  BY <1>4, <1>12 DEF OnResolve, StartReading, ReadMore, DoRead
<1>13. CASE OnReadMessage \/ OnReadEnd \/ CallbackEnds \/ Retry \/ Wakes \/ IoEnds
  BY <1>4, <1>13 DEF OnReadMessage, OnReadEnd, CallbackEnds, Retry, Wakes, IoEnds
<1>14. CASE UNCHANGED vars
  BY <1>4, <1>14 DEF vars
<1>15. QED
  BY <1>5, <1>6, <1>7, <1>8, <1>9, <1>10, <1>11, <1>12, <1>13, <1>14
     DEF Next, UserChooses, UserGoesOn, Task, Within, Attempt, OnWrite, OnRead

\* The order, told as one sequence from the wire to the back of the queue.
LEMMA OrderSeen ==
    ASSUME TypeOK, OrderInv
    PROVE  SentInOrder
<1> DEFINE all == wire \o <<inFlight>> \o sendQueue
           Known(i) == all[i] \notin Garbage \cup {0}
<1>1. /\ sendQueue \in Seq(Nat \ {0}) /\ pushed \in Nat
      /\ wire \in Seq(Nat \cup Garbage) /\ inFlight \in Nat \cup Garbage
  BY DEF TypeOK, MessagesOK
<1>2. PICK a \in Nat, q \in Nat : a = Len(wire) /\ q = Len(sendQueue)
  BY <1>1
<1>3. PICK n : n = pushed - q
  OBVIOUS
<1>4. n \in Int
  BY <1>1, <1>2, <1>3
<1>5. /\ DOMAIN all = 1..(a + 1 + q)
      /\ \A i \in 1..a : all[i] = wire[i]
      /\ all[a + 1] = inFlight
      /\ \A i \in (a + 2)..(a + 1 + q) : all[i] = sendQueue[i - (a + 1)]
  <2> DEFINE front == wire \o <<inFlight>>
  <2>1. /\ front \in Seq(Nat \cup Garbage) /\ Len(front) = a + 1
        /\ front[a + 1] = inFlight /\ \A i \in 1..a : front[i] = wire[i]
    BY <1>1, <1>2
  <2> HIDE DEF front
  <2>2. /\ DOMAIN (front \o sendQueue) = 1..(a + 1 + q)
        /\ \A i \in 1..(a + 1) : (front \o sendQueue)[i] = front[i]
        /\ \A i \in (a + 2)..(a + 1 + q) :
              (front \o sendQueue)[i] = sendQueue[i - (a + 1)]
    <3>1. sendQueue \in Seq(Nat \cup Garbage)
      BY <1>1
    <3>2. /\ Len(front \o sendQueue) = Len(front) + Len(sendQueue)
          /\ front \o sendQueue \in Seq(Nat \cup Garbage)
          /\ \A i \in 1..(Len(front) + Len(sendQueue)) :
                (front \o sendQueue)[i] = IF i <= Len(front) THEN front[i]
                                          ELSE sendQueue[i - Len(front)]
      BY <2>1, <3>1, ConcatProperties
    <3>3. DOMAIN (front \o sendQueue) = 1..(a + 1 + q)
      BY <1>2, <2>1, <3>2
    <3>4. ASSUME NEW i \in 1..(a + 1)
          PROVE  (front \o sendQueue)[i] = front[i]
      <4>1. i \in 1..(Len(front) + Len(sendQueue)) /\ i <= Len(front)
        BY <1>2, <2>1
      <4>2. QED
        BY <3>2, <4>1
    <3>5. ASSUME NEW i \in (a + 2)..(a + 1 + q)
          PROVE  (front \o sendQueue)[i] = sendQueue[i - (a + 1)]
      <4>1. i \in 1..(Len(front) + Len(sendQueue)) /\ ~(i <= Len(front))
        BY <1>2, <2>1
      <4>2. QED
        BY <2>1, <3>2, <4>1
    <3>6. QED
      BY <3>3, <3>4, <3>5
  <2>3. a + 1 \in 1..(a + 1) /\ 1..a \subseteq 1..(a + 1)
    BY <1>2
  <2>4. QED
    BY <2>1, <2>2, <2>3 DEF front
<1> HIDE DEF all
<1>6. \A i \in (a + 2)..(a + 1 + q) : all[i] = n + (i - (a + 1))
  <2>1. \A i \in 1..q : sendQueue[i] = n + i
    BY <1>2, <1>3 DEF OrderInv, QueueOK
  <2>2. \A i \in (a + 2)..(a + 1 + q) : i - (a + 1) \in 1..q
    BY <1>2
  <2>3. QED
    BY <1>5, <2>1, <2>2
<1>7. WireOK(wire, inFlight, n)
  BY <1>2, <1>3 DEF OrderInv
<1>8. ASSUME NEW i \in 1..(a + 1 + q), NEW j \in 1..(a + 1 + q), i < j, Known(i), Known(j)
      PROVE  all[i] < all[j]
  <2>1. CASE i \in 1..a /\ j \in 1..a
    BY <1>2, <1>5, <1>7, <1>8, <2>1 DEF WireOK
  <2>2. CASE i \in 1..a /\ j = a + 1
    BY <1>2, <1>5, <1>7, <1>8, <2>2 DEF WireOK
  <2>3. CASE i \in 1..(a + 1) /\ j \in (a + 2)..(a + 1 + q)
    <3>1. all[i] \in 1..n
      <4>1. CASE i \in 1..a
        BY <1>2, <1>5, <1>7, <1>8, <4>1 DEF WireOK
      <4>2. CASE i = a + 1
        <5>1. all[i] \in 0..n /\ all[i] # 0
          BY <1>5, <1>7, <1>8, <4>2 DEF WireOK
        <5>2. QED
          BY <1>4, <5>1
      <4>3. QED
        BY <1>2, <2>3, <4>1, <4>2
    <3>2. all[j] = n + (j - (a + 1)) /\ j - (a + 1) >= 1
      BY <1>2, <1>6, <2>3
    <3>3. QED
      BY <1>2, <1>4, <3>1, <3>2
  <2>4. CASE i \in (a + 2)..(a + 1 + q) /\ j \in (a + 2)..(a + 1 + q)
    BY <1>2, <1>4, <1>6, <1>8, <2>4
  <2>5. QED
    BY <1>2, <1>8, <2>1, <2>2, <2>3, <2>4
<1>9. Len(sendQueue) + Len(wire) + lost + (IF inFlight # 0 THEN 1 ELSE 0) = pushed
  BY DEF OrderInv, Out
<1>10. \A i, j \in DOMAIN all : i < j /\ Known(i) /\ Known(j) => all[i] < all[j]
  BY <1>5, <1>8
<1>11. QED
  BY <1>9, <1>10 DEF SentInOrder, all

\* What send() accepted is in one place each, from the wire to the back of the
\* queue, in the order it was pushed, whatever fails and however often the client
\* reconnects.
THEOREM ClientSentInOrder == Spec => []SentInOrder
<1>1. Init => OrderInv
  BY ClientAssumption DEF Init, OrderInv, QueueOK, WireOK, Out
<1>2. TypeOK /\ OneWriteAtATime /\ OrderInv /\ [Next]_vars => OrderInv'
  BY OrderNext
<1>3. TypeOK /\ OrderInv => SentInOrder
  BY OrderSeen
<1>4. QED
  BY <1>1, <1>2, <1>3, ClientInvariant, PTL DEF Spec
=============================================================================
