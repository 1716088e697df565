--------------------------- MODULE OutboundChannel ---------------------------
(***************************************************************************)
(* What the outbound half of a session promises, whatever queues, strands, *)
(* threads and completions do: per session, messages are accepted in some  *)
(* order and put on the wire in that order, each once, for as long as the  *)
(* connection is up.  A message is what send() is given (WsSession) or the *)
(* answer a request that was read is owed (HttpServer).                    *)
(***************************************************************************)
EXTENDS Naturals, Sequences

CONSTANTS Sessions, Garbage

VARIABLES
    accepted,   \* messages accepted so far, named 1, 2, 3, ...
    received,   \* frames put on the wire
    open        \* the connection is up

channelVars == <<accepted, received, open>>

ChannelInit ==
    /\ accepted = [s \in Sessions |-> 0]
    /\ received = [s \in Sessions |-> <<>>]
    /\ open = [s \in Sessions |-> TRUE]

Accept(s) ==
    /\ accepted' = [accepted EXCEPT ![s] = @ + 1]
    /\ UNCHANGED <<received, open>>

\* The next frame is the next message; its bytes may be lost to doWrite()'s
\* dangling buffer, its place may not.
Deliver(s) ==
    /\ open[s]
    /\ Len(received[s]) < accepted[s]
    /\ \E f \in {Len(received[s]) + 1} \cup Garbage :
           received' = [received EXCEPT ![s] = Append(@, f)]
    /\ UNCHANGED <<accepted, open>>

\* The end of the process, or of the server, takes several connections with it.
Break(S) ==
    /\ open' = [s \in Sessions |-> open[s] /\ s \notin S]
    /\ UNCHANGED <<accepted, received>>

ChannelNext ==
    \/ \E s \in Sessions : Accept(s) \/ Deliver(s)
    \/ \E S \in SUBSET Sessions : Break(S)

ChannelSpec == ChannelInit /\ [][ChannelNext]_channelVars
=============================================================================
