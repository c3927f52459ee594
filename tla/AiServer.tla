------------------------------- MODULE AiServer -------------------------------
(***************************************************************************)
(* The AI interface: the WebSocket server of                                *)
(* src/ai-interface/server/websocket.go and the lock and the events of the  *)
(* debugger API it calls, src/ai-interface/api/debugger.go.                  *)
(*                                                                          *)
(* For each connection one goroutine reads requests and calls the debugger,  *)
(* another writes what is queued.  The registry goroutine (run) adds and     *)
(* removes connections, the broadcaster starts a goroutine per connection    *)
(* for each event, and the debugger's ticker makes events of stops.  The     *)
(* calls are Launch (Attach and WaitForStop do the same with lock and        *)
(* events, and read the state afterwards with the lock taken again), a query *)
(* (GetThreads and the other readers) and Close (the disconnect request).    *)
(* The debugger below is C code and may refuse.                              *)
(***************************************************************************)
EXTENDS Integers, Sequences

CONSTANTS
    Clients,            \* connections
    Script,             \* the requests the peer of each connection sends
    SendRoom,           \* capacity of sendCh: 256
    EventRoom,          \* capacity of eventCh: 100
    MaxStops,           \* bound: stops the ticker finds
    Leavers,            \* bound: the connections whose other side may go away
    CloseIsOnce,        \* TRUE: hypothesis that closing a closed channel does nothing; it panics
    ReadInsideWrite     \* TRUE: hypothesis that the lock's writer may read; it waits for itself

ASSUME AiServerAssumption ==
    /\ Script \in [Clients -> Seq({"launch", "query", "disconnect"})]
    /\ SendRoom \in Nat \ {0} /\ EventRoom \in Nat \ {0} /\ MaxStops \in Nat /\ Leavers \subseteq Clients
    /\ CloseIsOnce \in BOOLEAN /\ ReadInsideWrite \in BOOLEAN

VARIABLES
    peer,           \* each client's other side: connected or gone
    got,            \* the answers it has received; events leave no trace there
    reader,         \* handleWebSocket: registering; readPump: reading, calling, holding,
                    \*   stuck, asking, answering, leaving, closing or ended
    handled,        \* requests it has read
    writer,         \* writePump: off, waiting or ended
    sendCh,         \* client.sendCh
    done,           \* client.doneCh is closed, and with it the connection
    clients,        \* server.clients
    shutdown,       \* Shutdown has cancelled the server's context and closed its clients
    pending,        \* how many go client.Send(event) of each client have not run yet
    writing,        \* who holds debugger.mu for writing
    running,        \* debugger.running
    eventCh,        \* debugger.eventCh
    closed,         \* debugger.Close has closed it
    stops,          \* stops the ticker has found
    panicked        \* the process has ended with a panic

connection == <<peer, got, reader, handled, writer, sendCh, done>>
server == <<clients, shutdown, pending>>
debugger == <<writing, running, eventCh, closed, stops>>
aiVars == <<connection, server, debugger, panicked>>

Ticker == "ticker"
Nobody == "nobody"

AiInit ==
    /\ peer = [c \in Clients |-> "connected"]
    /\ got = [c \in Clients |-> <<>>]
    /\ reader = [c \in Clients |-> "registering"] /\ handled = [c \in Clients |-> 0]
    /\ writer = [c \in Clients |-> "off"]
    /\ sendCh = [c \in Clients |-> <<>>] /\ done = [c \in Clients |-> FALSE]
    /\ clients = {} /\ shutdown = FALSE /\ pending = [c \in Clients |-> 0]
    /\ writing = Nobody /\ running = FALSE /\ eventCh = <<>> /\ closed = FALSE /\ stops = 0
    /\ panicked = FALSE

-----------------------------------------------------------------------------
(* The other side.                                                          *)

Leave(c) ==
    /\ peer[c] = "connected" /\ c \in Leavers
    /\ peer' = [peer EXCEPT ![c] = "gone"]
    /\ UNCHANGED <<got, reader, handled, writer, sendCh, done, server, debugger, panicked>>

-----------------------------------------------------------------------------
(* Closing and sending, as every goroutine does them.                       *)

\* WSClient.Close on each of cs: a channel that is closed already makes the process panic.
Close(cs) ==
    /\ done' = [c \in Clients |-> done[c] \/ c \in cs]
    /\ panicked' = (~CloseIsOnce /\ \E c \in cs : done[c])

\* What is queued: an answer, with the number of its request, or an event.
Event == [event |-> TRUE]
IsAnswer(item) == "answer" \in DOMAIN item

\* The answers among items, in the same order.
Answers(items) ==
    LET among[n \in 0 .. Len(items)] ==
            IF n = 0 THEN <<>>
            ELSE IF IsAnswer(items[n]) THEN Append(among[n - 1], items[n]) ELSE among[n - 1]
    IN  among[Len(items)]

\* WSClient.Send: queued if there is room; refused when full or closed, and when it could be
\* either, either.
Send(c, item) ==
    \/ Len(sendCh[c]) < SendRoom /\ sendCh' = [sendCh EXCEPT ![c] = Append(@, item)]
    \/ (Len(sendCh[c]) >= SendRoom \/ done[c]) /\ UNCHANGED sendCh

-----------------------------------------------------------------------------
(* The registry.  A goroutine that has ended is one that takes no step any more: after the  *)
(* shutdown run and the broadcaster may take them or not.                                  *)

\* register is unbuffered: the handler and run meet, run adds the connection, and its pumps
\* start.
Register(c) ==
    /\ reader[c] = "registering"
    /\ clients' = clients \cup {c}
    /\ reader' = [reader EXCEPT ![c] = "reading"] /\ writer' = [writer EXCEPT ![c] = "waiting"]
    /\ UNCHANGED <<peer, got, handled, sendCh, done, shutdown, pending, debugger,
                   panicked>>

\* Mutant: the connection is closed and stays in the map.
UnregisterKeeps(c) ==
    /\ reader[c] = "leaving"
    /\ Close({c} \cap clients)
    /\ reader' = [reader EXCEPT ![c] = "closing"]
    /\ UNCHANGED <<peer, got, handled, writer, sendCh, server, debugger>>

\* The reader and run meet; a connection still in the map is taken out and closed.
Unregister(c) ==
    /\ reader[c] = "leaving"
    /\ Close({c} \cap clients)
    /\ clients' = clients \ {c}
    /\ reader' = [reader EXCEPT ![c] = "closing"]
    /\ UNCHANGED <<peer, got, handled, writer, sendCh, shutdown, pending, debugger>>

\* Shutdown cancels the context, which ends run and the broadcaster when they notice, and
\* closes the clients.
Shutdown ==
    /\ ~shutdown
    /\ Close(clients)
    /\ clients' = {} /\ shutdown' = TRUE
    /\ UNCHANGED <<peer, got, reader, handled, writer, sendCh, pending, debugger>>

-----------------------------------------------------------------------------
(* Reading requests and calling the debugger.                               *)

ReaderTo(c, at) == reader[c] # at /\ reader' = [reader EXCEPT ![c] = at]

ReadMessage(c) ==
    /\ reader[c] = "reading" /\ handled[c] < Len(Script[c]) /\ ~done[c]
    /\ handled' = [handled EXCEPT ![c] = @ + 1]
    /\ ReaderTo(c, "calling")
    /\ UNCHANGED <<peer, got, writer, sendCh, done, server, debugger, panicked>>

ReadFails(c) ==
    /\ reader[c] = "reading" /\ (peer[c] = "gone" \/ done[c])
    /\ ReaderTo(c, "leaving")
    /\ UNCHANGED <<peer, got, handled, writer, sendCh, done, server, debugger, panicked>>

Request(c) == Script[c][handled[c]]

\* A query holds the lock for reading, and nobody sees when: it is one step.
Query(c) ==
    /\ reader[c] = "calling" /\ Request(c) = "query" /\ writing = Nobody
    /\ ReaderTo(c, "answering")
    /\ UNCHANGED <<peer, got, handled, writer, sendCh, done, server, debugger, panicked>>

\* The others take it for writing.
Acquire(c) ==
    /\ reader[c] = "calling" /\ Request(c) # "query" /\ writing = Nobody
    /\ writing' = c
    /\ ReaderTo(c, "holding")
    /\ UNCHANGED <<peer, got, handled, writer, sendCh, done, server, running, eventCh, closed,
                   stops, panicked>>

\* emitEvent: a full channel drops the event.
Emitted == IF Len(eventCh) < EventRoom THEN Append(eventCh, Event) ELSE eventCh

\* The call ends and its deferred unlock runs.
Return(c, to) == writing' = Nobody /\ ReaderTo(c, to)

\* Mutant: the way out for an error does not unlock.
LaunchFailsLocked(c) ==
    /\ reader[c] = "holding" /\ Request(c) = "launch"
    /\ ReaderTo(c, "answering")
    /\ UNCHANGED <<peer, got, handled, writer, sendCh, done, server, debugger, panicked>>

\* The program may have started all the same: only its first stop did not come in time.
LaunchFails(c) ==
    /\ reader[c] = "holding" /\ Request(c) = "launch"
    /\ UNCHANGED running \/ (~closed /\ running' = TRUE)
    /\ Return(c, "answering")
    /\ UNCHANGED <<peer, got, handled, writer, sendCh, done, server, eventCh, closed, stops,
                   panicked>>

\* A successful call reads the state for its event with the lock held for writing; for the
\* answer its handler reads it once more.
Launch(c) ==
    /\ reader[c] = "holding" /\ Request(c) = "launch" /\ ~closed
    /\ running' = TRUE
    /\ IF ReadInsideWrite
       THEN eventCh' = Emitted /\ Return(c, "asking")
       ELSE ReaderTo(c, "stuck") /\ UNCHANGED <<writing, eventCh>>
    /\ UNCHANGED <<peer, got, handled, writer, sendCh, done, server, closed, stops, panicked>>

\* Debugger.Close.
Disconnect(c) ==
    /\ reader[c] = "holding" /\ Request(c) = "disconnect"
    /\ running' = FALSE /\ closed' = TRUE
    /\ panicked' = (~CloseIsOnce /\ closed)
    /\ Return(c, "answering")
    /\ UNCHANGED <<peer, got, handled, writer, sendCh, done, server, eventCh, stops>>

\* handleLaunch's own GetState, which waits for the lock like any reader.
GetState(c) ==
    /\ reader[c] = "asking" /\ writing = Nobody
    /\ ReaderTo(c, "answering")
    /\ UNCHANGED <<peer, got, handled, writer, sendCh, done, server, debugger, panicked>>

Answer(c) ==
    /\ reader[c] = "answering"
    /\ Send(c, [answer |-> handled[c]])
    /\ ReaderTo(c, "reading")
    /\ UNCHANGED <<peer, got, handled, writer, done, server, debugger, panicked>>

ReaderCloses(c) ==
    /\ reader[c] = "closing"
    /\ Close({c})
    /\ ReaderTo(c, "ended")
    /\ UNCHANGED <<peer, got, handled, writer, sendCh, server, debugger>>

-----------------------------------------------------------------------------
(* Writing.                                                                 *)

\* Mutant: what has been written stays queued until the next time.
WriteKeeps(c) ==
    /\ writer[c] = "waiting" /\ sendCh[c] # <<>> /\ ~done[c]
    /\ got' = IF peer[c] = "gone" THEN got
              ELSE [got EXCEPT ![c] = @ \o Answers(sendCh[c])]
    /\ UNCHANGED <<peer, reader, handled, writer, sendCh, done, server, debugger, panicked>>

\* One message and all that queue behind it go out in one frame.  If the other side is gone or
\* the connection closed they are lost, and on a closed one the writer always notices.
Write(c) ==
    /\ writer[c] = "waiting" /\ sendCh[c] # <<>>
    /\ sendCh' = [sendCh EXCEPT ![c] = <<>>]
    /\ \/ /\ ~done[c]
          /\ got' = IF peer[c] = "gone" THEN got
                    ELSE [got EXCEPT ![c] = @ \o Answers(sendCh[c])]
          /\ UNCHANGED <<writer, done, panicked>>
       \/ /\ peer[c] = "gone" \/ done[c]
          /\ writer' = [writer EXCEPT ![c] = "ended"] /\ Close({c}) /\ UNCHANGED got
    /\ UNCHANGED <<peer, reader, handled, server, debugger>>

\* It finds doneCh closed, or a ping fails, and closes the connection on its way out.
WriterEnds(c) ==
    /\ writer[c] = "waiting" /\ (done[c] \/ peer[c] = "gone")
    /\ writer' = [writer EXCEPT ![c] = "ended"]
    /\ Close({c})
    /\ UNCHANGED <<peer, got, reader, handled, sendCh, server, debugger>>

-----------------------------------------------------------------------------
(* Events.                                                                  *)

\* The ticker finds the program stopped; the lock is its own for the whole of it.
Tick ==
    /\ writing = Nobody /\ running /\ stops < MaxStops
    /\ IF ReadInsideWrite
       THEN eventCh' = Emitted /\ UNCHANGED writing
       ELSE writing' = Ticker /\ UNCHANGED eventCh
    /\ stops' = stops + 1
    /\ UNCHANGED <<connection, server, running, closed, panicked>>

Broadcast ==
    /\ eventCh # <<>>
    /\ pending' = [c \in Clients |-> IF c \in clients THEN pending[c] + 1 ELSE pending[c]]
    /\ eventCh' = Tail(eventCh)
    /\ UNCHANGED <<connection, clients, shutdown, writing, running, closed, stops, panicked>>

SendEvent(c) ==
    /\ pending[c] > 0
    /\ Send(c, Event)
    /\ pending' = [pending EXCEPT ![c] = @ - 1]
    /\ UNCHANGED <<peer, got, reader, handled, writer, done, clients, shutdown, debugger, panicked>>

-----------------------------------------------------------------------------
Locking(c) == Query(c) \/ Acquire(c) \/ GetState(c)
Call(c) == LaunchFails(c) \/ Launch(c) \/ Disconnect(c)
Reader(c) == ReadMessage(c) \/ ReadFails(c) \/ Call(c) \/ Answer(c) \/ ReaderCloses(c)
Writer(c) == Write(c) \/ WriterEnds(c)

AiNext ==
    /\ ~panicked
    /\ \/ \E c \in Clients :
             \/ Leave(c) \/ Register(c) \/ Unregister(c)
             \/ Reader(c) \/ Locking(c) \/ Writer(c) \/ SendEvent(c)
       \/ Shutdown \/ Tick \/ Broadcast

\* The goroutines run, the lock and the channels serve whoever waits; nobody has to connect,
\* ask, leave or shut down.
AiSpec ==
    /\ AiInit /\ [][AiNext]_aiVars
    /\ \A c \in Clients :
          /\ WF_aiVars(Reader(c)) /\ WF_aiVars(Writer(c))
          /\ SF_aiVars(Locking(c)) /\ WF_aiVars(Unregister(c) /\ ~shutdown)

-----------------------------------------------------------------------------
(* Properties.                                                              *)

\* A peer may match answers to requests by their order: whatever is dropped, and however
\* events come between them, the answers it gets are in the order of its requests and none
\* comes twice (readPump, Send, writePump).
AnswersInOrder ==
    \A c \in Clients :
        \A i, j \in DOMAIN got[c] : i < j => got[c][i].answer < got[c][j].answer

\* A request that reached the debugger comes back, whatever the other connections, the ticker
\* and a shutdown do with the lock (Debugger.mu), and though a launch waits for it twice
\* (handleLaunch, handleAttach); as long as the lock's writer may read.
CallsEnd == \A c \in Clients : reader[c] = "calling" ~> reader[c] \in {"reading", "leaving"}

\* README.md:482 starts a program with debugger.Launch(ctx) and goes on to set a breakpoint: a
\* launch comes back (Launch).
LaunchReturns ==
    \A c \in Clients :
        reader[c] = "calling" /\ Request(c) = "launch" ~> reader[c] \in {"asking", "answering"}

\* A connection whose other side is gone leaves the registry and ends both its goroutines,
\* unless the server is shut down, after which nobody serves register and unregister.
GoneIsForgotten ==
    \A c \in Leavers :
        peer[c] = "gone" /\ reader[c] # "registering"
            ~> shutdown
               \/ (c \notin clients /\ reader[c] = "ended" /\ writer[c] = "ended")

\* main.go:89 means to shut down gracefully and websocket.go:1247 to log that a connection
\* ended and how many remain: the process outlives the end of a connection.
NoPanic == ~panicked
=============================================================================
