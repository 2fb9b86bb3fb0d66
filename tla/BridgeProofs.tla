---------------------------- MODULE BridgeProofs ----------------------------
(***************************************************************************)
(* Proofs about module Bridge, for every Capacity, MaxSignals and          *)
(* MaxSockets.  Inv is the inductive invariant; it says for each place of  *)
(* the main task how far the socket loops have come (SocketsAt), what the  *)
(* channel holds (QueueAt) and how many Shutdown events the signals        *)
(* delivered so far can account for (Budget).                              *)
(***************************************************************************)
EXTENDS Bridge, TLAPS

\* The sockets before and from the cursor on.
Visited == 1..(cursor - 1)
Unvisited == cursor..sockets

SocketsAt ==
    /\ pc = "initialise" =>
          open = {} /\ joined = {} /\ left = {} /\ sockets = 0
    /\ pc = "connect" =>
          /\ open = Visited
          /\ joined = multicast_selected \intersect Visited
          /\ left = {}
    /\ pc \in Serving =>
          open = 1..sockets /\ joined = multicast_selected /\ left = {}
    /\ pc = "disconnect" =>
          /\ open = Unvisited
          /\ joined = multicast_selected \intersect Unvisited
          /\ left = multicast_selected \intersect Visited
    /\ pc = "exited" =>
          open = {} /\ joined = {} /\ left = multicast_selected
    /\ pc = "failed" =>
          open = {} /\ joined = {}

ShutdownFrom(k) == \A i \in DOMAIN queue : i >= k => queue[i] = "Shutdown"

\* The three forms the channel takes while the loop runs, in this order.
BothQueued ==
    /\ sent = 0
    /\ Len(queue) >= 2
    /\ queue[1] = "Startup"
    /\ queue[2] = "Announce"
    /\ ShutdownFrom(3)

AnnounceQueued ==
    /\ sent = 0
    /\ Len(queue) >= 1
    /\ queue[1] = "Announce"
    /\ ShutdownFrom(2)

OnlyShutdowns ==
    /\ sent = 1
    /\ ShutdownFrom(1)

QueueAt ==
    /\ pc \in {"initialise", "connect", "startup"} => queue = <<>> /\ sent = 0
    /\ pc = "announce" => queue = <<"Startup">> /\ sent = 0
    /\ pc \in {"select", "shutdown"} =>
          BothQueued \/ AnnounceQueued \/ OnlyShutdowns
    /\ pc \in {"disconnect", "exited"} => OnlyShutdowns

\* Signals recorded and not yet received, and the one being handled.
PendingCount ==
    (IF "SIGINT" \in pending THEN 1 ELSE 0) +
    (IF "SIGTERM" \in pending THEN 1 ELSE 0)

InHand == IF pc = "shutdown" THEN 1 ELSE 0

\* Every Shutdown in the channel, in hand or to come was paid for by a signal.
Budget ==
    /\ PendingCount <= delivered
    /\ pc \in {"select", "shutdown"} =>
          LET demand == Len(queue) + InHand + PendingCount
          IN  /\ BothQueued => demand <= delivered + 2
              /\ AnnounceQueued => demand <= delivered + 1
              /\ OnlyShutdowns => demand <= delivered
    /\ pc = "disconnect" => delivered > 0

Inv == TypeOK /\ SocketsAt /\ QueueAt /\ Budget

-----------------------------------------------------------------------------
(* The invariant holds initially and is preserved by every step.           *)

\* The state in which main.rs enters the set-up satisfies the invariant.
LEMMA InitInv == Init => Inv
<1> SUFFICES ASSUME Init PROVE Inv
    OBVIOUS
<1> USE DEF Init, ConnectorInit, MiddlewareInit
<1>1. ConnectorTypeOK
    BY MaxSocketsAssumption DEF ConnectorTypeOK
<1>2. MiddlewareTypeOK
    BY CapacityAssumption DEF MiddlewareTypeOK
<1>3. TypeOK
  <2>1. pc \in Places /\ delivered \in 0..MaxSignals /\ sent \in Nat
    BY MaxSignalsAssumption DEF Places, Running
  <2>2. pending \subseteq Signal /\ tickDue \in BOOLEAN
    BY Zenon
  <2> QED
    BY <1>1, <1>2, <2>1, <2>2, Zenon DEF TypeOK
<1>4. SocketsAt /\ QueueAt
    BY DEF SocketsAt, QueueAt, Serving
<1>5. Budget
    BY DEF Budget, PendingCount
<1> QED
    BY <1>3, <1>4, <1>5 DEF Inv

\* Every step of the process keeps every variable in its type; the channel
\* stays within its capacity because send waits for room.
LEMMA TypeStep ==
    TypeOK /\ SocketsAt /\ [Next]_vars => TypeOK'
<1> SUFFICES ASSUME TypeOK /\ SocketsAt, [Next]_vars
             PROVE  TypeOK'
    OBVIOUS
<1>1. CASE \E signal \in Signal : DeliverSignal(signal)
    BY <1>1, MaxSocketsAssumption, CapacityAssumption, MaxSignalsAssumption
    DEF DeliverSignal, connectorVars, environmentVars, TypeOK,
        ConnectorTypeOK, MiddlewareTypeOK,
        Places, Running, Serving, Signal, Event
<1>2. CASE TimerFires
    BY <1>2, MaxSocketsAssumption, CapacityAssumption, MaxSignalsAssumption
    DEF TimerFires, connectorVars, environmentVars, TypeOK, ConnectorTypeOK,
        MiddlewareTypeOK,
        Places, Running, Serving, Signal, Event
<1>3. CASE Initialise
  <2>1. PICK n \in 0..MaxSockets :
           sockets' = n /\ multicast_selected' \in SUBSET (1..n)
    BY <1>3 DEF Initialise, SaveSockets
  <2>2. open = {} /\ joined = {} /\ left = {}
    BY <1>3 DEF Initialise, SocketsAt
  <2>3. ConnectorTypeOK'
    BY <1>3, <2>1, <2>2, MaxSocketsAssumption
    DEF Initialise, SaveSockets, ConnectorTypeOK
  <2> QED
    BY <1>3, <2>3
    DEF Initialise, environmentVars, TypeOK, MiddlewareTypeOK, Places, Running
<1>4. CASE InitialiseFails
    BY <1>4, MaxSocketsAssumption, CapacityAssumption, MaxSignalsAssumption
    DEF InitialiseFails, SaveNothing, connectorVars, environmentVars, TypeOK,
        ConnectorTypeOK, MiddlewareTypeOK,
        Places, Running, Serving, Signal, Event
<1>5. CASE ConnectSocket
    BY <1>5, MaxSocketsAssumption, CapacityAssumption, MaxSignalsAssumption
    DEF ConnectSocket, OpenSocket, LoopDone, connectorVars, environmentVars,
        TypeOK, ConnectorTypeOK, MiddlewareTypeOK,
        Places, Running, Serving, Signal, Event
<1>6. CASE ConnectFails
    BY <1>6, MaxSocketsAssumption, CapacityAssumption, MaxSignalsAssumption
    DEF ConnectFails, OpenSocketFails, LoopDone, connectorVars,
        environmentVars, TypeOK, ConnectorTypeOK, MiddlewareTypeOK,
        Places, Running, Serving, Signal, Event
<1>7. CASE Connected
    BY <1>7, MaxSocketsAssumption, CapacityAssumption, MaxSignalsAssumption
    DEF Connected, LoopDone, connectorVars, environmentVars, TypeOK,
        ConnectorTypeOK, MiddlewareTypeOK,
        Places, Running, Serving, Signal, Event
<1>8. CASE SendStartup
    BY <1>8, MaxSocketsAssumption, CapacityAssumption, MaxSignalsAssumption
    DEF SendStartup, StartupEvent, Send, HasRoom, connectorVars,
        environmentVars, TypeOK, ConnectorTypeOK, MiddlewareTypeOK,
        Places, Running, Serving, Signal, Event
<1>9. CASE SendAnnounce
    BY <1>9, MaxSocketsAssumption, CapacityAssumption, MaxSignalsAssumption
    DEF SendAnnounce, AnnounceEvent, Send, HasRoom, connectorVars,
        environmentVars, TypeOK, ConnectorTypeOK, MiddlewareTypeOK,
        Places, Running, Serving, Signal, Event
<1>10. CASE SendShutdown
    BY <1>10, MaxSocketsAssumption, CapacityAssumption, MaxSignalsAssumption
    DEF SendShutdown, ShutdownEvent, Send, HasRoom, connectorVars,
        environmentVars, TypeOK, ConnectorTypeOK, MiddlewareTypeOK,
        Places, Running, Serving, Signal, Event
<1>11. CASE DisconnectSocket
    BY <1>11, MaxSocketsAssumption, CapacityAssumption, MaxSignalsAssumption
    DEF DisconnectSocket, CloseSocket, LoopDone, connectorVars,
        environmentVars, TypeOK, ConnectorTypeOK, MiddlewareTypeOK,
        Places, Running, Serving, Signal, Event
<1>12. CASE DisconnectFails
    BY <1>12, MaxSocketsAssumption, CapacityAssumption, MaxSignalsAssumption
    DEF DisconnectFails, CloseSocketFails, LoopDone, connectorVars,
        environmentVars, TypeOK, ConnectorTypeOK, MiddlewareTypeOK,
        Places, Running, Serving, Signal, Event
<1>13. CASE Disconnected
    BY <1>13, MaxSocketsAssumption, CapacityAssumption, MaxSignalsAssumption
    DEF Disconnected, LoopDone, connectorVars, environmentVars, TypeOK,
        ConnectorTypeOK, MiddlewareTypeOK,
        Places, Running, Serving, Signal, Event
<1>14. CASE Unwind
    BY <1>14, MaxSocketsAssumption, CapacityAssumption, MaxSignalsAssumption
    DEF Unwind, DropNetwork, connectorVars, environmentVars, TypeOK,
        ConnectorTypeOK, MiddlewareTypeOK,
        Places, Running, Serving, Signal, Event
<1>15. CASE \E signal \in Signal : HandleSignal(signal)
    BY <1>15, MaxSocketsAssumption, CapacityAssumption, MaxSignalsAssumption
    DEF HandleSignal, connectorVars, environmentVars, TypeOK,
        ConnectorTypeOK, MiddlewareTypeOK,
        Places, Running, Serving, Signal, Event
<1>16. CASE HandleTick
    BY <1>16, MaxSocketsAssumption, CapacityAssumption, MaxSignalsAssumption
    DEF HandleTick, connectorVars, environmentVars, TypeOK, ConnectorTypeOK,
        MiddlewareTypeOK,
        Places, Running, Serving, Signal, Event
<1>17. CASE RecvStartup
    BY <1>17, MaxSocketsAssumption, CapacityAssumption, MaxSignalsAssumption
    DEF RecvStartup, Recv, connectorVars, environmentVars, TypeOK,
        ConnectorTypeOK, MiddlewareTypeOK,
        Places, Running, Serving, Signal, Event
<1>18. CASE RecvAnnounce
    BY <1>18, MaxSocketsAssumption, CapacityAssumption, MaxSignalsAssumption
    DEF RecvAnnounce, Recv, connectorVars, environmentVars, TypeOK,
        ConnectorTypeOK, MiddlewareTypeOK,
        Places, Running, Serving, Signal, Event
<1>19. CASE RecvShutdown
    BY <1>19, MaxSocketsAssumption, CapacityAssumption, MaxSignalsAssumption
    DEF RecvShutdown, Recv, Rewind, connectorVars, environmentVars, TypeOK,
        ConnectorTypeOK, MiddlewareTypeOK,
        Places, Running, Serving, Signal, Event
<1>20. CASE UNCHANGED vars
    BY <1>20, MaxSocketsAssumption, CapacityAssumption, MaxSignalsAssumption
    DEF vars, connectorVars, TypeOK, ConnectorTypeOK, MiddlewareTypeOK,
        Places, Running, Serving, Signal, Event
<1> QED
    BY <1>1, <1>2, <1>3, <1>4, <1>5, <1>6, <1>7, <1>8, <1>9, <1>10, <1>11, <1>12, <1>13, <1>14, <1>15, <1>16, <1>17, <1>18, <1>19, <1>20
    DEF Next, MainStep, RecvEvent, Terminated

\* connect opens and joins the sockets in list order, disconnect leaves and
\* closes them in list order, and nothing else touches them.
LEMMA SocketsStep ==
    TypeOK /\ SocketsAt /\ [Next]_vars => SocketsAt'
<1> SUFFICES ASSUME TypeOK /\ SocketsAt, [Next]_vars
             PROVE  SocketsAt'
    OBVIOUS
<1>1. CASE \E signal \in Signal : DeliverSignal(signal)
    BY <1>1
    DEF DeliverSignal, connectorVars, environmentVars, TypeOK,
        ConnectorTypeOK, SocketsAt, Visited, Unvisited,
        Serving
<1>2. CASE TimerFires
    BY <1>2
    DEF TimerFires, connectorVars, environmentVars, TypeOK, ConnectorTypeOK,
        SocketsAt, Visited, Unvisited,
        Serving
<1>3. CASE Initialise
    BY <1>3
    DEF Initialise, SaveSockets, connectorVars, environmentVars, TypeOK,
        ConnectorTypeOK, SocketsAt, Visited, Unvisited,
        Serving
<1>4. CASE InitialiseFails
    BY <1>4
    DEF InitialiseFails, SaveNothing, connectorVars, environmentVars, TypeOK,
        ConnectorTypeOK, SocketsAt, Visited, Unvisited,
        Serving
<1>5. CASE ConnectSocket
    BY <1>5
    DEF ConnectSocket, OpenSocket, LoopDone, connectorVars, environmentVars,
        TypeOK, ConnectorTypeOK, SocketsAt, Visited, Unvisited,
        Serving
<1>6. CASE ConnectFails
    BY <1>6
    DEF ConnectFails, OpenSocketFails, LoopDone, connectorVars,
        environmentVars, TypeOK, ConnectorTypeOK, SocketsAt, Visited,
        Unvisited,
        Serving
<1>7. CASE Connected
  <2>1. Visited = 1..sockets
    BY <1>7 DEF Connected, LoopDone, TypeOK, ConnectorTypeOK, Visited
  <2>2. open' = 1..sockets' /\ joined' = multicast_selected' /\ left' = {}
    BY <1>7, <2>1
    DEF Connected, connectorVars, TypeOK, ConnectorTypeOK, SocketsAt
  <2> QED
    BY <1>7, <2>2 DEF Connected, SocketsAt
<1>8. CASE SendStartup
    BY <1>8
    DEF SendStartup, StartupEvent, Send, HasRoom, connectorVars,
        environmentVars, TypeOK, ConnectorTypeOK, SocketsAt, Visited,
        Unvisited,
        Serving
<1>9. CASE SendAnnounce
    BY <1>9
    DEF SendAnnounce, AnnounceEvent, Send, HasRoom, connectorVars,
        environmentVars, TypeOK, ConnectorTypeOK, SocketsAt, Visited,
        Unvisited,
        Serving
<1>10. CASE SendShutdown
    BY <1>10
    DEF SendShutdown, ShutdownEvent, Send, HasRoom, connectorVars,
        environmentVars, TypeOK, ConnectorTypeOK, SocketsAt, Visited,
        Unvisited,
        Serving
<1>11. CASE DisconnectSocket
    BY <1>11
    DEF DisconnectSocket, CloseSocket, LoopDone, connectorVars,
        environmentVars, TypeOK, ConnectorTypeOK, SocketsAt, Visited,
        Unvisited,
        Serving
<1>12. CASE DisconnectFails
    BY <1>12
    DEF DisconnectFails, CloseSocketFails, LoopDone, connectorVars,
        environmentVars, TypeOK, ConnectorTypeOK, SocketsAt, Visited,
        Unvisited,
        Serving
<1>13. CASE Disconnected
  <2>1. Visited = 1..sockets /\ Unvisited = {}
    BY <1>13
    DEF Disconnected, LoopDone, TypeOK, ConnectorTypeOK, Visited, Unvisited
  <2>2. open' = {} /\ joined' = {} /\ left' = multicast_selected'
    BY <1>13, <2>1
    DEF Disconnected, connectorVars, TypeOK, ConnectorTypeOK, SocketsAt
  <2> QED
    BY <1>13, <2>2 DEF Disconnected, SocketsAt, Serving
<1>14. CASE Unwind
    BY <1>14
    DEF Unwind, DropNetwork, connectorVars, environmentVars, TypeOK,
        ConnectorTypeOK, SocketsAt, Visited, Unvisited,
        Serving
<1>15. CASE \E signal \in Signal : HandleSignal(signal)
    BY <1>15
    DEF HandleSignal, connectorVars, environmentVars, TypeOK,
        ConnectorTypeOK, SocketsAt, Visited, Unvisited,
        Serving
<1>16. CASE HandleTick
    BY <1>16
    DEF HandleTick, connectorVars, environmentVars, TypeOK, ConnectorTypeOK,
        SocketsAt, Visited, Unvisited,
        Serving
<1>17. CASE RecvStartup
    BY <1>17
    DEF RecvStartup, Recv, connectorVars, environmentVars, TypeOK,
        ConnectorTypeOK, SocketsAt, Visited, Unvisited,
        Serving
<1>18. CASE RecvAnnounce
    BY <1>18
    DEF RecvAnnounce, Recv, connectorVars, environmentVars, TypeOK,
        ConnectorTypeOK, SocketsAt, Visited, Unvisited,
        Serving
<1>19. CASE RecvShutdown
  <2>1. open' = 1..sockets' /\ joined' = multicast_selected' /\ left' = {}
    BY <1>19 DEF RecvShutdown, Rewind, SocketsAt, Serving
  <2>2. Visited' = {} /\ Unvisited' = 1..sockets'
    BY <1>19 DEF RecvShutdown, Rewind, Visited, Unvisited
  <2>3. multicast_selected' \subseteq 1..sockets'
    BY <1>19 DEF RecvShutdown, Rewind, TypeOK, ConnectorTypeOK
  <2> QED
    BY <1>19, <2>1, <2>2, <2>3 DEF RecvShutdown, SocketsAt, Serving
<1>20. CASE UNCHANGED vars
    BY <1>20
    DEF vars, connectorVars, TypeOK, ConnectorTypeOK, SocketsAt, Visited,
        Unvisited,
        Serving
<1> QED
    BY <1>1, <1>2, <1>3, <1>4, <1>5, <1>6, <1>7, <1>8, <1>9, <1>10, <1>11, <1>12, <1>13, <1>14, <1>15, <1>16, <1>17, <1>18, <1>19, <1>20
    DEF Next, MainStep, RecvEvent, Terminated

\* Startup and Announce leave the channel before any Shutdown does.
LEMMA QueueStep ==
    TypeOK /\ QueueAt /\ [Next]_vars => QueueAt'
<1> SUFFICES ASSUME TypeOK /\ QueueAt, [Next]_vars
             PROVE  QueueAt'
    OBVIOUS
<1>1. CASE \E signal \in Signal : DeliverSignal(signal)
    BY <1>1, CapacityAssumption
    DEF DeliverSignal, connectorVars, environmentVars, TypeOK,
        MiddlewareTypeOK, QueueAt, BothQueued,
        AnnounceQueued, OnlyShutdowns, ShutdownFrom, Event
<1>2. CASE TimerFires
    BY <1>2, CapacityAssumption
    DEF TimerFires, connectorVars, environmentVars, TypeOK, MiddlewareTypeOK,
        QueueAt, BothQueued,
        AnnounceQueued, OnlyShutdowns, ShutdownFrom, Event
<1>3. CASE Initialise
    BY <1>3, CapacityAssumption
    DEF Initialise, SaveSockets, connectorVars, environmentVars, TypeOK,
        MiddlewareTypeOK, QueueAt, BothQueued,
        AnnounceQueued, OnlyShutdowns, ShutdownFrom, Event
<1>4. CASE InitialiseFails
    BY <1>4, CapacityAssumption
    DEF InitialiseFails, SaveNothing, connectorVars, environmentVars, TypeOK,
        MiddlewareTypeOK, QueueAt, BothQueued,
        AnnounceQueued, OnlyShutdowns, ShutdownFrom, Event
<1>5. CASE ConnectSocket
    BY <1>5, CapacityAssumption
    DEF ConnectSocket, OpenSocket, LoopDone, connectorVars, environmentVars,
        TypeOK, MiddlewareTypeOK, QueueAt, BothQueued,
        AnnounceQueued, OnlyShutdowns, ShutdownFrom, Event
<1>6. CASE ConnectFails
    BY <1>6, CapacityAssumption
    DEF ConnectFails, OpenSocketFails, LoopDone, connectorVars,
        environmentVars, TypeOK, MiddlewareTypeOK, QueueAt, BothQueued,
        AnnounceQueued, OnlyShutdowns, ShutdownFrom, Event
<1>7. CASE Connected
    BY <1>7, CapacityAssumption
    DEF Connected, LoopDone, connectorVars, environmentVars, TypeOK,
        MiddlewareTypeOK, QueueAt, BothQueued,
        AnnounceQueued, OnlyShutdowns, ShutdownFrom, Event
<1>8. CASE SendStartup
    BY <1>8, CapacityAssumption
    DEF SendStartup, StartupEvent, Send, HasRoom, connectorVars,
        environmentVars, TypeOK, MiddlewareTypeOK, QueueAt, BothQueued,
        AnnounceQueued, OnlyShutdowns, ShutdownFrom, Event
<1>9. CASE SendAnnounce
  <2>1. queue = <<"Startup">> /\ sent = 0 /\ sent' = 0
    BY <1>9 DEF SendAnnounce, QueueAt
  <2>2. Len(queue) = 1 /\ queue[1] = "Startup"
    BY <2>1
  <2>3. queue' = Append(queue, "Announce") /\ queue \in Seq(Event)
    BY <1>9
    DEF SendAnnounce, AnnounceEvent, Send, TypeOK, MiddlewareTypeOK
  <2>4. /\ Len(queue') = 2
        /\ DOMAIN queue' = 1..2
        /\ queue'[1] = "Startup"
        /\ queue'[2] = "Announce"
    <3>1. queue' \in Seq(Event) /\ Len(queue') = Len(queue) + 1
      BY <2>3 DEF Event
    <3>2. queue'[Len(queue) + 1] = "Announce"
      BY <2>3 DEF Event
    <3>3. queue'[1] = queue[1]
      BY <2>2, <2>3 DEF Event
    <3> QED
      BY <2>2, <3>1, <3>2, <3>3
  <2>5. BothQueued'
    BY <2>1, <2>4 DEF BothQueued, ShutdownFrom
  <2> QED
    BY <1>9, <2>5 DEF SendAnnounce, QueueAt
<1>10. CASE SendShutdown
    BY <1>10, CapacityAssumption
    DEF SendShutdown, ShutdownEvent, Send, HasRoom, connectorVars,
        environmentVars, TypeOK, MiddlewareTypeOK, QueueAt, BothQueued,
        AnnounceQueued, OnlyShutdowns, ShutdownFrom, Event
<1>11. CASE DisconnectSocket
    BY <1>11, CapacityAssumption
    DEF DisconnectSocket, CloseSocket, LoopDone, connectorVars,
        environmentVars, TypeOK, MiddlewareTypeOK, QueueAt, BothQueued,
        AnnounceQueued, OnlyShutdowns, ShutdownFrom, Event
<1>12. CASE DisconnectFails
    BY <1>12, CapacityAssumption
    DEF DisconnectFails, CloseSocketFails, LoopDone, connectorVars,
        environmentVars, TypeOK, MiddlewareTypeOK, QueueAt, BothQueued,
        AnnounceQueued, OnlyShutdowns, ShutdownFrom, Event
<1>13. CASE Disconnected
    BY <1>13, CapacityAssumption
    DEF Disconnected, LoopDone, connectorVars, environmentVars, TypeOK,
        MiddlewareTypeOK, QueueAt, BothQueued,
        AnnounceQueued, OnlyShutdowns, ShutdownFrom, Event
<1>14. CASE Unwind
    BY <1>14, CapacityAssumption
    DEF Unwind, DropNetwork, connectorVars, environmentVars, TypeOK,
        MiddlewareTypeOK, QueueAt, BothQueued,
        AnnounceQueued, OnlyShutdowns, ShutdownFrom, Event
<1>15. CASE \E signal \in Signal : HandleSignal(signal)
    BY <1>15, CapacityAssumption
    DEF HandleSignal, connectorVars, environmentVars, TypeOK,
        MiddlewareTypeOK, QueueAt, BothQueued,
        AnnounceQueued, OnlyShutdowns, ShutdownFrom, Event
<1>16. CASE HandleTick
    BY <1>16, CapacityAssumption
    DEF HandleTick, connectorVars, environmentVars, TypeOK, MiddlewareTypeOK,
        QueueAt, BothQueued,
        AnnounceQueued, OnlyShutdowns, ShutdownFrom, Event
<1>17. CASE RecvStartup
    BY <1>17, CapacityAssumption
    DEF RecvStartup, Recv, connectorVars, environmentVars, TypeOK,
        MiddlewareTypeOK, QueueAt, BothQueued,
        AnnounceQueued, OnlyShutdowns, ShutdownFrom, Event
<1>18. CASE RecvAnnounce
    BY <1>18, CapacityAssumption
    DEF RecvAnnounce, Recv, connectorVars, environmentVars, TypeOK,
        MiddlewareTypeOK, QueueAt, BothQueued,
        AnnounceQueued, OnlyShutdowns, ShutdownFrom, Event
<1>19. CASE RecvShutdown
    BY <1>19, CapacityAssumption
    DEF RecvShutdown, Recv, Rewind, connectorVars, environmentVars, TypeOK,
        MiddlewareTypeOK, QueueAt, BothQueued,
        AnnounceQueued, OnlyShutdowns, ShutdownFrom, Event
<1>20. CASE UNCHANGED vars
    BY <1>20, CapacityAssumption
    DEF vars, connectorVars, TypeOK, MiddlewareTypeOK, QueueAt, BothQueued,
        AnnounceQueued, OnlyShutdowns, ShutdownFrom, Event
<1> QED
    BY <1>1, <1>2, <1>3, <1>4, <1>5, <1>6, <1>7, <1>8, <1>9, <1>10, <1>11, <1>12, <1>13, <1>14, <1>15, <1>16, <1>17, <1>18, <1>19, <1>20
    DEF Next, MainStep, RecvEvent, Terminated

\* Each delivered signal leads to at most one Shutdown event.
LEMMA BudgetStep ==
    TypeOK /\ QueueAt /\ Budget /\ [Next]_vars => Budget'
<1> SUFFICES ASSUME TypeOK /\ QueueAt /\ Budget, [Next]_vars
             PROVE  Budget'
    OBVIOUS
<1>1. CASE \E signal \in Signal : DeliverSignal(signal)
  <2>1. PICK signal \in Signal : DeliverSignal(signal)
    BY <1>1
  <2>2. PendingCount' <= PendingCount + 1 /\ PendingCount \in Nat
    BY <2>1 DEF DeliverSignal, PendingCount, Signal
  <2>3. delivered' = delivered + 1 /\ delivered \in Nat
    BY <2>1 DEF DeliverSignal, TypeOK
  <2>4. UNCHANGED <<queue, pc, sent>>
    BY <2>1 DEF DeliverSignal
  <2>5. Len(queue) \in Nat /\ InHand \in Nat
    BY DEF TypeOK, MiddlewareTypeOK, InHand
  <2>6. PendingCount' \in Nat
    BY DEF PendingCount
  <2> QED
    BY <2>2, <2>3, <2>4, <2>5, <2>6
    DEF Budget, InHand, BothQueued, AnnounceQueued, OnlyShutdowns,
        ShutdownFrom
<1>2. CASE TimerFires
    BY <1>2, MaxSignalsAssumption
    DEF TimerFires, connectorVars, environmentVars, TypeOK, MiddlewareTypeOK,
        QueueAt, Budget, PendingCount,
        InHand, BothQueued, AnnounceQueued, OnlyShutdowns, ShutdownFrom, Signal, Event
<1>3. CASE Initialise
    BY <1>3, MaxSignalsAssumption
    DEF Initialise, SaveSockets, connectorVars, environmentVars, TypeOK,
        MiddlewareTypeOK, QueueAt, Budget, PendingCount,
        InHand, BothQueued, AnnounceQueued, OnlyShutdowns, ShutdownFrom, Signal, Event
<1>4. CASE InitialiseFails
    BY <1>4, MaxSignalsAssumption
    DEF InitialiseFails, SaveNothing, connectorVars, environmentVars, TypeOK,
        MiddlewareTypeOK, QueueAt, Budget, PendingCount,
        InHand, BothQueued, AnnounceQueued, OnlyShutdowns, ShutdownFrom, Signal, Event
<1>5. CASE ConnectSocket
    BY <1>5, MaxSignalsAssumption
    DEF ConnectSocket, OpenSocket, LoopDone, connectorVars, environmentVars,
        TypeOK, MiddlewareTypeOK, QueueAt, Budget, PendingCount,
        InHand, BothQueued, AnnounceQueued, OnlyShutdowns, ShutdownFrom, Signal, Event
<1>6. CASE ConnectFails
    BY <1>6, MaxSignalsAssumption
    DEF ConnectFails, OpenSocketFails, LoopDone, connectorVars,
        environmentVars, TypeOK, MiddlewareTypeOK, QueueAt, Budget,
        PendingCount,
        InHand, BothQueued, AnnounceQueued, OnlyShutdowns, ShutdownFrom, Signal, Event
<1>7. CASE Connected
    BY <1>7, MaxSignalsAssumption
    DEF Connected, LoopDone, connectorVars, environmentVars, TypeOK,
        MiddlewareTypeOK, QueueAt, Budget, PendingCount,
        InHand, BothQueued, AnnounceQueued, OnlyShutdowns, ShutdownFrom, Signal, Event
<1>8. CASE SendStartup
    BY <1>8, MaxSignalsAssumption
    DEF SendStartup, StartupEvent, Send, HasRoom, connectorVars,
        environmentVars, TypeOK, MiddlewareTypeOK, QueueAt, Budget,
        PendingCount,
        InHand, BothQueued, AnnounceQueued, OnlyShutdowns, ShutdownFrom, Signal, Event
<1>9. CASE SendAnnounce
    BY <1>9, MaxSignalsAssumption
    DEF SendAnnounce, AnnounceEvent, Send, HasRoom, connectorVars,
        environmentVars, TypeOK, MiddlewareTypeOK, QueueAt, Budget,
        PendingCount,
        InHand, BothQueued, AnnounceQueued, OnlyShutdowns, ShutdownFrom, Signal, Event
<1>10. CASE SendShutdown
    BY <1>10, MaxSignalsAssumption
    DEF SendShutdown, ShutdownEvent, Send, HasRoom, connectorVars,
        environmentVars, TypeOK, MiddlewareTypeOK, QueueAt, Budget,
        PendingCount,
        InHand, BothQueued, AnnounceQueued, OnlyShutdowns, ShutdownFrom, Signal, Event
<1>11. CASE DisconnectSocket
    BY <1>11, MaxSignalsAssumption
    DEF DisconnectSocket, CloseSocket, LoopDone, connectorVars,
        environmentVars, TypeOK, MiddlewareTypeOK, QueueAt, Budget,
        PendingCount,
        InHand, BothQueued, AnnounceQueued, OnlyShutdowns, ShutdownFrom, Signal, Event
<1>12. CASE DisconnectFails
    BY <1>12, MaxSignalsAssumption
    DEF DisconnectFails, CloseSocketFails, LoopDone, connectorVars,
        environmentVars, TypeOK, MiddlewareTypeOK, QueueAt, Budget,
        PendingCount,
        InHand, BothQueued, AnnounceQueued, OnlyShutdowns, ShutdownFrom, Signal, Event
<1>13. CASE Disconnected
    BY <1>13, MaxSignalsAssumption
    DEF Disconnected, LoopDone, connectorVars, environmentVars, TypeOK,
        MiddlewareTypeOK, QueueAt, Budget, PendingCount,
        InHand, BothQueued, AnnounceQueued, OnlyShutdowns, ShutdownFrom, Signal, Event
<1>14. CASE Unwind
    BY <1>14, MaxSignalsAssumption
    DEF Unwind, DropNetwork, connectorVars, environmentVars, TypeOK,
        MiddlewareTypeOK, QueueAt, Budget, PendingCount,
        InHand, BothQueued, AnnounceQueued, OnlyShutdowns, ShutdownFrom, Signal, Event
<1>15. CASE \E signal \in Signal : HandleSignal(signal)
    BY <1>15, MaxSignalsAssumption
    DEF HandleSignal, connectorVars, environmentVars, TypeOK,
        MiddlewareTypeOK, QueueAt, Budget, PendingCount,
        InHand, BothQueued, AnnounceQueued, OnlyShutdowns, ShutdownFrom, Signal, Event
<1>16. CASE HandleTick
    BY <1>16, MaxSignalsAssumption
    DEF HandleTick, connectorVars, environmentVars, TypeOK, MiddlewareTypeOK,
        QueueAt, Budget, PendingCount,
        InHand, BothQueued, AnnounceQueued, OnlyShutdowns, ShutdownFrom, Signal, Event
<1>17. CASE RecvStartup
    BY <1>17, MaxSignalsAssumption
    DEF RecvStartup, Recv, connectorVars, environmentVars, TypeOK,
        MiddlewareTypeOK, QueueAt, Budget, PendingCount,
        InHand, BothQueued, AnnounceQueued, OnlyShutdowns, ShutdownFrom, Signal, Event
<1>18. CASE RecvAnnounce
    BY <1>18, MaxSignalsAssumption
    DEF RecvAnnounce, Recv, connectorVars, environmentVars, TypeOK,
        MiddlewareTypeOK, QueueAt, Budget, PendingCount,
        InHand, BothQueued, AnnounceQueued, OnlyShutdowns, ShutdownFrom, Signal, Event
<1>19. CASE RecvShutdown
    BY <1>19, MaxSignalsAssumption
    DEF RecvShutdown, Recv, Rewind, connectorVars, environmentVars, TypeOK,
        MiddlewareTypeOK, QueueAt, Budget, PendingCount,
        InHand, BothQueued, AnnounceQueued, OnlyShutdowns, ShutdownFrom, Signal, Event
<1>20. CASE UNCHANGED vars
    BY <1>20, MaxSignalsAssumption
    DEF vars, connectorVars, TypeOK, MiddlewareTypeOK, QueueAt, Budget,
        PendingCount,
        InHand, BothQueued, AnnounceQueued, OnlyShutdowns, ShutdownFrom, Signal, Event
<1> QED
    BY <1>1, <1>2, <1>3, <1>4, <1>5, <1>6, <1>7, <1>8, <1>9, <1>10, <1>11, <1>12, <1>13, <1>14, <1>15, <1>16, <1>17, <1>18, <1>19, <1>20
    DEF Next, MainStep, RecvEvent, Terminated

\* The invariant is inductive.
LEMMA InvInductive == Spec => []Inv
<1>1. Init => Inv
    BY InitInv
<1>2. Inv /\ [Next]_vars => Inv'
    BY TypeStep, SocketsStep, QueueStep, BudgetStep DEF Inv
<1> QED
    BY <1>1, <1>2, PTL DEF Spec

-----------------------------------------------------------------------------
(* The theorems.                                                           *)

\* Every variable keeps its type, and the broadcast channel never holds more
\* events than its capacity.
THEOREM TypeCorrect == Spec => []TypeOK
<1>1. Inv => TypeOK
    BY DEF Inv
<1> QED
    BY <1>1, InvInductive, PTL

\* From the first middleware event until the select loop is left, every socket
\* of the connector is open and exactly the selected ones are in the group.
THEOREM AlwaysListening == Spec => []Listening
<1>1. Inv => Listening
    BY DEF Inv, SocketsAt, Listening
<1> QED
    BY <1>1, InvInductive, PTL

\* When the loop breaks, the announcement has been made once and the channel
\* that is dropped holds nothing but surplus Shutdown events.
THEOREM AlwaysFlushed == Spec => []FlushedAtBreak
<1>1. Inv => FlushedAtBreak
    BY DEF Inv, TypeOK, MiddlewareTypeOK, QueueAt, OnlyShutdowns,
           ShutdownFrom, FlushedAtBreak
<1> QED
    BY <1>1, InvInductive, PTL

\* No socket and no membership outlives the process, and an orderly exit has
\* left every group it joined.
THEOREM NeverLeaks == Spec => []NothingLeaked
<1>1. Inv => NothingLeaked
    BY DEF Inv, SocketsAt, NothingLeaked
<1> QED
    BY <1>1, InvInductive, PTL

\* The main task never waits for room in the channel that only it empties,
\* provided the channel has room for the two start-up events and one Shutdown
\* for every termination signal.
THEOREM RoomSuffices ==
    ASSUME MaxSignals + 2 <= Capacity
    PROVE  Spec => []NeverBlocked
<1>1. Inv => NeverBlocked
  <2> SUFFICES ASSUME Inv, pc \in Sending
               PROVE  HasRoom
      BY DEF NeverBlocked
  <2>1. Capacity >= 2 /\ Capacity \in Nat /\ Len(queue) \in Nat
      BY MaxSignalsAssumption, CapacityAssumption
      DEF Inv, TypeOK, MiddlewareTypeOK
  <2>2. CASE pc \in {"startup", "announce"}
    <3>1. CASE queue = <<>>
        BY <2>1, <3>1 DEF HasRoom
    <3>2. CASE queue = <<"Startup">>
      <4>1. Len(queue) = 1
          BY <3>2
      <4> QED
          BY <2>1, <4>1 DEF HasRoom
    <3> QED
        BY <2>2, <3>1, <3>2 DEF Inv, QueueAt
  <2>3. CASE pc = "shutdown"
    <3>1. PendingCount \in Nat /\ InHand = 1
        BY <2>3 DEF PendingCount, InHand
    <3>2. BothQueued \/ AnnounceQueued \/ OnlyShutdowns
        BY <2>3 DEF Inv, QueueAt
    <3>3. delivered \in Nat /\ delivered <= MaxSignals
        BY MaxSignalsAssumption DEF Inv, TypeOK
    <3>4. Len(queue) + InHand + PendingCount <= delivered + 2
        BY <2>1, <2>3, <3>1, <3>2, <3>3 DEF Inv, Budget
    <3> QED
        BY <2>1, <3>1, <3>3, <3>4, MaxSignalsAssumption DEF HasRoom
  <2> QED
      BY <2>2, <2>3 DEF Sending
<1> QED
    BY <1>1, InvInductive, PTL

-----------------------------------------------------------------------------
(* Bridge implements the safety part of Lifecycle.                         *)

\* What each place of the main task is for Lifecycle.
LEMMA PhaseOf ==
    /\ pc \in {"initialise", "connect"} => phaseBar = "starting"
    /\ pc \in Serving => phaseBar = "online"
    /\ pc = "disconnect" => phaseBar = "stopping"
    /\ pc = "exited" => phaseBar = "down"
    /\ pc \in {"unwind", "failed"} => phaseBar = "aborted"
BY DEF phaseBar, Serving

\* A step of the bridge is a step of Lifecycle or leaves it unchanged.
LEMMA StepImplements ==
    Inv /\ Inv' /\ [Next]_vars => [L!LifecycleNext]_(L!lifecycleVars)
<1> SUFFICES ASSUME Inv, Inv', [Next]_vars
             PROVE  \/ L!LifecycleNext
                    \/ UNCHANGED <<phaseBar, sent, delivered > 0>>
    BY DEF L!lifecycleVars
<1> USE DEF environmentVars
<1>1. CASE \E signal \in Signal : DeliverSignal(signal)
  <2>1. phaseBar # "down" /\ UNCHANGED <<phaseBar, sent>>
      BY <1>1, PhaseOf DEF DeliverSignal, Running, phaseBar, Serving
  <2>2. (delivered' > 0) = TRUE
      BY <1>1 DEF DeliverSignal, Inv, TypeOK
  <2> QED
      BY <2>1, <2>2 DEF L!LifecycleNext, L!Request
<1>2. CASE Connected
  <2>1. phaseBar = "starting" /\ phaseBar' = "online"
      BY <1>2 DEF Connected, phaseBar, Serving
  <2>2. UNCHANGED <<sent, delivered > 0>>
      BY <1>2 DEF Connected
  <2> QED
      BY <2>1, <2>2 DEF L!LifecycleNext, L!ComeUp
<1>3. CASE InitialiseFails
  <2>1. phaseBar = "starting" /\ phaseBar' = "aborted"
      BY <1>3 DEF InitialiseFails, phaseBar, Serving
  <2>2. UNCHANGED <<sent, delivered > 0>>
      BY <1>3 DEF InitialiseFails
  <2> QED
      BY <2>1, <2>2 DEF L!LifecycleNext, L!Abort
<1>4. CASE ConnectFails
  <2>1. phaseBar = "starting" /\ phaseBar' = "aborted"
      BY <1>4 DEF ConnectFails, phaseBar, Serving
  <2>2. UNCHANGED <<sent, delivered > 0>>
      BY <1>4 DEF ConnectFails
  <2> QED
      BY <2>1, <2>2 DEF L!LifecycleNext, L!Abort
<1>5. CASE DisconnectFails
  <2>1. phaseBar = "stopping" /\ phaseBar' = "aborted"
      BY <1>5 DEF DisconnectFails, phaseBar, Serving
  <2>2. UNCHANGED <<sent, delivered > 0>>
      BY <1>5 DEF DisconnectFails
  <2> QED
      BY <2>1, <2>2 DEF L!LifecycleNext, L!Abort
<1>6. CASE Disconnected
  <2>1. phaseBar = "stopping" /\ phaseBar' = "down"
      BY <1>6 DEF Disconnected, phaseBar, Serving
  <2>2. UNCHANGED <<sent, delivered > 0>>
      BY <1>6 DEF Disconnected
  <2> QED
      BY <2>1, <2>2 DEF L!LifecycleNext, L!Finish
<1>7. CASE RecvShutdown
  <2>1. phaseBar = "online" /\ phaseBar' = "stopping"
      BY <1>7 DEF RecvShutdown, phaseBar, Serving
  <2>2. UNCHANGED <<sent, delivered > 0>>
      BY <1>7 DEF RecvShutdown
  <2>3. sent = 1 /\ delivered > 0
      BY <1>7 DEF RecvShutdown, Inv, QueueAt, OnlyShutdowns, Budget
  <2> QED
      BY <2>1, <2>2, <2>3 DEF L!LifecycleNext, L!Stop
<1>8. CASE RecvAnnounce
  <2>1. phaseBar = "online" /\ phaseBar' = "online"
      BY <1>8 DEF RecvAnnounce, phaseBar, Serving
  <2>2. queue # <<>> /\ queue[1] = "Announce" /\ queue \in Seq(Event)
      BY <1>8 DEF RecvAnnounce, Recv, Inv, TypeOK, MiddlewareTypeOK
  <2>3. 1 \in DOMAIN queue
      BY <2>2
  <2>4. sent = 0 /\ sent' = 1
      BY <1>8, <2>2, <2>3
      DEF RecvAnnounce, Inv, QueueAt, BothQueued, AnnounceQueued,
          OnlyShutdowns, ShutdownFrom
  <2>5. UNCHANGED (delivered > 0)
      BY <1>8 DEF RecvAnnounce
  <2> QED
      BY <2>1, <2>4, <2>5 DEF L!LifecycleNext, L!Announce
<1>9. CASE TimerFires
    BY <1>9 DEF TimerFires, Running, phaseBar, Serving
<1>10. CASE Initialise
    BY <1>10 DEF Initialise, Running, phaseBar, Serving
<1>11. CASE ConnectSocket
    BY <1>11 DEF ConnectSocket, Running, phaseBar, Serving
<1>12. CASE SendStartup
    BY <1>12 DEF SendStartup, Running, phaseBar, Serving
<1>13. CASE SendAnnounce
    BY <1>13 DEF SendAnnounce, Running, phaseBar, Serving
<1>14. CASE SendShutdown
    BY <1>14 DEF SendShutdown, Running, phaseBar, Serving
<1>15. CASE DisconnectSocket
    BY <1>15 DEF DisconnectSocket, Running, phaseBar, Serving
<1>16. CASE Unwind
    BY <1>16 DEF Unwind, Running, phaseBar, Serving
<1>17. CASE \E signal \in Signal : HandleSignal(signal)
    BY <1>17 DEF HandleSignal, Running, phaseBar, Serving
<1>18. CASE HandleTick
    BY <1>18 DEF HandleTick, Running, phaseBar, Serving
<1>19. CASE RecvStartup
    BY <1>19 DEF RecvStartup, Running, phaseBar, Serving
<1>20. CASE UNCHANGED vars
    BY <1>20 DEF vars, phaseBar
<1> QED
    BY <1>1, <1>2, <1>3, <1>4, <1>5, <1>6, <1>7, <1>8, <1>9, <1>10, <1>11, <1>12, <1>13, <1>14, <1>15, <1>16, <1>17, <1>18, <1>19, <1>20
    DEF Next, MainStep, RecvEvent, Terminated

\* The process goes through the phases of Lifecycle: it leaves the loop only
\* when a signal was delivered and the announcement has been made, announces
\* itself once, and gives up only while setting up or taking down.
THEOREM LifecycleImplemented == Spec => ImplementsLifecycle
<1>1. Init => L!LifecycleInit
    BY DEF Init, ConnectorInit, MiddlewareInit, L!LifecycleInit, phaseBar,
           Serving
<1> QED
    BY <1>1, StepImplements, InvInductive, PTL
    DEF Spec, ImplementsLifecycle, L!LifecycleSafety

=============================================================================
