------------------------------ MODULE Middleware ------------------------------
(***************************************************************************)
(* The middleware's side of the broadcast channel (src/middleware/mod.rs   *)
(* and src/middleware/events.rs).  The channel is tokio's bounded mpsc     *)
(* channel: send().await does not complete while the channel is full, and  *)
(* events are received in the order in which they were sent.               *)
(*                                                                         *)
(* An Announce event carries two EOJs, the node's profile object and the   *)
(* node profile class.  Both are fixed when Middleware::new has run, so    *)
(* the event is represented by its variant alone.                          *)
(***************************************************************************)
EXTENDS Naturals, Sequences

CONSTANT Capacity         \* mpsc::channel::<Event>(16)

ASSUME CapacityAssumption == Capacity \in Nat \ {0}

VARIABLE queue            \* the events sent and not yet received

Event == {"Startup", "Announce", "Shutdown"}

MiddlewareTypeOK ==
    /\ queue \in Seq(Event)
    /\ Len(queue) <= Capacity

MiddlewareInit == queue = <<>>

\* Sender::send(..).await has room to complete.
HasRoom == Len(queue) < Capacity

\* Sender::send(..).await completes.
Send(event) ==
    /\ HasRoom
    /\ queue' = Append(queue, event)

\* Receiver::recv().await yields the oldest event.
Recv(event) ==
    /\ queue # <<>>
    /\ event = Head(queue)
    /\ queue' = Tail(queue)

\* Middleware::startup, its two awaits.
StartupEvent == Send("Startup")

AnnounceEvent == Send("Announce")

\* Middleware::shutdown, its only await.
ShutdownEvent == Send("Shutdown")

=============================================================================
