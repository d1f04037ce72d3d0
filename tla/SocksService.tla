---------------------------- MODULE SocksService ----------------------------
(***************************************************************************)
(* What the local SOCKS5 endpoint promises each connection it accepts,    *)
(* as the local client (tun2socks) and GetActiveStreams observe it:       *)
(*                                                                         *)
(*   - the first reply is 05 00, and only after the connection is open;   *)
(*   - a connection gets at most one CONNECT reply after that: 05 08 for  *)
(*     an address type it does not support, the generic failure 05 01,    *)
(*     or the upstream response, after which bytes are relayed;           *)
(*   - once the exchange with the upstream proxy has begun the connection *)
(*     is never closed without a CONNECT reply;                           *)
(*   - a connection is closed once, and the active count is the number of *)
(*     open connections.                                                  *)
(*                                                                         *)
(* Relay.tla implements this specification under the mapping given there. *)
(***************************************************************************)
EXTENDS Integers, Sequences

CONSTANTS Conns, NoAuth, Unsupported, Failure, Forwarded

VARIABLES
  phase,   \* per connection: idle, open, greeted, upstream, relaying, closed
  told,    \* per connection: the replies written to the local client
  active   \* the active-connection gauge

vars == <<phase, told, active>>

Init ==
  /\ phase = [c \in Conns |-> "idle"]
  /\ told = [c \in Conns |-> << >>]
  /\ active = 0

Move(c, from, to) ==
  /\ phase[c] \in from
  /\ phase' = [phase EXCEPT ![c] = to]

Tell(c, m) == told' = [told EXCEPT ![c] = Append(@, m)]

Open(c) ==
  /\ Move(c, {"idle"}, "open") /\ active' = active + 1 /\ UNCHANGED told

Greet(c) == Move(c, {"open"}, "greeted") /\ Tell(c, NoAuth) /\ UNCHANGED active

\* The relay begins its exchange with the upstream proxy.
Forward(c) == Move(c, {"greeted"}, "upstream") /\ UNCHANGED <<told, active>>

\* A CONNECT reply that ends the connection.
Refuse(c) ==
  \/ Move(c, {"greeted"}, "closed") /\ Tell(c, Unsupported) /\ active' = active - 1
  \/ Move(c, {"greeted", "upstream"}, "closed") /\ Tell(c, Failure)
     /\ active' = active - 1

\* The upstream response is passed on and relaying starts.
Connect(c) ==
  Move(c, {"upstream"}, "relaying") /\ Tell(c, Forwarded) /\ UNCHANGED active

\* Closing without a further reply: before the request went upstream, or
\* once relaying.
Close(c) ==
  /\ Move(c, {"open", "greeted", "relaying"}, "closed") /\ active' = active - 1
  /\ UNCHANGED told

Next ==
  \E c \in Conns :
    Open(c) \/ Greet(c) \/ Forward(c) \/ Refuse(c) \/ Connect(c) \/ Close(c)

Spec == Init /\ [][Next]_vars

=============================================================================
