------------------------------- MODULE Relay --------------------------------
(***************************************************************************)
(* handleSOCKS (src/dnstt-client/mobile/mobile.go), one goroutine per     *)
(* connection that acceptLoop hands over, with the tunnel pool it         *)
(* borrows from and the Stop that cancels the session.                    *)
(*                                                                         *)
(* Each relay is a process whose steps are its blocking I/O calls: the    *)
(* reads from the local client (tun2socks) and the writes and reads on    *)
(* the upstream tunnel stream.  What the peers send is chosen from small  *)
(* sets; a peer that never sends is a step never taken.  After the        *)
(* upstream CONNECT response the relay starts two copier goroutines and   *)
(* waits for them or for the session context.                             *)
(*                                                                         *)
(* dnstt.TunnelPool is not in this repository; PoolGet and PoolClose      *)
(* follow its contract (Get returns nil when closed or empty, Close        *)
(* closes every carrier and empties the set).  A closed carrier fails     *)
(* every stream operation, so after Stop upstream I/O ends with an error; *)
(* the local connection is only closed by the relay's own defer.          *)
(***************************************************************************)
EXTENDS Integers, Sequences, FiniteSets, Functions

CONSTANTS
  Conns,       \* local connections the listener may accept
  Carriers,    \* carriers the pool starts with
  DomainLen    \* the length byte of an ATYP 0x03 request

ASSUME DomainLen \in 0..255

\* What a read of the local connection can return.  A greeting is good
\* (n >= 2, VER = 5), bad, or a read error.  A CONNECT request is either
\* unusable (a read error, n < 7, VER or CMD wrong: all return at once) or
\* a good header with its address type and the number of bytes received.
Greetings == {"ok", "bad", "err"}
Atyps     == {1, 3, 4, 2}
ReadSizes == {7, 10, 11, 22}
BadRead   == [hdr |-> FALSE, atyp |-> 0, n |-> 0]
Requests  == {BadRead} \cup [hdr : {TRUE}, atyp : Atyps, n : ReadSizes]

\* Replies written to the local client.
NoAuth      == "05 00"
Unsupported == "05 08"
Failure     == "05 01"
Forwarded   == "upstream response"

\* Outcomes of the upstream auth ReadFull and of the CONNECT response read.
AuthReplies == {"ok", "reject", "err"}
ConnReplies == {"success", "refused", "short", "err"}

Phases == {"new", "enter", "get", "open", "greeting", "request", "upgreet",
           "upauth", "upreq", "upresp", "wait1", "wait2", "exited"}

VARIABLES
  pc,             \* per connection: the step its relay is at
  activeStreams,  \* c.activeStreams
  carriers,       \* the pool's live carriers
  poolClosed,     \* the pool has been closed
  cancelled,      \* the session context is cancelled
  streamOpen,     \* per connection: it holds an open tunnel stream
  request,        \* per connection: the CONNECT request it read
  reqLen,         \* per connection: reqLen, 0 before it is computed
  replies,        \* per connection: what was written to the local client
  up,             \* per connection: the exchange on the upstream stream
  copier,         \* per connection and direction: copier goroutine state
  done            \* per connection: signals buffered in the done channel

vars == <<pc, activeStreams, carriers, poolClosed, cancelled, streamOpen,
          request, reqLen, replies, up, copier, done>>

Dirs == {"out", "in"}   \* local -> upstream, upstream -> local

-----------------------------------------------------------------------------
(* dnstt.TunnelPool, after its contract.                                   *)

\* Get: nil when the pool is closed or holds no carrier.
PoolEmpty == poolClosed \/ carriers = {}

\* Close: marks the pool closed, closes every carrier and empties the set.
PoolClose ==
  /\ poolClosed' = TRUE
  /\ carriers' = {}

-----------------------------------------------------------------------------
(* The request length switch of handleSOCKS.                               *)

\* reqLen for a supported address type.
ReqLen(atyp) ==
  CASE atyp = 1 -> 10
    [] atyp = 3 -> 5 + DomainLen + 2
    [] atyp = 4 -> 22

\* A request the switch accepts: a supported type and all of it received.
Complete(r) == r.atyp \in {1, 3, 4} /\ r.n >= ReqLen(r.atyp)

-----------------------------------------------------------------------------
Init ==
  /\ pc = [c \in Conns |-> "new"]
  /\ activeStreams = 0
  /\ carriers = Carriers
  /\ poolClosed = FALSE
  /\ cancelled = FALSE
  /\ streamOpen = [c \in Conns |-> FALSE]
  /\ request = [c \in Conns |-> BadRead]
  /\ reqLen = [c \in Conns |-> 0]
  /\ replies = [c \in Conns |-> << >>]
  /\ up = [c \in Conns |-> << >>]
  /\ copier = [c \in Conns |-> [d \in Dirs |-> "none"]]
  /\ done = [c \in Conns |-> 0]

\* The deferred calls, run on every return: stream.Close (when the stream
\* was opened), the activeStreams decrement and conn.Close.
Return(c) ==
  /\ pc' = [pc EXCEPT ![c] = "exited"]
  /\ streamOpen' = [streamOpen EXCEPT ![c] = FALSE]
  /\ activeStreams' = activeStreams - 1

\* Return after writing reply m to the local client.
ReplyAndReturn(c, m) ==
  /\ replies' = [replies EXCEPT ![c] = Append(@, m)]
  /\ Return(c)

Goto(c, p) == pc' = [pc EXCEPT ![c] = p]

\* acceptLoop: Accept returns a connection while the listener is open, and
\* the loop starts handleSOCKS for it.
Accept(c) ==
  /\ pc[c] = "new" /\ ~cancelled
  /\ Goto(c, "enter")
  /\ UNCHANGED <<activeStreams, carriers, poolClosed, cancelled, streamOpen,
                 request, reqLen, replies, up, copier, done>>

Enter(c) ==
  /\ pc[c] = "enter"
  /\ activeStreams' = activeStreams + 1
  /\ Goto(c, "get")
  /\ UNCHANGED <<carriers, poolClosed, cancelled, streamOpen, request,
                 reqLen, replies, up, copier, done>>

\* Mutant: the nil-tunnel return taken before the decrement is deferred.
Get_NilBeforeDefer(c) ==
  /\ pc[c] = "get"
  /\ \/ PoolEmpty /\ Goto(c, "exited") /\ UNCHANGED <<activeStreams, streamOpen>>
     \/ ~PoolEmpty /\ Goto(c, "open") /\ UNCHANGED <<activeStreams, streamOpen>>
  /\ UNCHANGED <<carriers, poolClosed, cancelled, request, reqLen, replies,
                 up, copier, done>>

\* pool.Get; a nil tunnel returns.
Get(c) ==
  /\ pc[c] = "get"
  /\ \/ PoolEmpty /\ Return(c)
     \/ ~PoolEmpty /\ Goto(c, "open") /\ UNCHANGED <<activeStreams, streamOpen>>
  /\ UNCHANGED <<carriers, poolClosed, cancelled, request, reqLen, replies,
                 up, copier, done>>

\* Whether a stream operation can succeed: every stream of a closed
\* carrier fails.
StreamResults == IF poolClosed THEN {FALSE} ELSE BOOLEAN

\* tunnel.OpenStream; on failure return.
OpenStream(c) ==
  /\ pc[c] = "open"
  /\ \E ok \in StreamResults :
       \/ ok /\ streamOpen' = [streamOpen EXCEPT ![c] = TRUE]
             /\ Goto(c, "greeting") /\ UNCHANGED activeStreams
       \/ ~ok /\ Return(c)
  /\ UNCHANGED <<carriers, poolClosed, cancelled, request, reqLen, replies,
                 up, copier, done>>

\* conn.Read of the greeting; a good one is answered with 05 00.
Greeting(c) ==
  /\ pc[c] = "greeting"
  /\ \E g \in Greetings :
       \/ g = "ok" /\ replies' = [replies EXCEPT ![c] = Append(@, NoAuth)]
                   /\ Goto(c, "request") /\ UNCHANGED <<activeStreams, streamOpen>>
       \/ g # "ok" /\ Return(c) /\ UNCHANGED replies
  /\ UNCHANGED <<carriers, poolClosed, cancelled, request, reqLen, up,
                 copier, done>>

\* conn.Read of the CONNECT request and the switch on its address type.
Request(c) ==
  /\ pc[c] = "request"
  /\ \E r \in Requests :
       /\ request' = [request EXCEPT ![c] = r]
       /\ \/ ~r.hdr /\ Return(c) /\ UNCHANGED <<reqLen, replies>>
          \/ r.hdr
             /\ \/ r.atyp \notin {1, 3, 4} /\ ReplyAndReturn(c, Unsupported)
                   /\ UNCHANGED reqLen
                \/ r.atyp \in {1, 3, 4} /\ ~Complete(r) /\ Return(c)
                   /\ UNCHANGED <<reqLen, replies>>
                \/ Complete(r) /\ reqLen' = [reqLen EXCEPT ![c] = ReqLen(r.atyp)]
                   /\ Goto(c, "upgreet")
                   /\ UNCHANGED <<activeStreams, streamOpen, replies>>
  /\ UNCHANGED <<carriers, poolClosed, cancelled, up, copier, done>>

\* An upstream step whose failure is answered with the generic failure.
UpstreamStep(c, ok, event, next) ==
  \/ ok /\ up' = [up EXCEPT ![c] = Append(@, event)]
        /\ Goto(c, next) /\ UNCHANGED <<activeStreams, streamOpen, replies>>
  \/ ~ok /\ ReplyAndReturn(c, Failure) /\ UNCHANGED up

\* stream.Write of the greeting 05 01 00.
UpGreet(c) ==
  /\ pc[c] = "upgreet"
  /\ \E ok \in StreamResults : UpstreamStep(c, ok, "greet", "upauth")
  /\ UNCHANGED <<carriers, poolClosed, cancelled, request, reqLen, copier, done>>

\* Mutant: only a read error fails; a rejecting method byte is ignored.
UpAuth_AcceptReject(c) ==
  /\ pc[c] = "upauth"
  /\ \E a \in IF poolClosed THEN {"err"} ELSE AuthReplies :
       UpstreamStep(c, a # "err", a, "upreq")
  /\ UNCHANGED <<carriers, poolClosed, cancelled, request, reqLen, copier, done>>

\* io.ReadFull of the two-byte auth reply; anything but 05 00 fails.
UpAuth(c) ==
  /\ pc[c] = "upauth"
  /\ \E a \in IF poolClosed THEN {"err"} ELSE AuthReplies :
       UpstreamStep(c, a = "ok", a, "upreq")
  /\ UNCHANGED <<carriers, poolClosed, cancelled, request, reqLen, copier, done>>

\* stream.Write of buf[:reqLen].
UpReq(c) ==
  /\ pc[c] = "upreq"
  /\ \E ok \in StreamResults : UpstreamStep(c, ok, "connect", "upresp")
  /\ UNCHANGED <<carriers, poolClosed, cancelled, request, reqLen, copier, done>>

\* stream.Read of the CONNECT response; at least 10 bytes are forwarded
\* whatever their status code, and the two copiers start.
UpResp(c) ==
  /\ pc[c] = "upresp"
  /\ \E rsp \in IF poolClosed THEN {"err"} ELSE ConnReplies :
       \/ rsp \in {"success", "refused"}
          /\ up' = [up EXCEPT ![c] = Append(@, rsp)]
          /\ replies' = [replies EXCEPT ![c] = Append(@, Forwarded)]
          /\ copier' = [copier EXCEPT ![c] = [d \in Dirs |-> "run"]]
          /\ Goto(c, "wait1") /\ UNCHANGED <<activeStreams, streamOpen>>
       \/ rsp \in {"short", "err"} /\ ReplyAndReturn(c, Failure)
          /\ UNCHANGED <<up, copier>>
  /\ UNCHANGED <<carriers, poolClosed, cancelled, request, reqLen, done>>

\* Mutant: a copier that signals done again after it has finished.
CopierEnd_Twice(c, d) ==
  /\ copier[c][d] \in {"run", "done"}
  /\ copier' = [copier EXCEPT ![c][d] = "done"]
  /\ done' = [done EXCEPT ![c] = @ + 1]
  /\ UNCHANGED <<pc, activeStreams, carriers, poolClosed, cancelled,
                 streamOpen, request, reqLen, replies, up>>

\* A copier's io.Copy ends (EOF or an error), it half-closes the local
\* connection and signals done.
CopierEnd(c, d) ==
  /\ copier[c][d] = "run"
  /\ copier' = [copier EXCEPT ![c][d] = "done"]
  /\ done' = [done EXCEPT ![c] = @ + 1]
  /\ UNCHANGED <<pc, activeStreams, carriers, poolClosed, cancelled,
                 streamOpen, request, reqLen, replies, up>>

\* Mutant: the waits without the ctx.Done() case.
Wait_NoCancel(c, from, next) ==
  /\ pc[c] = from
  /\ done[c] > 0 /\ done' = [done EXCEPT ![c] = @ - 1]
  /\ IF next = "exited" THEN Return(c)
     ELSE Goto(c, next) /\ UNCHANGED <<activeStreams, streamOpen>>
  /\ UNCHANGED <<carriers, poolClosed, cancelled, request, reqLen, replies,
                 up, copier>>

\* The first and the second select on ctx.Done() and done.
Wait(c, from, next) ==
  /\ pc[c] = from
  /\ \/ cancelled /\ Return(c) /\ UNCHANGED done
     \/ done[c] > 0 /\ done' = [done EXCEPT ![c] = @ - 1]
        /\ IF next = "exited" THEN Return(c)
           ELSE Goto(c, next) /\ UNCHANGED <<activeStreams, streamOpen>>
  /\ UNCHANGED <<carriers, poolClosed, cancelled, request, reqLen, replies,
                 up, copier>>

Wait1(c) == Wait(c, "wait1", "wait2")
Wait2(c) == Wait(c, "wait2", "exited")

\* Client.Stop's critical section, as the relays see it: the context is
\* cancelled, the listener closed (Accept fails) and the pool closed.
Stop ==
  /\ ~cancelled
  /\ cancelled' = TRUE
  /\ PoolClose
  /\ UNCHANGED <<pc, activeStreams, streamOpen, request, reqLen, replies,
                 up, copier, done>>

\* Every accepted connection has returned, the session is stopped and no
\* copier runs: nothing is left to do.
Finished ==
  /\ cancelled
  /\ \A c \in Conns : pc[c] \in {"new", "exited"}
                      /\ \A d \in Dirs : copier[c][d] # "run"

Terminated == Finished /\ UNCHANGED vars

RelayStep(c) ==
  \/ Enter(c) \/ Get(c) \/ OpenStream(c) \/ Greeting(c) \/ Request(c)
  \/ UpGreet(c) \/ UpAuth(c) \/ UpReq(c) \/ UpResp(c) \/ Wait1(c) \/ Wait2(c)

Next ==
  \/ \E c \in Conns : Accept(c) \/ RelayStep(c)
  \/ \E c \in Conns, d \in Dirs : CopierEnd(c, d)
  \/ Stop
  \/ Terminated

\* The local connection is closed once its relay has returned; the stream
\* once the relay has closed it or the pool closed its carrier.
ConnClosed(c)   == pc[c] = "exited"
StreamClosed(c) == ~streamOpen[c] \/ poolClosed

\* A copier blocked on a closed connection or stream is woken by the
\* error; one reading from a live peer waits on that peer, which owes
\* nothing.  A relay step whose I/O is on the stream completes once the
\* carrier is closed.  Reads from the local client are not fair: a client
\* may stay silent for ever.
Fairness ==
  /\ \A c \in Conns :
       /\ WF_vars(Enter(c) \/ Get(c) \/ OpenStream(c) \/ Wait1(c) \/ Wait2(c))
       /\ WF_vars(poolClosed /\ (UpGreet(c) \/ UpAuth(c) \/ UpReq(c) \/ UpResp(c)))
       /\ WF_vars(ConnClosed(c) /\ CopierEnd(c, "out"))
       /\ WF_vars(StreamClosed(c) /\ CopierEnd(c, "in"))

Spec == Init /\ [][Next]_vars /\ Fairness

-----------------------------------------------------------------------------
(* Properties.                                                             *)

Replies == {NoAuth, Unsupported, Failure, Forwarded}

TypeOK ==
  /\ pc \in [Conns -> Phases]
  /\ activeStreams \in 0..Cardinality(Conns)
  /\ carriers \subseteq Carriers
  /\ poolClosed \in BOOLEAN /\ cancelled \in BOOLEAN
  /\ streamOpen \in [Conns -> BOOLEAN]
  /\ request \in [Conns -> Requests]
  /\ reqLen \in [Conns -> Nat]
  /\ replies \in [Conns -> Seq(Replies)]
  /\ up \in [Conns -> Seq(STRING)]
  /\ copier \in [Conns -> [Dirs -> {"none", "run", "done"}]]
  /\ done \in [Conns -> 0..2]

\* The upstream exchange a relay completed: greeting, accepted no-auth,
\* CONNECT, and a response of at least 10 bytes.
UpstreamAgreed(c) ==
  up[c] \in {<<"greet", "ok", "connect", x>> : x \in {"success", "refused"}}

\* The local client is handed an upstream response exactly when the
\* upstream accepted no-auth and answered the CONNECT (spec section 4.C
\* phases 4-5): no relay starts copying after a rejected or failed step.
ForwardIffUpstreamAgreed ==
  \A c \in Conns : (Forwarded \in Range(replies[c])) <=> UpstreamAgreed(c)

-----------------------------------------------------------------------------
(* Refinement: handleSOCKS implements SocksService.  A relay is idle until *)
(* its activeStreams increment, open until its greeting reply, greeted    *)
(* until it writes the upstream greeting, upstream until the CONNECT      *)
(* response is forwarded, relaying in its final selects, and closed once   *)
(* it has returned.                                                       *)

AbstractPhase(c) ==
  CASE pc[c] \in {"new", "enter"}              -> "idle"
    [] pc[c] \in {"get", "open", "greeting"}    -> "open"
    [] pc[c] \in {"request", "upgreet"}         -> "greeted"
    [] pc[c] \in {"upauth", "upreq", "upresp"}  -> "upstream"
    [] pc[c] \in {"wait1", "wait2"}             -> "relaying"
    [] pc[c] = "exited"                         -> "closed"

Service == INSTANCE SocksService WITH
  phase  <- [c \in Conns |-> AbstractPhase(c)],
  told   <- replies,
  active <- activeStreams

\* Every behaviour of the relays is one SocksService allows: the replies,
\* their order, the close after them and GetActiveStreams together, on
\* every return path of handleSOCKS (spec sections 4.C and 8, invariant 3).
RelayImplementsService == Service!Spec

\* After Stop, every relay that has got past the local handshake (or not
\* yet reached it) returns, and its copier goroutines end: upstream I/O
\* fails on the closed carriers and the relay's select sees ctx.Done().
RelaysPastHandshakeWindDown ==
  \A c \in Conns :
    (cancelled /\ pc[c] \notin {"new", "greeting", "request", "exited"})
      ~> (pc[c] = "exited" /\ \A d \in Dirs : copier[c][d] # "run")

\* After Stop, every relay returns (spec section 5: earlier phases "will
\* complete or fail ... because the listener/pool closures will error
\* those I/Os").
AllRelaysWindDown ==
  \A c \in Conns : (cancelled /\ pc[c] \notin {"new", "exited"}) ~> pc[c] = "exited"

=============================================================================
