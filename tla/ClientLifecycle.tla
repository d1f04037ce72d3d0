--------------------------- MODULE ClientLifecycle ---------------------------
(***************************************************************************)
(* Client.Start, Client.Stop, Client.StartWithBestResolver and setState    *)
(* (src/dnstt-client/mobile/mobile.go), called from any number of host    *)
(* threads.  Each call is a process whose steps are the points where      *)
(* another thread can interleave: the atomic state load and store, the    *)
(* callback delivery after c.mu is released, each blocking external call *)
(* (tunnel creation, net.Listen) and each c.mu critical section.          *)
(*                                                                         *)
(* A session is the set of resources one Start creates, named by the      *)
(* number of the call that created it: its tunnel pool, its listener,     *)
(* its context and the acceptLoop/statsReporter goroutines it launches.   *)
(* c.pool, c.listener and c.cancel are always written together under      *)
(* c.mu, so they are one variable, cur, naming the session they hold.      *)
(* A session's acceptLoop is followed step by step: the ctx.Done() check, *)
(* the blocking Accept and the check after an Accept error.               *)
(***************************************************************************)
EXTENDS Integers, FiniteSets

CONSTANTS
  Callers,         \* host threads calling the Client API
  CallerOps,       \* the API functions each thread calls
  MaxCalls,        \* bound on API calls in a behaviour
  NumTunnelsCfg,   \* cfg.tunnels
  NameCapacities,  \* DNSNameCapacity values the configured domain may have
  UseZstd,         \* per caller: cfg.useZstd of the Config it passes
  ListenAddr,      \* per caller: cfg.listenAddr of the Config it passes
  Nil

ASSUME /\ CallerOps \in [Callers -> SUBSET {"start", "stop", "best"}]
       /\ MaxCalls \in Nat /\ NumTunnelsCfg \in Int
       /\ NameCapacities \subseteq Nat
       /\ UseZstd \in [Callers -> BOOLEAN]
       /\ DOMAIN ListenAddr = Callers

StateStopped    == 0
StateConnecting == 1
StateConnected  == 2
StateError      == 3
States == {StateStopped, StateConnecting, StateConnected, StateError}

Sessions == 1..MaxCalls

VARIABLES
  state,         \* c.state, accessed atomically
  lastNotified,  \* the last state the StatusCallback was told about
  cur,           \* the session held in c.pool / c.listener / c.cancel
  poolOpen,      \* sessions whose tunnel pool holds unclosed carriers
  poolCloses,    \* history: per session, how often its pool was closed
  listening,     \* sessions whose listener is bound
  ctxLive,       \* sessions whose context is not cancelled
  acc,           \* per session: where its acceptLoop is ("none" before
                 \* it is started)
  reporters,     \* sessions whose statsReporter still runs
  pc,            \* per caller: where its current call is
  sid,           \* per caller: the session its Start is building
  pend,          \* per caller: the state its setState will report
  after,         \* per caller: where the call goes after setState
  calls,         \* API calls made so far
  compression,   \* dnstt.UseCompression, a process-wide variable
  created        \* history: per session, the flag its tunnels were created
                 \* with, the one its Config asked for and its listenAddr

vars == <<state, lastNotified, cur, poolOpen, poolCloses, listening, ctxLive,
          acc, reporters, pc, sid, pend, after, calls, compression, created>>

res == <<cur, poolOpen, poolCloses, listening, ctxLive>>

loops == <<acc, reporters>>

knobs == <<compression, created>>

-----------------------------------------------------------------------------
\* numTunnels: 8 when cfg.tunnels < 1.
NumTunnels == IF NumTunnelsCfg < 1 THEN 8 ELSE NumTunnelsCfg

\* The effective MTU left by the domain, and the Start guard on it.
EffectiveMTU(capacity) == capacity - 8 - 1 - 3 - 1

\* setState: the atomic store now; the callback is read under c.mu and
\* invoked afterwards, in the Notify step; then the call goes on at k.
SetState(c, s, k) ==
  /\ state' = s
  /\ pend' = [pend EXCEPT ![c] = s]
  /\ after' = [after EXCEPT ![c] = k]
  /\ pc' = [pc EXCEPT ![c] = "notify"]

Notify(c) ==
  /\ pc[c] = "notify"
  /\ lastNotified' = pend[c]
  /\ pc' = [pc EXCEPT ![c] = after[c]]
  /\ UNCHANGED <<state, res, sid, pend, after, calls, knobs, loops>>

Running == {StateConnecting, StateConnected}

\* The listen address of session s, and the addresses bound now.
AddrOf(s) == (CHOOSE t \in created : t.session = s).addr

AddrsInUse == {AddrOf(s) : s \in listening}

\* pool.Close(): every carrier of session s is closed.
ClosePool(s) ==
  /\ poolOpen' = poolOpen \ {s}
  /\ poolCloses' = [poolCloses EXCEPT ![s] = @ + 1]

-----------------------------------------------------------------------------
Init ==
  /\ state = StateStopped /\ lastNotified = StateStopped
  /\ cur = Nil /\ poolOpen = {} /\ listening = {} /\ ctxLive = {}
  /\ acc = [s \in Sessions |-> "none"] /\ reporters = {}
  /\ poolCloses = [s \in Sessions |-> 0]
  /\ pc = [c \in Callers |-> "idle"] /\ sid = [c \in Callers |-> Nil]
  /\ pend = [c \in Callers |-> StateStopped]
  /\ after = [c \in Callers |-> "idle"]
  /\ calls = 0
  /\ compression = FALSE /\ created = {}

\* A host thread calls an API function.
Call(c, f) ==
  /\ pc[c] = "idle" /\ calls < MaxCalls
  /\ pc' = [pc EXCEPT ![c] = f]
  /\ sid' = [sid EXCEPT ![c] = IF f = "stop" THEN Nil ELSE calls + 1]
  /\ calls' = calls + 1
  /\ UNCHANGED <<state, lastNotified, res, pend, after, knobs, loops>>

\* Start and StartWithBestResolver: the guard loads c.state and returns
\* "already running" while Connecting or Connected; otherwise the call goes
\* on to report Connecting, in a later step (the load and the store are
\* separate atomic operations).
Guard(c, k) ==
  /\ pc' = [pc EXCEPT ![c] = IF state \in Running THEN "idle" ELSE k]
  /\ UNCHANGED <<state, lastNotified, res, sid, pend, after, calls, knobs, loops>>

StartCheck(c) == pc[c] = "start" /\ Guard(c, "connecting")

\* setState(StateConnecting, "Connecting...")
StartConnecting(c) ==
  /\ pc[c] = "connecting"
  /\ SetState(c, StateConnecting, "validate")
  /\ UNCHANGED <<lastNotified, res, sid, calls, knobs, loops>>

\* DecodeKey, ParseDomain, SampleUTLSDistribution and the MTU check: any
\* failure reports Error and returns.  Then the process-wide knobs are set
\* from cfg (dnstt.UseCompression; NumDNSSenders is left out) before any
\* tunnel is created.
Validate(c) ==
  /\ pc[c] = "validate"
  /\ \E parsed \in BOOLEAN, capacity \in NameCapacities :
       IF ~parsed \/ EffectiveMTU(capacity) < 80
       THEN SetState(c, StateError, "idle") /\ UNCHANGED compression
       ELSE /\ compression' = UseZstd[c]
            /\ pc' = [pc EXCEPT ![c] = "tunnels"]
            /\ UNCHANGED <<state, pend, after>>
  /\ UNCHANGED <<lastNotified, res, sid, calls, created, loops>>

\* Create numTunnels tunnels, adding each success to the new pool; each is
\* created with the compression flag in effect at that moment.  With no
\* success report Error and return.
CreateTunnels(c) ==
  /\ pc[c] = "tunnels"
  /\ \E successCount \in 0..NumTunnels :
       IF successCount = 0
       THEN /\ SetState(c, StateError, "idle")
            /\ UNCHANGED <<poolOpen, created>>
       ELSE /\ poolOpen' = poolOpen \cup {sid[c]}
            /\ created' = created \cup
                 {[session |-> sid[c], used |-> compression, want |-> UseZstd[c],
                   addr |-> ListenAddr[c]]}
            /\ pc' = [pc EXCEPT ![c] = "listen"]
            /\ UNCHANGED <<state, pend, after>>
  /\ UNCHANGED <<lastNotified, cur, poolCloses, listening, ctxLive, loops, sid,
                 calls, compression>>

\* net.Listen on listenAddr (cfg.listenAddr, ListenAddr[c] already with
\* the 127.0.0.1:1080 default applied): it fails while another session's
\* listener holds the address, and may fail for reasons outside the
\* program.  On failure close the pool, report Error and return.
Listen(c) ==
  /\ pc[c] = "listen"
  /\ \/ /\ ListenAddr[c] \notin AddrsInUse
        /\ listening' = listening \cup {sid[c]}
        /\ pc' = [pc EXCEPT ![c] = "store"]
        /\ UNCHANGED <<state, pend, after, poolOpen, poolCloses>>
     \/ /\ ClosePool(sid[c])
        /\ SetState(c, StateError, "idle")
        /\ UNCHANGED listening
  /\ UNCHANGED <<lastNotified, cur, ctxLive, loops, sid, calls, knobs>>

\* Create the context; under c.mu store pool, listener and cancel,
\* overwriting whatever they held (the byte counter reset in the same
\* section is left out); then report Connected.
Store(c) ==
  /\ pc[c] = "store"
  /\ cur' = sid[c]
  /\ ctxLive' = ctxLive \cup {sid[c]}
  /\ pc' = [pc EXCEPT ![c] = "connected"]
  /\ UNCHANGED <<state, lastNotified, poolOpen, poolCloses, listening, loops,
                 sid, pend, after, calls, knobs>>

\* setState(StateConnected, ...) after c.mu is released.
Connected(c) ==
  /\ pc[c] = "connected"
  /\ SetState(c, StateConnected, "spawn")
  /\ UNCHANGED <<lastNotified, res, sid, calls, knobs, loops>>

\* Mutant: the goroutines are started with c.listener, c.pool and the
\* context read again from the Client after c.mu was released, not with
\* the locals ln, pool and ctx.
Spawn_ReadFields(c) ==
  /\ pc[c] = "spawn"
  /\ acc' = [acc EXCEPT ![cur] = "check"]
  /\ reporters' = reporters \cup {cur}
  /\ pc' = [pc EXCEPT ![c] = "idle"]
  /\ UNCHANGED <<state, lastNotified, res, sid, pend, after, calls, knobs>>

\* go acceptLoop(ctx, ln, pool); go statsReporter(ctx); return nil.
Spawn(c) ==
  /\ pc[c] = "spawn"
  /\ acc' = [acc EXCEPT ![sid[c]] = "check"]
  /\ reporters' = reporters \cup {sid[c]}
  /\ pc' = [pc EXCEPT ![c] = "idle"]
  /\ UNCHANGED <<state, lastNotified, res, sid, pend, after, calls, knobs>>

\* Mutant: Stop cancels and closes the pool but not the listener.
Stop_NoListenerClose(c) ==
  /\ pc[c] = "stop"
  /\ IF cur # Nil
     THEN /\ ctxLive' = ctxLive \ {cur}
          /\ ClosePool(cur)
          /\ cur' = Nil
     ELSE UNCHANGED <<ctxLive, poolOpen, poolCloses, cur>>
  /\ pc' = [pc EXCEPT ![c] = "stopped"]
  /\ UNCHANGED <<listening, state, lastNotified, loops, sid, pend, after, calls,
                 knobs>>

\* Mutant: Stop closes what is set but does not clear c.cancel, c.listener
\* and c.pool.
Stop_KeepFields(c) ==
  /\ pc[c] = "stop"
  /\ IF cur # Nil
     THEN /\ ctxLive' = ctxLive \ {cur}
          /\ listening' = listening \ {cur}
          /\ ClosePool(cur)
     ELSE UNCHANGED <<ctxLive, listening, poolOpen, poolCloses>>
  /\ pc' = [pc EXCEPT ![c] = "stopped"]
  /\ UNCHANGED <<cur, state, lastNotified, loops, sid, pend, after, calls, knobs>>

\* Stop: under c.mu cancel, close the listener, close the pool and clear
\* the fields, each only when set.
Stop(c) ==
  /\ pc[c] = "stop"
  /\ IF cur # Nil
     THEN /\ ctxLive' = ctxLive \ {cur}
          /\ listening' = listening \ {cur}
          /\ ClosePool(cur)
          /\ cur' = Nil
     ELSE UNCHANGED <<ctxLive, listening, poolOpen, poolCloses, cur>>
  /\ pc' = [pc EXCEPT ![c] = "stopped"]
  /\ UNCHANGED <<state, lastNotified, loops, sid, pend, after, calls, knobs>>

\* setState(StateStopped, "Stopped") after c.mu is released.
Stopped(c) ==
  /\ pc[c] = "stopped"
  /\ SetState(c, StateStopped, "idle")
  /\ UNCHANGED <<lastNotified, res, sid, calls, knobs, loops>>

\* StartWithBestResolver: the same guard as Start, then Connecting
\* ("Testing resolvers...").
BestCheck(c) == pc[c] = "best" /\ Guard(c, "bestconnecting")

BestConnecting(c) ==
  /\ pc[c] = "bestconnecting"
  /\ SetState(c, StateConnecting, "probe")
  /\ UNCHANGED <<lastNotified, res, sid, calls, knobs, loops>>

\* TestResolversWithTunnel: no resolver reports Error and returns; a
\* resolver reports Connecting again, sets the UDP transport and calls
\* Start(cfg), whose own guard then runs.
BestProbe(c) ==
  /\ pc[c] = "probe"
  /\ \E foundOne \in BOOLEAN :
       IF foundOne
       THEN SetState(c, StateConnecting, "start")
       ELSE SetState(c, StateError, "idle")
  /\ UNCHANGED <<lastNotified, res, sid, calls, knobs, loops>>

\* Steps of session s's acceptLoop, which takes no lock: only its own
\* position changes.
AccGoto(s, p) ==
  /\ acc' = [acc EXCEPT ![s] = p]
  /\ UNCHANGED <<state, lastNotified, res, reporters, pc, sid, pend, after,
                 calls, knobs>>

\* The select at the top of the loop: return when ctx is done, otherwise
\* fall through to Accept.
AcceptCheck(s) ==
  /\ acc[s] = "check"
  /\ AccGoto(s, IF s \in ctxLive THEN "accept" ELSE "exited")

\* ln.Accept() returns a local connection and the loop starts
\* handleSOCKS for it (followed in Relay).
AcceptConn(s) ==
  /\ acc[s] = "accept" /\ s \in listening
  /\ AccGoto(s, "check")

\* ln.Accept() fails while the listener is open (a transient error).
AcceptFail(s) ==
  /\ acc[s] = "accept" /\ s \in listening
  /\ AccGoto(s, "errcheck")

\* ln.Accept() fails because the listener was closed; only this wakes a
\* loop blocked in Accept.
AcceptClosed(s) ==
  /\ acc[s] = "accept" /\ s \notin listening
  /\ AccGoto(s, "errcheck")

\* The select after an Accept error: return when ctx is done, otherwise
\* continue at once, with no backoff.
ErrCheck(s) ==
  /\ acc[s] = "errcheck"
  /\ AccGoto(s, IF s \in ctxLive THEN "check" ELSE "exited")

\* statsReporter returns when its select takes ctx.Done(); its ticks
\* (OnBytesTransferred deliveries) change no state followed here.
ReporterExit(s) ==
  /\ s \in reporters /\ s \notin ctxLive
  /\ reporters' = reporters \ {s}
  /\ UNCHANGED <<state, lastNotified, res, acc, pc, sid, pend, after, calls,
                 knobs>>

AcceptLoopStep(s) ==
  AcceptCheck(s) \/ AcceptConn(s) \/ AcceptFail(s) \/ AcceptClosed(s)
    \/ ErrCheck(s)

-----------------------------------------------------------------------------
CallerStep(c) ==
  \/ \E f \in CallerOps[c] : Call(c, f)
  \/ StartCheck(c) \/ StartConnecting(c) \/ Validate(c) \/ CreateTunnels(c) \/ Listen(c)
  \/ Store(c) \/ Connected(c) \/ Spawn(c) \/ Stop(c) \/ Stopped(c)
  \/ BestCheck(c) \/ BestConnecting(c)
  \/ BestProbe(c) \/ Notify(c)

\* All calls made and returned: nothing is left to do.
Quiescent == calls = MaxCalls /\ \A c \in Callers : pc[c] = "idle"

Next ==
  \/ \E c \in Callers : CallerStep(c)
  \/ \E s \in Sessions : AcceptLoopStep(s) \/ ReporterExit(s)
  \/ (Quiescent /\ UNCHANGED vars)

\* Host threads call the API when they like: no fairness for a call to
\* start.  A call in progress runs to its end (each external call it
\* makes returns), and the Go scheduler runs a session's goroutines.  A
\* local client connecting, or a transient Accept error, is up to the
\* environment: no fairness for AcceptConn and AcceptFail.
Fairness ==
  /\ \A c \in Callers :
       WF_vars(StartCheck(c) \/ StartConnecting(c) \/ Validate(c) \/ CreateTunnels(c) \/ Listen(c)
                 \/ Store(c) \/ Connected(c) \/ Spawn(c) \/ Stop(c)
                 \/ Stopped(c) \/ BestCheck(c)
                 \/ BestConnecting(c) \/ BestProbe(c) \/ Notify(c))
  /\ \A s \in Sessions :
       /\ WF_vars(AcceptCheck(s) \/ AcceptClosed(s) \/ ErrCheck(s))
       /\ WF_vars(ReporterExit(s))

Spec == Init /\ [][Next]_vars /\ Fairness

-----------------------------------------------------------------------------
(* Properties.                                                             *)

Idle == \A c \in Callers : pc[c] = "idle"

TypeOK ==
  /\ state \in States /\ lastNotified \in States
  /\ cur \in Sessions \cup {Nil}
  /\ poolOpen \subseteq Sessions /\ listening \subseteq Sessions
  /\ poolCloses \in [Sessions -> Nat]
  /\ ctxLive \subseteq Sessions
  /\ acc \in [Sessions -> {"none", "check", "accept", "errcheck", "exited"}]
  /\ reporters \subseteq Sessions
  /\ pc \in [Callers -> {"idle", "start", "connecting", "bestconnecting", "validate", "tunnels", "listen",
                         "store", "connected", "spawn", "stop", "stopped", "best", "probe", "notify"}]
  /\ sid \in [Callers -> Sessions \cup {Nil}]
  /\ calls \in 0..MaxCalls
  /\ compression \in BOOLEAN
  /\ created \subseteq [session : Sessions, used : BOOLEAN, want : BOOLEAN,
                        addr : {ListenAddr[c] : c \in Callers}]

\* Every session that got a tunnel pool has its carriers closed exactly
\* once: the pool is still open, or one pool.Close() (by Stop, or by a
\* Start whose Listen failed) has released it, never two; a pool is
\* closed only after it was created (spec section 8, invariant 1: "all
\* carriers closed exactly once"), whatever Stops and Starts of the two
\* threads interleave: also when a racing Start overwrites c.pool, a
\* later Stop closes only the pool the field holds, never one twice.
Pooled == {t.session : t \in created}

PoolsClosedExactlyOnce ==
  \A s \in Sessions :
    poolCloses[s] = IF s \in Pooled \ poolOpen THEN 1 ELSE 0

\* Between calls, GetState reports Connected exactly when the client holds
\* a session (spec section 8, invariant 1: after Stop the state is Stopped
\* and the listener is released).
ConnectedIffSession ==
  Idle => (state = StateConnected <=> cur # Nil)

\* Connecting is transient: when no call is in progress the client is not
\* left Connecting (StartWithBestResolver "starts the tunnel with the best
\* one", lines 711-712).
NeverIdleConnecting == Idle => state # StateConnecting

\* Every tunnel is created with the compression setting of the Config of
\* the Start that creates it, so that it matches the server.  The spec
\* (sections 5 and 9) treats dnstt.UseCompression as written once per
\* session "before any carrier exists", safe because "concurrent Starts
\* are already forbidden by the Client state guard".
TunnelsUseOwnCompression == \A t \in created : t.used = t.want

\* Between calls, the last OnStatusChange the host received is the current
\* state (spec section 5: transitions are totally ordered by the mutex
\* holder emitting OnStatusChange).
NotifiedIsState == Idle => lastNotified = state

\* Once Stop has cancelled a session whose goroutines were started, its
\* acceptLoop and statsReporter both return: the listener Close in the
\* same c.mu section wakes the loop blocked in Accept, the cancel before
\* it makes the check after the error return rather than retry, and the
\* reporter's select takes ctx.Done().
Started == {s \in Sessions : acc[s] # "none"}

LoopsWindDown ==
  \A s \in Sessions :
    (s \in Started /\ s \notin ctxLive) ~> (acc[s] = "exited" /\ s \notin reporters)

=============================================================================
