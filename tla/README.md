# TLA+ models of the dnstt mobile client

This directory holds TLA+ specifications of `src/dnstt-client/mobile/mobile.go`,
the gomobile library that runs a dnstt DNS tunnel on a phone. Each module is
checked with TLC. Every action is translated from the Go source, and
`PROJECT.json` maps each definition to the lines it models.

To run a check:

```
cd tla
tlc -workers 2 -config MCRelay.cfg MCRelay
```

## 1. The system

`mobile.go` is one Go file with these parts:

| Part | Code | Shared state | Concurrency |
|---|---|---|---|
| Client lifecycle | `Start`, `Stop`, `StartWithBestResolver`, `setState` (126-267, 457-475, 711-735) | `c.state` (atomic); `c.pool`, `c.listener`, `c.cancel` under `c.mu`; byte counters | Host threads call the API with no serialisation. Each Start launches an accept loop and a stats reporter. |
| Listener and relay | `acceptLoop`, `handleSOCKS` (269-432) | `activeStreams`; per connection, the local socket, a tunnel stream and two copier goroutines | One goroutine per accepted connection plus its two copiers, all tied to the session context. |
| Stats reporter | `statsReporter` (434-455) | reads the counters | Ticks every second until the context is cancelled. Only its exit is modelled. |
| Breadth scan | `TestResolvers`, `TestResolversWithTunnel` (544-709) | semaphore, result channel, completed counter | One goroutine per candidate, bounded by a semaphore. |
| Two-phase discovery | `FindWorkingResolverTwoPhase` (779-1056) | two worker pools, channels, WaitGroups, a cancel context, a one-slot found channel | Feeder, workers, closer and collector per phase. Phase 2 stops on the first success. |
| Sequential discovery | `FindFirstWorkingResolver` (1058-1153) | none | Sequential. |

The tunnel pool (`dnstt.TunnelPool`), the transports, Noise, uTLS and the probe
primitives (`TestDNSResolver`, `TestTunnelConnection`) are in the dnstt library,
outside this repository. The models treat them as an environment whose
results are nondeterministic. The pool's `Get` and `Close` are modelled from
spec section 4.B.

How the parts interact:
- Start creates a pool of carriers and a listener, stores them with the
  session's cancel function, and reports each transition through
  `OnStatusChange`.
- `acceptLoop` hands each connection to `handleSOCKS`, which borrows a carrier
  from the pool, opens a stream and relays a nested SOCKS5 handshake.
- Stop cancels the context, closes the listener and closes the pool.
- `StartWithBestResolver` runs the breadth scan and then calls Start.

`PROJECT.json` ("hazards") lists, at its line, every place where this code can
go wrong in a way tests hardly reach, with the properties that cover each one.

## 2. Modules

| Module | Models | Instantiated by |
|---|---|---|
| `Resolvers` | the candidate parser shared by the three discovery functions, `Addr` (host plus "has a port"), `DNSResult`, `WithPort` | extended by `TwoPhaseDiscovery` and `ResolverScan` |
| `TwoPhaseDiscovery` | `FindWorkingResolverTwoPhase`, every goroutine of both phases | `MCTwoPhaseDiscovery` |
| `ResolverScan` | `TestResolvers`, `TestResolversWithTunnel` and `FindFirstWorkingResolver` | `MCResolverScan` |
| `ClientLifecycle` | `Start`, `Stop`, `StartWithBestResolver`, `setState`, session goroutines' exit | `MCClientLifecycle` |
| `Relay` | `handleSOCKS` with its copiers, the accept step, the pool contract and Stop's closing of the session | `MCRelay` |
| `SocksService` | the abstract specification: what the local SOCKS5 endpoint promises each connection | instantiated by `Relay` with a refinement mapping |

### TwoPhaseDiscovery
The caller runs these steps, in order:
1. `Parse` handles the early returns.
2. `Collect1` is the range over `resultChan`.
3. `EndPhase1` covers the sort, the early return when no DNS probe passed,
   candidate selection and the phase-2 set-up.
4. `TakeFound` / `NoneFound` are the range over `foundChan`, then
   `OnPhaseComplete(2)` with the atomic load of `phase2Passed`.

`phaseCalls` is the history of `OnPhaseChange` and `OnPhaseComplete` calls
(`PhaseChange`, `PhaseComplete`). `Parse` makes the first call, and
`EndPhase1` makes the phase-1 completion and the phase-2 announcement.

Phase 1 runs a feeder (`Feed1`, `CloseWork1`), workers (`Recv1`, `Probe1`,
`Exit1`) and a closer (`CloseResults1`).

Phase 2 runs these goroutines:
- **Feeder.** `Feed2`, plus `SkipFeed2` when `ctx.Done()` is chosen. Its
  `break` only leaves the select, so the loop goes on to the next candidate.
  `CloseWork2` closes the work channel.
- **Workers.** `Quit2` (the ctx case), `Recv2`, `Drained2`, `Test2`,
  `Publish2` (the non-blocking send) and `Notify2` (`cancel()` and
  `OnResolverFound`).
- **Closer.** `CloseFound2`.

Channels are sequences with a closed flag. `sort.Slice` is not stable, so
`SortByLatency` gives every ordering that is sorted by latency.
`FilterCandidates` is the RECURSIVE selection loop. The outcome of each host's
probes is chosen in `Init`.

### ResolverScan
`TestResolvers` starts one goroutine per candidate, and each goroutine takes these steps:
1. `Acquire`: the semaphore (blocks when full), then the probe.
2. `Send`: blocks while `resultChan` holds `2*concurrency` results.
3. `Report`: the `completed` counter, `OnProgress` and `OnResult`.
4. `Exit`: the deferred `<-sem` and `wg.Done`.

`CloseResults` is the closer. The caller's `Collect` and `EndScan` do the
range, the unstable sort (successes first, then latency), and the key check
at the start of `TestResolversWithTunnel`. `TunnelStep` is one iteration of
its sequential loop, with the failure and latency skips and the cap of 20.

`Init` also chooses which discovery function the host calls (`entry`). For
`FindFirstWorkingResolver`, `FirstParse` handles the early returns. Each
`FirstStep` is one iteration of its loop: `OnProgress`, the DNS probe on the
line as given, the tunnel probe on the address with `:53`, `OnResult`, and a
return on the first full success.

### ClientLifecycle
A set `Callers` of host threads call the API. Each call is a sequence of
steps (`pc[c]`):
- every atomic load or store is its own step;
- every `c.mu` critical section is one step;
- `setState` is a store (`SetState`) and then, after the mutex is released, a
  callback delivery (`Notify`).

Start's steps:
- `StartCheck`: the guard's load.
- `StartConnecting`: stores Connecting.
- `Validate`: key, domain, uTLS, and an MTU below 80; then the write of the
  process-wide `dnstt.UseCompression` (`compression`) from the caller's Config.
- `CreateTunnels`: any number of successes. `created` records, per session,
  the flag its tunnels were created with and the one its Config asked for.
- `Listen`: fails while another live session's listener holds the same
  address (`ListenAddr[c]`, `AddrOf`, `AddrsInUse`), and may fail for
  outside reasons. On failure it closes the pool (`ClosePool`, which Stop
  uses too and which counts the closes of each session's pool in
  `poolCloses`).
- `Store`: the `c.mu` section.
- `Connected`: stores Connected.
- `Spawn`: starts the goroutines.

`Store` overwrites whatever the fields held; a second Start that passed
the racy guard replaces the first session there.

Each started session's `acceptLoop` is followed step by step (`acc[s]`):
- `AcceptCheck`: the `ctx.Done()` select at the top of the loop.
- `Accept` blocks. It returns a connection (`AcceptConn`) or a transient
  error (`AcceptFail`) while the listener is open. It returns an error
  (`AcceptClosed`) once the listener is closed, and only that wakes it.
- `ErrCheck`: the select after an error. It returns when the context is
  cancelled, and otherwise continues at once, with no backoff.

`ReporterExit(s)` is `statsReporter` taking `ctx.Done()`. Its ticks change
no state that the model follows.

Stop is `Stop` (its `c.mu` section) followed by `Stopped`.
`StartWithBestResolver` is `BestCheck`, `BestConnecting` and `BestProbe`, then Start.

Sessions are numbered by the call that created them:
- `cur` is the session the fields hold.
- `poolOpen`, `listening` and `ctxLive` are the sessions whose resources are live.
- `acc` is where each session's accept loop is; `reporters` are the
  sessions whose stats reporter still runs.

### Relay
Each connection's relay runs the steps of `handleSOCKS` in order:
1. `Enter`: increments `activeStreams`.
2. `Get`: `pool.Get`.
3. `OpenStream`.
4. `Greeting`: the local read, then `05 00`.
5. `Request`: the local read and the ATYP length switch, or the `05 08` reply.
6. `UpGreet`, `UpAuth`, `UpReq`, `UpResp`: the four upstream steps. Each
   failure writes the generic `05 01` reply.
7. The two copiers (`CopierEnd`).
8. `Wait1`, `Wait2`: the two selects on `ctx.Done()` and `done`.

`Return` runs the defers. `Stop` is the session's cancel, listener close and
pool close.

What the local client and the upstream send is chosen from small sets; a silent
peer is a step never taken. A closed carrier fails every stream operation.

### SocksService and the refinement
`SocksService` states what the local client and `GetActiveStreams` may
observe of one connection:
- It goes idle, open, greeted, upstream, then relaying or closed.
- The first reply is `05 00`. At most one CONNECT reply follows it: `05 08`,
  `05 01` or the forwarded upstream response.
- Once the upstream exchange has begun, the connection never closes
  without a CONNECT reply.
- The gauge counts the open connections.

`Relay` instantiates it with `AbstractPhase`, which maps each relay's `pc` to
an abstract phase, with `replies` and `activeStreams` as they are.
`RelayImplementsService` is the abstract `Spec` as a temporal property.

## 3. Runs

| Run | cfg | Expect | What it checks |
|---|---|---|---|
| twophase_safety_liveness | MCTwoPhaseDiscovery.cfg | pass | `Phase1Exact`: phase 1 keeps exactly the DNS-successful lines, whatever order the results arrive in. `ResultVerified`: the returned address passed its tunnel probe. `NoneFoundOnlyIfNoneWorks`: "" means no candidate works. `PhaseCompletion`: each announced phase gets exactly one `OnPhaseComplete` before the return, and phase 2's passed count is positive exactly when an address is returned, although it is loaded while workers may still run. `Termination`: every goroutine exits and the call returns. |
| twophase_found_once | MCTwoPhaseDiscovery_AtMostOneFound.cfg | violation | `OnResolverFound` fires twice: the caller empties `foundChan` and then a late success publishes again. |
| twophase_no_probe_after_cancel | MCTwoPhaseDiscovery_NoProbeAfterCancel.cfg | violation | A worker starts a tunnel probe after cancellation. |
| resolver_scan | MCResolverScan.cfg | pass | `ScanReturnsAll`: one result per candidate. `CallbacksBeforeReturn`: every callback runs before the return. `TunnelSearchExact`: the tunnel loop probes exactly the candidates a declarative reference names, in order. `FirstWorkingExact`: `FindFirstWorkingResolver` stops at the first candidate passing both probes, in input order. `Returns`: every call returns (no goroutine stays blocked on the semaphore or a full channel). |
| resolver_scan_port | MCResolverScan_TunnelProbedWithPort.cfg | violation | `TestResolversWithTunnel` probes and returns an address without a port. |
| lifecycle_two_threads | MCClientLifecycle.cfg | pass | Two threads with different listen addresses make three calls in every interleaving, including two Starts that both pass the guard, where the second overwrites `c.pool`. `PoolsClosedExactlyOnce`: each session's pool is still open or closed by exactly one `pool.Close()` (spec section 8, invariant 1); the history `poolCloses` counts the closes. `LoopsWindDown`: once Stop has cancelled a started session, its `acceptLoop` returns (the listener close wakes `Accept`, the cancel before it stops the retry), and so does its `statsReporter`. `TypeOK`'s mutant starts the goroutines with the fields read after the unlock, which are nil after a racing Stop. |
| lifecycle_start_stop_race | MCClientLifecycle_StartStop.cfg | violation | A Stop between Start's store and its `setState(Connected)` leaves the client Connected with no session. |
| lifecycle_compression_race | MCClientLifecycle_Compression.cfg | violation | Two concurrent Starts both pass the guard, and the second overwrites `dnstt.UseCompression` before the first creates its tunnels. The first session then runs with the other Config's compression flag, although the spec calls the process-wide write safe because of the guard. |
| lifecycle_notification_order | MCClientLifecycle_Notified.cfg | violation | The host's last `OnStatusChange` differs from `GetState`. |
| lifecycle_best_resolver | MCClientLifecycle_BestResolver.cfg | violation | `StartWithBestResolver` leaves the client Connecting after it returns. |
| relay_protocol | MCRelay.cfg | pass | `RelayImplementsService`: every behaviour of the relays is one `SocksService` allows (reply order, a CONNECT reply after any upstream exchange, `activeStreams` on every return path). `ForwardIffUpstreamAgreed`: the upstream response is forwarded exactly when the upstream accepted no-auth and answered. `RelaysPastHandshakeWindDown`: relays past the local handshake, and their copiers, end after Stop. |
| relay_stop_silent_client | MCRelay_AllRelaysWindDown.cfg | violation | A relay blocked reading a silent local client never returns after Stop. |

The violations are recorded in `PROJECT.json` ("findings"). Four are code
bugs (one each in `TestResolversWithTunnel`, `StartWithBestResolver`, Start
and the two-phase found channel). The rest are places where the
code does not do what `spec.md` says.

Every property of a passing run has a mutant in `PROJECT.json`: a plausible bug
in the mapped action that TLC then reports, for example a dropped guard, a
missing decrement or a `wg.Done` that is not deferred.

## 4. Bounds
- **Discovery.** Three candidate lines, one of them with a port, among a
  comment and a blank line.
  - Two-phase: two workers per phase, a cap of two candidates, and latencies
    on both sides of the limit. These bounds reach a candidate admitted over
    the limit, the cap cutting the list, cancellation while items are
    queued, and two probes in flight.
  - Breadth scan: a semaphore of one, so `resultChan` (capacity 2) is smaller
    than the candidate list and a send can block. Latencies 100 and 700 fall
    on both sides of the 500 ms cut.
  - The cap of 20 in `TestResolversWithTunnel` is not reached with three
    candidates.
- **Lifecycle.** The pass run has two threads and three calls, so two
  racing Starts and a Stop, or a Start, a Stop and a Start, interleave in
  every order. Four calls take about four and a half minutes, too close
  to the five-minute budget. The threads' Configs differ in `useZstd`, so
  a crossed compression flag shows. In the pass run they also differ in
  listen address, so both racing Starts can listen and the overwrite at
  line 252 happens. The violation runs use the default address for both.
  Two tunnels, and name capacities 92 and 93 around the MTU limit of 80.
- **Relay.** Two connections and one carrier. A domain length of 4 together
  with read sizes 7, 10, 11 and 22 gives each address type a short and a
  complete request. Every upstream failure point is reachable, and Stop can
  happen at any step.

## 5. Fairness
- **Goroutines.** Each goroutine gets weak fairness on its own steps. The Go
  scheduler runs runnable goroutines, and a probe ends by its timeout.
  An `acceptLoop` blocked in `Accept` moves only when the environment
  acts. A local connection or a transient error may never come, so
  `AcceptConn` and `AcceptFail` are not fair. The error from a closed
  listener is fair (`AcceptClosed`).
- **Host calls.** A host thread inside a call is weakly fair. Starting a new
  call is not fair, because the host may never call again.
- **The relay's peers.** A silent peer is possible, so the relay's reads from
  the local client are not fair. Upstream steps are fair only once the pool
  is closed, because a closed carrier errors its streams. A copier is fair
  only once the socket it reads is closed.
- **Terminal states.** Every model ends in an explicit terminal stuttering
  step, so deadlock checking stays on.

## 6. Not modelled, and the plan
Not modelled:
- **The byte counters** (lines 254-255, 402-413, 443-455). The copiers'
  adds, Start's reset and the reporter's deliveries are not followed. In the
  code, a reporter loads the counters and then calls the host. A previous
  session's reporter, descheduled across a Stop and the next Start, can
  deliver its old, larger count after the new session's first delivery,
  so the host sees the count go down. This is the same store-then-deliver
  reordering that `lifecycle_notification_order` shows for
  `OnStatusChange`. Late copier adds after the reset can also fold a
  stopped session's bytes into the new count. Each of these outcomes
  would need a violation run of its own.
- **The orphaned session.** When two racing Starts listen on different
  addresses, the first session's pool, listener, context and goroutines
  are reachable by no Stop. This follows from the guard race that
  `lifecycle_compression_race` shows, and it is not checked as a property
  of its own.
- **`SetCallback` and the readers** (`GetState`, `GetBytesIn`, `GetBytesOut`,
  `GetActiveStreams`). The callback is taken as registered before the first
  call. `SetCallback` is one `c.mu` write that only decides whether
  deliveries happen. The readers change no state.
- **Probe timeouts.** The probes' outcomes are chosen per host, so their
  timeouts are not modelled. Note that the code does not floor a short
  timeout as spec 4.F.2 says. A phase-1 timeout below 500 ms becomes
  2000 ms, and a phase-2 (or `TestResolversWithTunnel`) timeout below 2 s
  becomes 5 s. That is a sequential path a unit test reaches.
- **`NumDNSSenders`.** It is written only when `numParallel > 0`, so a
  Config with 0 keeps the previous session's value instead of the clamp to 1
  the spec describes. That is a sequential path a unit test reaches.
  `UseCompression` is modelled, because its race needs two threads.
- **Config setters, result accessors, logging and message wording.** These
  are plain data with no concurrency.

Planned for later sittings:
- **An abstract specification of discovery.** Say what a discovery call
  returns, and check the three discovery functions against it.
- **The two-phase `OnProgress` calls.** Their counts are the atomic
  counters `tested1` and `tested2`. A phase-2 worker that took an item
  before cancellation calls `OnProgress(2, ...)` after `OnPhaseComplete(2)`
  and after the return. The spec makes no ordering promise about progress,
  so this is not a property. `OnResolverFound` after the return is covered
  by `AtMostOneFound`.
