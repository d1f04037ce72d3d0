----------------------------- MODULE ResolverScan -----------------------------
(***************************************************************************)
(* TestResolvers and TestResolversWithTunnel (src/dnstt-client/mobile/     *)
(* mobile.go), the discovery StartWithBestResolver runs.                   *)
(*                                                                         *)
(* TestResolvers starts one goroutine per candidate.  Each takes a slot of *)
(* the semaphore sem (capacity concurrency), probes, sends its result on  *)
(* resultChan (capacity 2 * concurrency), bumps the completed counter and *)
(* calls the callbacks, then its defers release the slot and call         *)
(* wg.Done.  A closer closes resultChan after wg.Wait while the caller    *)
(* collects, and the collected results are sorted: successes first, then  *)
(* by latency.  TestResolversWithTunnel then walks the sorted list        *)
(* sequentially and returns the first resolver whose tunnel probe         *)
(* succeeds.  FindFirstWorkingResolver, the host's other entry point,     *)
(* probes the candidates one at a time in list order instead.  Which of   *)
(* the two the host calls, and the probe outcomes per host, are fixed in  *)
(* Init.                                                                   *)
(***************************************************************************)
EXTENDS Resolvers, FiniteSets, Bags

CONSTANTS
  ConcurrencyCfg,  \* the concurrency argument
  NoResult         \* the empty string

ASSUME ConcurrencyCfg \in Int

\* concurrency: 50 when the argument is below 1.
Concurrency == IF ConcurrencyCfg < 1 THEN 50 ELSE ConcurrencyCfg

\* TestResolversWithTunnel's fixed bounds: maxToTest and the latency cut.
MaxToTest == 20
MaxTunnelLatencyMs == 500

Cands == 1..Total   \* one goroutine per candidate, by list position

\* A ResolverResult: the line as given, the probe's success and latency.
Result == [resolver : Addr, success : BOOLEAN, latencyMs : Latencies \cup {0}]

VARIABLES
  argsOk,       \* dnstt.ParseDomain(domain) succeeds
  keyOk,        \* noise.DecodeKey(pubkeyHex) succeeds
  dnsResult,    \* TestDNSResolver outcome per host
  tunnelOk,     \* TestTunnelConnection outcome per host
  entry,        \* the function the host called: "scan" or "first"
  pc,           \* control point of the calling goroutine
  gpc,          \* per candidate goroutine: its control point
  sem,          \* slots of sem held
  wg,           \* goroutines wg.Wait still waits for
  chan,         \* resultChan
  chanClosed,   \* resultChan has been closed
  completed,    \* the atomic completed counter
  progress,     \* history: the done values passed to OnProgress
  onResult,     \* history: the resolvers passed to OnResult
  collected,    \* results as the caller appended them
  sorted,       \* results after sort.Slice: the returned ResolverList
  ti, testedCount,  \* TestResolversWithTunnel's loop index and counter
  tunnelCalls,  \* history: addresses passed to TestTunnelConnection
  result        \* the value returned

env  == <<entry, argsOk, keyOk, dnsResult, tunnelOk>>
scan == <<gpc, sem, wg, chan, chanClosed, completed, progress, onResult,
          collected, sorted>>
vars == <<env, pc, scan, ti, testedCount, tunnelCalls, result>>

\* The result a goroutine builds for candidate i.
ResultOf(i) ==
  LET a == ResolverList[i] IN
  [resolver |-> a, success |-> dnsResult[a.host].success,
   latencyMs |-> dnsResult[a.host].latencyMs]

\* The sort.Slice order: successful first, then by latency.
Before(x, y) ==
  \/ x.success /\ ~y.success
  \/ x.success = y.success /\ x.latencyMs <= y.latencyMs

\* Every ordering sort.Slice (not stable) may produce.
SortResults(s) ==
  { t \in { [i \in DOMAIN s |-> s[p[i]]] : p \in SetToSeqs(DOMAIN s) } :
      IsSorted(t, Before) }

-----------------------------------------------------------------------------
Init ==
  /\ argsOk \in BOOLEAN /\ keyOk \in BOOLEAN
  /\ dnsResult \in [Hosts -> DNSResult]
  /\ tunnelOk \in [Hosts -> BOOLEAN]
  /\ entry \in {"scan", "first"}
  /\ pc = IF entry = "scan" THEN "parse" ELSE "first"
  /\ gpc = [i \in Cands |-> "idle"]
  /\ sem = 0 /\ wg = {} /\ chan = <<>> /\ chanClosed = FALSE
  /\ completed = 0 /\ progress = <<>> /\ onResult = <<>>
  /\ collected = <<>> /\ sorted = <<>>
  /\ ti = 1 /\ testedCount = 0 /\ tunnelCalls = <<>>
  /\ result = NoResult

\* TestResolvers: parse; an empty list or a bad domain returns an empty
\* ResolverList, and TestResolversWithTunnel returns "" on Size() == 0.
\* Otherwise the loop does wg.Add(1) and starts a goroutine per candidate.
Parse ==
  /\ pc = "parse"
  /\ \/ (Total = 0 \/ ~argsOk) /\ pc' = "done" /\ UNCHANGED scan
     \/ Total > 0 /\ argsOk /\ pc' = "collect"
        /\ gpc' = [i \in Cands |-> "acquire"]
        /\ wg' = Cands
        /\ UNCHANGED <<sem, chan, chanClosed, completed, progress, onResult,
                       collected, sorted>>
  /\ UNCHANGED <<env, ti, testedCount, tunnelCalls, result>>

-----------------------------------------------------------------------------
(* The probe goroutines.                                                   *)

Step(i, from, to) ==
  /\ gpc[i] = from
  /\ gpc' = [gpc EXCEPT ![i] = to]

\* sem <- struct{}{} blocks while every slot is taken; then the probe.
Acquire(i) ==
  /\ Step(i, "acquire", "send")
  /\ sem < Concurrency
  /\ sem' = sem + 1
  /\ UNCHANGED <<env, pc, wg, chan, chanClosed, completed, progress, onResult,
                 collected, sorted, ti, testedCount, tunnelCalls, result>>

\* Mutant: a send that ignores the channel's capacity.
Send_Unbounded(i) ==
  /\ Step(i, "send", "report")
  /\ chan' = Append(chan, ResultOf(i))
  /\ UNCHANGED <<env, pc, sem, wg, chanClosed, completed, progress, onResult,
                 collected, sorted, ti, testedCount, tunnelCalls, result>>

\* Mutant: wg.Done() called right after the send instead of deferred.
Send_DoneEarly(i) ==
  /\ Step(i, "send", "report")
  /\ Len(chan) < 2 * Concurrency
  /\ chan' = Append(chan, ResultOf(i))
  /\ wg' = wg \ {i}
  /\ UNCHANGED <<env, pc, sem, chanClosed, completed, progress, onResult,
                 collected, sorted, ti, testedCount, tunnelCalls, result>>

\* resultChan <- result blocks while the channel is full.
Send(i) ==
  /\ Step(i, "send", "report")
  /\ Len(chan) < 2 * Concurrency
  /\ chan' = Append(chan, ResultOf(i))
  /\ UNCHANGED <<env, pc, sem, wg, chanClosed, completed, progress, onResult,
                 collected, sorted, ti, testedCount, tunnelCalls, result>>

\* atomic.AddInt64(&completed, 1), OnProgress and OnResult.
Report(i) ==
  /\ Step(i, "report", "exit")
  /\ completed' = completed + 1
  /\ progress' = Append(progress, completed + 1)
  /\ onResult' = Append(onResult, ResolverList[i])
  /\ UNCHANGED <<env, pc, sem, wg, chan, chanClosed, collected, sorted,
                 ti, testedCount, tunnelCalls, result>>

\* Mutant: the release of the semaphore slot is not deferred and is lost.
Exit_NoRelease(i) ==
  /\ Step(i, "exit", "done")
  /\ wg' = wg \ {i}
  /\ UNCHANGED <<env, pc, sem, chan, chanClosed, completed, progress, onResult,
                 collected, sorted, ti, testedCount, tunnelCalls, result>>

\* The deferred <-sem, then the deferred wg.Done().
Exit(i) ==
  /\ Step(i, "exit", "done")
  /\ sem' = sem - 1
  /\ wg' = wg \ {i}
  /\ UNCHANGED <<env, pc, chan, chanClosed, completed, progress, onResult,
                 collected, sorted, ti, testedCount, tunnelCalls, result>>

\* Mutant: the closer without wg.Wait().
CloseResults_NoWait ==
  /\ pc = "collect" /\ ~chanClosed
  /\ chanClosed' = TRUE
  /\ UNCHANGED <<env, pc, gpc, sem, wg, chan, completed, progress, onResult,
                 collected, sorted, ti, testedCount, tunnelCalls, result>>

\* The closer goroutine: wg.Wait(), then close(resultChan).
CloseResults ==
  /\ pc = "collect" /\ wg = {} /\ ~chanClosed
  /\ chanClosed' = TRUE
  /\ UNCHANGED <<env, pc, gpc, sem, wg, chan, completed, progress, onResult,
                 collected, sorted, ti, testedCount, tunnelCalls, result>>

-----------------------------------------------------------------------------
(* The calling goroutine.                                                  *)

\* for r := range resultChan: append.
Collect ==
  /\ pc = "collect" /\ chan # <<>>
  /\ collected' = Append(collected, Head(chan))
  /\ chan' = Tail(chan)
  /\ UNCHANGED <<env, pc, gpc, sem, wg, chanClosed, completed, progress,
                 onResult, sorted, ti, testedCount, tunnelCalls, result>>

\* The range ends; sort.Slice and return the list.  TestResolversWithTunnel
\* then checks Size(), DecodeKey and the "Chrome" uTLS spec (a constant
\* that always samples), and returns "" on a bad key.
EndScan ==
  /\ pc = "collect" /\ chan = <<>> /\ chanClosed
  /\ \E s \in SortResults(collected) : sorted' = s
  /\ pc' = IF keyOk THEN "tunnel" ELSE "done"
  /\ UNCHANGED <<env, gpc, sem, wg, chan, chanClosed, completed, progress,
                 onResult, collected, ti, testedCount, tunnelCalls, result>>

\* Mutant: the loop without the latency skip.
TunnelStep_NoLatencySkip ==
  /\ pc = "tunnel"
  /\ IF ti > Len(sorted) \/ testedCount >= MaxToTest
     THEN pc' = "done" /\ UNCHANGED <<ti, testedCount, tunnelCalls, result>>
     ELSE LET r == sorted[ti] IN
          \/ ~r.success /\ ti' = ti + 1 /\ UNCHANGED <<pc, testedCount, tunnelCalls, result>>
          \/ r.success
             /\ testedCount' = testedCount + 1
             /\ tunnelCalls' = Append(tunnelCalls, r.resolver)
             /\ IF tunnelOk[r.resolver.host]
                THEN result' = r.resolver /\ pc' = "done" /\ UNCHANGED ti
                ELSE ti' = ti + 1 /\ UNCHANGED <<pc, result>>
  /\ UNCHANGED <<env, scan>>

\* One iteration of TestResolversWithTunnel's loop over the sorted list.
TunnelStep ==
  /\ pc = "tunnel"
  /\ IF ti > Len(sorted) \/ testedCount >= MaxToTest
     THEN pc' = "done" /\ UNCHANGED <<ti, testedCount, tunnelCalls, result>>
     ELSE LET r == sorted[ti] IN
          \/ (~r.success \/ r.latencyMs > MaxTunnelLatencyMs)
             /\ ti' = ti + 1 /\ UNCHANGED <<pc, testedCount, tunnelCalls, result>>
          \/ r.success /\ r.latencyMs <= MaxTunnelLatencyMs
             /\ testedCount' = testedCount + 1
             /\ tunnelCalls' = Append(tunnelCalls, r.resolver)
             /\ IF tunnelOk[r.resolver.host]
                THEN result' = r.resolver /\ pc' = "done" /\ UNCHANGED ti
                ELSE ti' = ti + 1 /\ UNCHANGED <<pc, result>>
  /\ UNCHANGED <<env, scan>>

-----------------------------------------------------------------------------
(* FindFirstWorkingResolver.                                               *)

\* The parse and the early returns: an empty list, a bad domain or a bad
\* key return ""; the "Chrome" uTLS spec always samples.
FirstParse ==
  /\ pc = "first"
  /\ pc' = IF Total = 0 \/ ~argsOk \/ ~keyOk THEN "done" ELSE "firstloop"
  /\ UNCHANGED <<env, scan, ti, testedCount, tunnelCalls, result>>

\* Mutant: the loop goes on after a success.
FirstStep_NoReturn ==
  /\ pc = "firstloop"
  /\ IF ti > Total
     THEN pc' = "done" /\ UNCHANGED <<ti, progress, onResult, tunnelCalls, result>>
     ELSE LET a == ResolverList[ti] IN
          /\ progress' = Append(progress, ti)
          /\ ti' = ti + 1
          /\ \/ ~dnsResult[a.host].success
                /\ onResult' = Append(onResult, a) /\ UNCHANGED <<pc, tunnelCalls, result>>
             \/ dnsResult[a.host].success
                /\ tunnelCalls' = Append(tunnelCalls, WithPort(a))
                /\ onResult' = Append(onResult, a)
                /\ result' = (IF tunnelOk[a.host] THEN WithPort(a) ELSE result)
                /\ UNCHANGED pc
  /\ UNCHANGED <<env, gpc, sem, wg, chan, chanClosed, completed, collected,
                 sorted, testedCount>>

\* One iteration: OnProgress(i+1, total), the DNS probe on the line as
\* given, then the tunnel probe on resolverWithPort; each failure reports
\* OnResult and continues, a success reports it and returns the address
\* with its port.  After the last candidate the call returns "".
FirstStep ==
  /\ pc = "firstloop"
  /\ IF ti > Total
     THEN pc' = "done" /\ UNCHANGED <<ti, progress, onResult, tunnelCalls, result>>
     ELSE LET a == ResolverList[ti] IN
          /\ progress' = Append(progress, ti)
          /\ ti' = ti + 1
          /\ \/ ~dnsResult[a.host].success
                /\ onResult' = Append(onResult, a) /\ UNCHANGED <<pc, tunnelCalls, result>>
             \/ dnsResult[a.host].success /\ ~tunnelOk[a.host]
                /\ tunnelCalls' = Append(tunnelCalls, WithPort(a))
                /\ onResult' = Append(onResult, a) /\ UNCHANGED <<pc, result>>
             \/ dnsResult[a.host].success /\ tunnelOk[a.host]
                /\ tunnelCalls' = Append(tunnelCalls, WithPort(a))
                /\ onResult' = Append(onResult, WithPort(a))
                /\ result' = WithPort(a) /\ pc' = "done"
  /\ UNCHANGED <<env, gpc, sem, wg, chan, chanClosed, completed, collected,
                 sorted, testedCount>>

Finished == pc = "done"

Terminated == Finished /\ UNCHANGED vars

Next ==
  \/ Parse \/ Collect \/ EndScan \/ TunnelStep \/ CloseResults
  \/ FirstParse \/ FirstStep
  \/ \E i \in Cands : Acquire(i) \/ Send(i) \/ Report(i) \/ Exit(i)
  \/ Terminated

\* Every goroutine, the closer and the caller run when they can.
Fairness ==
  /\ WF_vars(Parse \/ Collect \/ EndScan \/ TunnelStep \/ FirstParse \/ FirstStep)
  /\ WF_vars(CloseResults)
  /\ \A i \in Cands : WF_vars(Acquire(i) \/ Send(i) \/ Report(i) \/ Exit(i))

Spec == Init /\ [][Next]_vars /\ Fairness

-----------------------------------------------------------------------------
(* Properties.                                                             *)

TypeOK ==
  /\ entry \in {"scan", "first"}
  /\ pc \in {"parse", "collect", "tunnel", "first", "firstloop", "done"}
  /\ gpc \in [Cands -> {"idle", "acquire", "send", "report", "exit", "done"}]
  /\ sem \in 0..Concurrency
  /\ wg \subseteq Cands
  /\ chan \in Seq(Result) /\ Len(chan) <= 2 * Concurrency
  /\ chanClosed \in BOOLEAN
  /\ completed \in 0..Total
  /\ collected \in Seq(Result) /\ sorted \in Seq(Result)
  /\ ti \in 1..Total + 1 /\ testedCount \in 0..MaxToTest
  /\ tunnelCalls \in Seq(Addr)
  /\ result \in Addr \cup {NoResult}

\* The scan has returned its list.
Scanned == entry = "scan" /\ pc \in {"tunnel", "done"} /\ Total > 0 /\ argsOk

\* The returned list holds exactly one result per candidate, each with its
\* own probe outcome (spec section 4.F.1: length = input count), though
\* results arrive over the channel in any order.
ScanReturnsAll ==
  Scanned => ToBag(sorted) = ToBag([i \in Cands |-> ResultOf(i)])

\* By the time TestResolvers returns, every candidate's callbacks have run
\* exactly once: OnResult once per candidate and OnProgress once for each
\* count 1..total (spec section 4.F.1), because wg.Done is deferred past them.
CallbacksBeforeReturn ==
  Scanned =>
    /\ ToBag(onResult) = ToBag(ResolverList)
    /\ ToBag(progress) = ToBag([i \in Cands |-> i])

\* Reference for TestResolversWithTunnel: among the successful results
\* within the latency cut, in list order, the first maxToTest are tried and
\* the first whose tunnel works is returned.
Eligible(r) == r.success /\ r.latencyMs <= MaxTunnelLatencyMs
Tried(s) ==
  LET e == SelectSeq(s, Eligible)
  IN  SubSeq(e, 1, IF Len(e) < MaxToTest THEN Len(e) ELSE MaxToTest)
Works(r) == tunnelOk[r.resolver.host]
Probed(s) ==
  LET t == Tried(s)
      k == IF \E j \in 1..Len(t) : Works(t[j])
           THEN CHOOSE j \in 1..Len(t) : Works(t[j]) /\ \A m \in 1..j - 1 : ~Works(t[m])
           ELSE Len(t)
  IN  [j \in 1..k |-> t[j].resolver]

\* The sequential loop, with its skips and its counter, probes exactly the
\* reference's candidates in order and returns the first that works.
TunnelSearchExact ==
  (Scanned /\ keyOk /\ Finished) =>
    /\ tunnelCalls = Probed(sorted)
    /\ result = IF tunnelCalls # <<>> /\ Works([resolver |-> Last(tunnelCalls)])
                THEN Last(tunnelCalls) ELSE NoResult

\* Every address handed to TestTunnelConnection carries a port (spec
\* section 4.F: the primitive takes host:port; the two other discovery
\* functions add ":53").
TunnelProbedWithPort ==
  \A j \in 1..Len(tunnelCalls) : tunnelCalls[j].port

\* Every call returns: no probe goroutine stays blocked on a semaphore slot
\* or on a full resultChan, the closer's wg.Wait ends, and the caller's
\* range over resultChan and its tunnel loop end.
Returns == <>Finished

\* Reference for FindFirstWorkingResolver: the candidates up to and
\* including the first whose DNS and tunnel probes both pass.
FullyWorks(a) == dnsResult[a.host].success /\ tunnelOk[a.host]
FirstTested ==
  IF \E j \in 1..Total : FullyWorks(ResolverList[j])
  THEN SubSeq(ResolverList, 1, CHOOSE j \in 1..Total :
                 FullyWorks(ResolverList[j]) /\ \A m \in 1..j - 1 : ~FullyWorks(ResolverList[m]))
  ELSE ResolverList

\* The sequential search stops at the first candidate that passes both
\* probes, in input order: it reports progress and a result for exactly
\* the candidates before it, tunnel-probes only those whose DNS probe
\* passed, and returns that one with its port, or "" when none passes
\* (spec section 4.F.3).
FirstWorkingExact ==
  (entry = "first" /\ Finished /\ Total > 0 /\ argsOk /\ keyOk) =>
    LET t == FirstTested IN
    /\ progress = [j \in 1..Len(t) |-> j]
    /\ Len(onResult) = Len(t)
    /\ tunnelCalls = [j \in 1..Len(SelectSeq(t, LAMBDA a : dnsResult[a.host].success))
                        |-> WithPort(SelectSeq(t, LAMBDA a : dnsResult[a.host].success)[j])]
    /\ result = IF FullyWorks(Last(t)) THEN WithPort(Last(t)) ELSE NoResult

=============================================================================
