-------------------------- MODULE TwoPhaseDiscovery --------------------------
(***************************************************************************)
(* FindWorkingResolverTwoPhase (src/dnstt-client/mobile/mobile.go).        *)
(*                                                                         *)
(* The calling goroutine parses the candidate list, runs phase 1 (a fixed  *)
(* pool of DNS-probe workers fed through a buffered channel, results       *)
(* collected over a second channel closed after wg.Wait), sorts and       *)
(* filters the winners, then runs phase 2 (a pool of tunnel-probe workers *)
(* with a feeder, a single-slot found channel, a shared cancel and a       *)
(* closer goroutine) and returns the first published address.  Every      *)
(* goroutine is a process here; each channel is a sequence with a closed  *)
(* flag.  The probe primitives are external: their outcome per host is    *)
(* fixed nondeterministically in Init.                                     *)
(***************************************************************************)
EXTENDS Resolvers, Bags

CONSTANTS
  Workers1,           \* phase-1 worker goroutines (phase1Concurrency of them)
  Workers2,           \* phase-2 worker goroutines (phase2Concurrency of them)
  Phase2MaxToTestCfg, \* config.phase2MaxToTest
  MaxLatencyMs,       \* config.maxLatencyMs
  NoResult            \* the empty string: nothing found / no item held

ASSUME /\ Workers1 # {} /\ Workers2 # {}
       /\ Phase2MaxToTestCfg \in Int /\ MaxLatencyMs \in Int

VARIABLES
  argsOk,        \* ParseDomain(domain) and DecodeKey(pubkeyHex) both succeed
  dnsResult,     \* TestDNSResolver outcome per host
  tunnelOk,      \* TestTunnelConnection outcome per host
  pc,            \* control point of the calling goroutine
  work1, next1, work1Closed,   \* workChan and its feeder's position
  w1pc, w1item,                \* phase-1 workers
  tested1,                     \* the atomic phase-1 counter
  res1, res1Closed,            \* resultChan
  collected,                   \* phase1Results as appended by the collector
  phase1Results,               \* phase1Results after sort.Slice
  cands,                       \* phase2Candidates
  spawned2,                    \* phase-2 goroutines have been started
  work2, next2, work2Closed,   \* workChan2 and its feeder's position
  cancelled,                   \* ctx.Done() of the phase-2 context
  w2pc, w2item,                \* phase-2 workers
  tested2, passed2,            \* the atomic phase-2 counters
  found, foundClosed,          \* foundChan (capacity 1)
  foundCalls,                  \* history: arguments of OnResolverFound calls
  phaseCalls,                  \* history: OnPhaseChange and OnPhaseComplete
  result                       \* the value returned

env   == <<argsOk, dnsResult, tunnelOk>>
p1    == <<work1, next1, work1Closed, w1pc, w1item, tested1, res1, res1Closed,
           collected, phase1Results>>
p2    == <<cands, spawned2, work2, next2, work2Closed, cancelled, w2pc, w2item,
           tested2, passed2, found, foundClosed, foundCalls>>
vars  == <<env, pc, p1, p2, result, phaseCalls>>

-----------------------------------------------------------------------------
(* Pure steps of the calling goroutine.                                    *)

\* Every ordering sort.Slice (not stable) may produce: sorted by latency.
SortByLatency(s) ==
  { t \in { [i \in DOMAIN s |-> s[p[i]]] : p \in SetToSeqs(DOMAIN s) } :
      IsSorted(t, LAMBDA a, b : a.latencyMs <= b.latencyMs) }

Phase2MaxToTest == IF Phase2MaxToTestCfg < 1 THEN 30 ELSE Phase2MaxToTestCfg

\* The filter loop over the sorted winners, with its break at the cap.
RECURSIVE FilterCandidates(_, _)
FilterCandidates(rs, acc) ==
  IF rs = <<>> THEN acc
  ELSE IF Head(rs).latencyMs <= MaxLatencyMs \/ acc = <<>>
       THEN IF Len(acc) + 1 >= Phase2MaxToTest
            THEN Append(acc, Head(rs))
            ELSE FilterCandidates(Tail(rs), Append(acc, Head(rs)))
       ELSE FilterCandidates(Tail(rs), acc)

\* Filter, then the fallback to the fastest ones when nothing was admitted.
Phase2Candidates(rs) ==
  LET c == FilterCandidates(rs, <<>>)
  IN  IF c = <<>> /\ rs # <<>>
      THEN SubSeq(rs, 1, IF Phase2MaxToTest < Len(rs) THEN Phase2MaxToTest
                                                       ELSE Len(rs))
      ELSE c

-----------------------------------------------------------------------------
Init ==
  /\ argsOk \in BOOLEAN
  /\ dnsResult \in [Hosts -> DNSResult]
  /\ tunnelOk \in [Hosts -> BOOLEAN]
  /\ pc = "parse"
  /\ work1 = <<>> /\ next1 = 0 /\ work1Closed = FALSE
  /\ w1pc = [w \in Workers1 |-> "recv"] /\ w1item = [w \in Workers1 |-> NoResult]
  /\ tested1 = 0 /\ res1 = <<>> /\ res1Closed = FALSE
  /\ collected = <<>> /\ phase1Results = <<>>
  /\ cands = <<>> /\ spawned2 = FALSE
  /\ work2 = <<>> /\ next2 = 0 /\ work2Closed = FALSE /\ cancelled = FALSE
  /\ w2pc = [w \in Workers2 |-> "loop"] /\ w2item = [w \in Workers2 |-> NoResult]
  /\ tested2 = 0 /\ passed2 = 0
  /\ found = <<>> /\ foundClosed = FALSE /\ foundCalls = <<>>
  /\ result = NoResult /\ phaseCalls = << >>

\* The arguments of OnPhaseChange(phase, message), whose message names the
\* count, and of OnPhaseComplete(phase, passedCount, totalTested).
PhaseChange(ph, n) == [call |-> "change", phase |-> ph, passed |-> 0, total |-> n]
PhaseComplete(ph, p, n) == [call |-> "complete", phase |-> ph, passed |-> p, total |-> n]

\* Parse the list, domain and key; return "" early or start phase 1.
Parse ==
  /\ pc = "parse"
  /\ IF Total = 0 \/ ~argsOk
     THEN pc' = "done" /\ UNCHANGED phaseCalls
     ELSE pc' = "phase1" /\ phaseCalls' = << PhaseChange(1, Total) >>
  /\ UNCHANGED <<env, p1, p2, result>>

-----------------------------------------------------------------------------
(* Phase 1: feeder, workers, closer, collector.                            *)

Feed1 ==
  /\ pc = "phase1" /\ next1 < Total
  /\ work1' = Append(work1, ResolverList[next1 + 1])
  /\ next1' = next1 + 1
  /\ UNCHANGED <<env, pc, work1Closed, w1pc, w1item, tested1, res1, res1Closed,
                 collected, phase1Results, p2, result, phaseCalls>>

CloseWork1 ==
  /\ pc = "phase1" /\ next1 = Total /\ ~work1Closed
  /\ work1Closed' = TRUE
  /\ UNCHANGED <<env, pc, work1, next1, w1pc, w1item, tested1, res1, res1Closed,
                 collected, phase1Results, p2, result, phaseCalls>>

\* for res := range workChan: take the next item.
Recv1(w) ==
  /\ pc = "phase1" /\ w1pc[w] = "recv" /\ work1 # <<>>
  /\ w1item' = [w1item EXCEPT ![w] = Head(work1)]
  /\ work1' = Tail(work1)
  /\ w1pc' = [w1pc EXCEPT ![w] = "probe"]
  /\ UNCHANGED <<env, pc, next1, work1Closed, tested1, res1, res1Closed,
                 collected, phase1Results, p2, result, phaseCalls>>

\* Mutant: a worker leaves as soon as the channel is momentarily empty.
Exit1_NotClosed(w) ==
  /\ pc = "phase1" /\ w1pc[w] = "recv" /\ work1 = <<>>
  /\ w1pc' = [w1pc EXCEPT ![w] = "exit"]
  /\ UNCHANGED <<env, pc, work1, next1, work1Closed, w1item, tested1, res1,
                 res1Closed, collected, phase1Results, p2, result, phaseCalls>>

\* for res := range workChan ends: the channel is closed and drained.
Exit1(w) ==
  /\ pc = "phase1" /\ w1pc[w] = "recv" /\ work1 = <<>> /\ work1Closed
  /\ w1pc' = [w1pc EXCEPT ![w] = "exit"]
  /\ UNCHANGED <<env, pc, work1, next1, work1Closed, w1item, tested1, res1,
                 res1Closed, collected, phase1Results, p2, result, phaseCalls>>

\* TestDNSResolver, the progress counter, and the send to resultChan.
Probe1(w) ==
  /\ pc = "phase1" /\ w1pc[w] = "probe"
  /\ LET a == w1item[w]
         r == dnsResult[a.host]
     IN  res1' = Append(res1, [resolver |-> a, latencyMs |-> r.latencyMs,
                               success |-> r.success])
  /\ tested1' = tested1 + 1
  /\ w1pc' = [w1pc EXCEPT ![w] = "recv"]
  /\ w1item' = [w1item EXCEPT ![w] = NoResult]
  /\ UNCHANGED <<env, pc, work1, next1, work1Closed, res1Closed, collected,
                 phase1Results, p2, result, phaseCalls>>

\* wg.Wait(); close(resultChan)
CloseResults1 ==
  /\ pc = "phase1" /\ ~res1Closed
  /\ \A w \in Workers1 : w1pc[w] = "exit"
  /\ res1Closed' = TRUE
  /\ UNCHANGED <<env, pc, work1, next1, work1Closed, w1pc, w1item, tested1, res1,
                 collected, phase1Results, p2, result, phaseCalls>>

\* for r := range resultChan: keep the successes.
Collect1 ==
  /\ pc = "phase1" /\ res1 # <<>>
  /\ res1' = Tail(res1)
  /\ collected' = IF Head(res1).success THEN Append(collected, Head(res1))
                                        ELSE collected
  /\ UNCHANGED <<env, pc, work1, next1, work1Closed, w1pc, w1item, tested1,
                 res1Closed, phase1Results, p2, result, phaseCalls>>

\* The range ends: sort, OnPhaseComplete(1), return "" if nothing passed,
\* otherwise select the candidates, OnPhaseChange(2) and start the phase-2
\* goroutines.
EndPhase1 ==
  /\ pc = "phase1" /\ res1 = <<>> /\ res1Closed
  /\ \E sorted \in SortByLatency(collected) :
       /\ phase1Results' = sorted
       /\ IF sorted = <<>>
          THEN /\ pc' = "done"
               /\ phaseCalls' = Append(phaseCalls, PhaseComplete(1, 0, Total))
               /\ UNCHANGED <<cands, spawned2>>
          ELSE LET c2 == Phase2Candidates(sorted) IN
               /\ pc' = "collect2"
               /\ cands' = [i \in 1..Len(c2) |->
                              [resolver |-> c2[i].resolver,
                               latencyMs |-> c2[i].latencyMs]]
               /\ phaseCalls' = phaseCalls \o
                                 << PhaseComplete(1, Len(sorted), Total),
                                    PhaseChange(2, Len(c2)) >>
               /\ spawned2' = TRUE
  /\ UNCHANGED <<env, work1, next1, work1Closed, w1pc, w1item, tested1, res1,
                 res1Closed, collected, work2, next2, work2Closed, cancelled,
                 w2pc, w2item, tested2, passed2, found, foundClosed, foundCalls,
                 result>>

-----------------------------------------------------------------------------
(* Phase 2: feeder, workers, closer; the caller drains foundChan.          *)

\* The feeder's select sends the candidate ...
Feed2 ==
  /\ spawned2 /\ next2 < Len(cands)
  /\ work2' = Append(work2, cands[next2 + 1])
  /\ next2' = next2 + 1
  /\ UNCHANGED <<env, pc, p1, cands, spawned2, work2Closed, cancelled, w2pc,
                 w2item, tested2, passed2, found, foundClosed, foundCalls, result, phaseCalls>>

\* Mutant: the feeder drops a candidate without cancellation.
SkipFeed2_Uncancelled ==
  /\ spawned2 /\ next2 < Len(cands)
  /\ next2' = next2 + 1
  /\ UNCHANGED <<env, pc, p1, cands, spawned2, work2, work2Closed, cancelled,
                 w2pc, w2item, tested2, passed2, found, foundClosed, foundCalls,
                 result, phaseCalls>>

\* ... or takes ctx.Done(), whose `break` leaves only the select: the loop
\* goes on with the next candidate, this one unsent.
SkipFeed2 ==
  /\ spawned2 /\ next2 < Len(cands) /\ cancelled
  /\ next2' = next2 + 1
  /\ UNCHANGED <<env, pc, p1, cands, spawned2, work2, work2Closed, cancelled,
                 w2pc, w2item, tested2, passed2, found, foundClosed, foundCalls,
                 result, phaseCalls>>

CloseWork2 ==
  /\ spawned2 /\ next2 = Len(cands) /\ ~work2Closed
  /\ work2Closed' = TRUE
  /\ UNCHANGED <<env, pc, p1, cands, spawned2, work2, next2, cancelled, w2pc,
                 w2item, tested2, passed2, found, foundClosed, foundCalls, result, phaseCalls>>

\* Worker select, case <-ctx.Done(): return.
Quit2(w) ==
  /\ spawned2 /\ w2pc[w] = "loop" /\ cancelled
  /\ w2pc' = [w2pc EXCEPT ![w] = "exit"]
  /\ UNCHANGED <<env, pc, p1, cands, spawned2, work2, next2, work2Closed,
                 cancelled, w2item, tested2, passed2, found, foundClosed,
                 foundCalls, result, phaseCalls>>

\* Mutant: the item is read but left in the channel.
Recv2_NoDequeue(w) ==
  /\ spawned2 /\ w2pc[w] = "loop" /\ work2 # <<>>
  /\ w2item' = [w2item EXCEPT ![w] = [Head(work2) EXCEPT
                                        !.resolver = WithPort(@)]]
  /\ tested2' = tested2 + 1
  /\ w2pc' = [w2pc EXCEPT ![w] = "test"]
  /\ UNCHANGED <<env, pc, p1, cands, spawned2, work2, next2, work2Closed,
                 cancelled, passed2, found, foundClosed, foundCalls, result, phaseCalls>>

\* Worker select, case work, ok := <-workChan2 with ok: add the port,
\* count the test and start TestTunnelConnection.
Recv2(w) ==
  /\ spawned2 /\ w2pc[w] = "loop" /\ work2 # <<>>
  /\ w2item' = [w2item EXCEPT ![w] = [Head(work2) EXCEPT
                                        !.resolver = WithPort(@)]]
  /\ work2' = Tail(work2)
  /\ tested2' = tested2 + 1
  /\ w2pc' = [w2pc EXCEPT ![w] = "test"]
  /\ UNCHANGED <<env, pc, p1, cands, spawned2, next2, work2Closed, cancelled,
                 passed2, found, foundClosed, foundCalls, result, phaseCalls>>

\* Mutant: `continue` instead of `return` on the closed channel.
Drained2_Continue(w) ==
  /\ spawned2 /\ w2pc[w] = "loop" /\ work2 = <<>> /\ work2Closed
  /\ UNCHANGED vars

\* Worker select, case <-workChan2 with !ok: return.
Drained2(w) ==
  /\ spawned2 /\ w2pc[w] = "loop" /\ work2 = <<>> /\ work2Closed
  /\ w2pc' = [w2pc EXCEPT ![w] = "exit"]
  /\ UNCHANGED <<env, pc, p1, cands, spawned2, work2, next2, work2Closed,
                 cancelled, w2item, tested2, passed2, found, foundClosed,
                 foundCalls, result, phaseCalls>>

\* Mutant: the error of TestTunnelConnection is ignored.
Test2_IgnoreError(w) ==
  /\ spawned2 /\ w2pc[w] = "test"
  /\ passed2' = passed2 + 1
  /\ w2pc' = [w2pc EXCEPT ![w] = "publish"]
  /\ UNCHANGED <<env, pc, p1, cands, spawned2, work2, next2, work2Closed,
                 cancelled, w2item, tested2, found, foundClosed, foundCalls,
                 result, phaseCalls>>

\* Mutant: the atomic.AddInt64(&phase2Passed, 1) is missing.
Test2_NoCount(w) ==
  /\ spawned2 /\ w2pc[w] = "test"
  /\ w2pc' = [w2pc EXCEPT ![w] = IF tunnelOk[w2item[w].resolver.host]
                                  THEN "publish" ELSE "loop"]
  /\ w2item' = [w2item EXCEPT ![w] = IF tunnelOk[w2item[w].resolver.host]
                                      THEN @ ELSE NoResult]
  /\ UNCHANGED <<env, pc, p1, cands, spawned2, work2, next2, work2Closed,
                 cancelled, tested2, passed2, found, foundClosed, foundCalls,
                 result, phaseCalls>>

\* TestTunnelConnection returns: on error continue the loop, on success
\* count the pass and go on to publish.
Test2(w) ==
  /\ spawned2 /\ w2pc[w] = "test"
  /\ IF tunnelOk[w2item[w].resolver.host]
     THEN /\ passed2' = passed2 + 1
          /\ w2pc' = [w2pc EXCEPT ![w] = "publish"]
          /\ UNCHANGED w2item
     ELSE /\ w2pc' = [w2pc EXCEPT ![w] = "loop"]
          /\ w2item' = [w2item EXCEPT ![w] = NoResult]
          /\ UNCHANGED passed2
  /\ UNCHANGED <<env, pc, p1, cands, spawned2, work2, next2, work2Closed,
                 cancelled, tested2, found, foundClosed, foundCalls, result, phaseCalls>>

\* select { case foundChan <- resolverWithPort: ... default: }, then the
\* default branch returns.
Publish2(w) ==
  /\ spawned2 /\ w2pc[w] = "publish"
  /\ IF Len(found) < 1
     THEN /\ found' = Append(found, w2item[w].resolver)
          /\ w2pc' = [w2pc EXCEPT ![w] = "notify"]
     ELSE /\ w2pc' = [w2pc EXCEPT ![w] = "exit"]
          /\ UNCHANGED found
  /\ UNCHANGED <<env, pc, p1, cands, spawned2, work2, next2, work2Closed,
                 cancelled, w2item, tested2, passed2, foundClosed, foundCalls,
                 result, phaseCalls>>

\* After a successful send: cancel(), OnResolverFound, return.
Notify2(w) ==
  /\ spawned2 /\ w2pc[w] = "notify"
  /\ cancelled' = TRUE
  /\ foundCalls' = Append(foundCalls, w2item[w].resolver)
  /\ w2pc' = [w2pc EXCEPT ![w] = "exit"]
  /\ UNCHANGED <<env, pc, p1, cands, spawned2, work2, next2, work2Closed,
                 w2item, tested2, passed2, found, foundClosed, result, phaseCalls>>

\* wg2.Wait(); close(foundChan)
CloseFound2 ==
  /\ spawned2 /\ ~foundClosed
  /\ \A w \in Workers2 : w2pc[w] = "exit"
  /\ foundClosed' = TRUE
  /\ UNCHANGED <<env, pc, p1, cands, spawned2, work2, next2, work2Closed,
                 cancelled, w2pc, w2item, tested2, passed2, found, foundCalls,
                 result, phaseCalls>>

\* for r := range foundChan receives an address: take it and break;
\* OnPhaseComplete(2), return, and the deferred cancel() runs.
TakeFound ==
  /\ pc = "collect2" /\ found # <<>>
  /\ result' = Head(found)
  /\ found' = Tail(found)
  /\ phaseCalls' = Append(phaseCalls, PhaseComplete(2, passed2, Len(cands)))
  /\ cancelled' = TRUE
  /\ pc' = "done"
  /\ UNCHANGED <<env, p1, cands, spawned2, work2, next2, work2Closed, w2pc,
                 w2item, tested2, passed2, foundClosed, foundCalls>>

\* The range ends on the closed, empty channel: return "".
NoneFound ==
  /\ pc = "collect2" /\ found = <<>> /\ foundClosed
  /\ phaseCalls' = Append(phaseCalls, PhaseComplete(2, passed2, Len(cands)))
  /\ cancelled' = TRUE
  /\ pc' = "done"
  /\ UNCHANGED <<env, p1, cands, spawned2, work2, next2, work2Closed, w2pc,
                 w2item, tested2, passed2, found, foundClosed, foundCalls,
                 result>>

-----------------------------------------------------------------------------
\* The call has returned and every goroutine it started has exited.
Finished ==
  /\ pc = "done"
  /\ spawned2 => /\ \A w \in Workers2 : w2pc[w] = "exit"
                 /\ next2 = Len(cands) /\ work2Closed /\ foundClosed

\* Once everything has finished the system stays put.
Terminated == Finished /\ UNCHANGED vars

Caller ==
  Parse \/ EndPhase1 \/ Collect1 \/ TakeFound \/ NoneFound

Phase1Goroutines ==
  Feed1 \/ CloseWork1 \/ CloseResults1
    \/ \E w \in Workers1 : Recv1(w) \/ Exit1(w) \/ Probe1(w)

Phase2Goroutines ==
  Feed2 \/ SkipFeed2 \/ CloseWork2 \/ CloseFound2
    \/ \E w \in Workers2 : Quit2(w) \/ Recv2(w) \/ Drained2(w) \/ Test2(w)
                             \/ Publish2(w) \/ Notify2(w)

Next == Caller \/ Phase1Goroutines \/ Phase2Goroutines \/ Terminated

\* The Go scheduler runs every runnable goroutine, and each probe returns
\* within its timeout, so every goroutine that can step eventually does.
Fairness ==
  /\ WF_vars(Caller)
  /\ WF_vars(Feed1 \/ CloseWork1) /\ WF_vars(CloseResults1)
  /\ \A w \in Workers1 : WF_vars(Recv1(w) \/ Exit1(w) \/ Probe1(w))
  /\ WF_vars(Feed2 \/ SkipFeed2 \/ CloseWork2) /\ WF_vars(CloseFound2)
  /\ \A w \in Workers2 : WF_vars(Quit2(w) \/ Recv2(w) \/ Drained2(w) \/ Test2(w)
                                  \/ Publish2(w) \/ Notify2(w))

Spec == Init /\ [][Next]_vars /\ Fairness

-----------------------------------------------------------------------------
(* Properties.                                                             *)

Cand == [resolver : Addr, latencyMs : Latencies \cup {0}]

TypeOK ==
  /\ argsOk \in BOOLEAN /\ dnsResult \in [Hosts -> DNSResult]
  /\ tunnelOk \in [Hosts -> BOOLEAN]
  /\ pc \in {"parse", "phase1", "collect2", "done"}
  /\ next1 \in 0..Total /\ Len(work1) <= Total
  /\ w1pc \in [Workers1 -> {"recv", "probe", "exit"}]
  /\ tested1 \in 0..Total /\ Len(res1) <= Total
  /\ cands \in Seq(Cand) /\ Len(cands) <= Phase2MaxToTest
  /\ next2 \in 0..Len(cands) /\ Len(work2) <= Len(cands)
  /\ w2pc \in [Workers2 -> {"loop", "test", "publish", "notify", "exit"}]
  /\ tested2 \in 0..Len(cands) /\ passed2 \in 0..tested2
  /\ Len(found) <= 1
  /\ result \in Addr \cup {NoResult}
  /\ phaseCalls \in Seq([call : {"change", "complete"}, phase : {1, 2},
                         passed : Nat, total : Nat])

\* Phase 1 loses and duplicates nothing: once the caller has moved on from
\* phase 1, phase1Results holds each input line whose DNS probe succeeded,
\* as often as it occurs in the input (feeder, worker pool, closer after
\* wg.Wait and collector together).
Phase1Exact ==
  pc \in {"collect2", "done"} /\ argsOk /\ Total > 0 =>
    LET passed == SelectSeq(ResolverList, LAMBDA a : dnsResult[a.host].success)
    IN  ToBag([i \in DOMAIN phase1Results |-> phase1Results[i].resolver])
          = ToBag(passed)

\* The address returned is one of the phase-2 candidates, with ":53" added,
\* whose tunnel test succeeded.
ResultVerified ==
  pc = "done" /\ result # NoResult =>
    /\ tunnelOk[result.host]
    /\ \E i \in DOMAIN cands : result = WithPort(cands[i].resolver)

\* "" is returned only when no candidate works: early cancellation (feeder
\* skipping, workers quitting) never hides a working resolver when nothing
\* was found.
NoneFoundOnlyIfNoneWorks ==
  pc = "done" /\ result = NoResult /\ argsOk /\ Total > 0 =>
    \A i \in DOMAIN cands : ~tunnelOk[cands[i].resolver.host]

\* OnResolverFound fires at most once per call (spec section 8, invariant 4;
\* section 4.F.2: "subsequent successes are dropped").
AtMostOneFound == Len(foundCalls) <= 1

\* No worker takes a new work item once the phase-2 context is cancelled
\* (spec 4.F.2 and scenario 5: peers exit without starting further probes).
NoProbeAfterCancel ==
  [][\A w \in Workers2 : w2pc[w] = "loop" /\ w2pc'[w] = "test" => ~cancelled]_vars

\* Each phase the call announced with OnPhaseChange is closed by exactly
\* one OnPhaseComplete before it returns (spec 4.F.2: "Phase-complete
\* callbacks are invoked once per phase, before returning"), and the
\* passedCount of phase 2, an atomic load made while other workers may
\* still be running, is positive exactly when an address is returned.
Calls(kind, ph) ==
  Cardinality({i \in DOMAIN phaseCalls :
                 phaseCalls[i].call = kind /\ phaseCalls[i].phase = ph})

PhaseCompletion ==
  pc = "done" =>
    /\ \A ph \in {1, 2} : Calls("complete", ph) = Calls("change", ph)
                          /\ Calls("change", ph) <= 1
    /\ \A i \in DOMAIN phaseCalls :
         phaseCalls[i].call = "complete" /\ phaseCalls[i].phase = 2 =>
           (phaseCalls[i].passed > 0 <=> result # NoResult)

\* The call returns and every goroutine it started exits: no worker,
\* feeder or closer is left blocked on a channel.
Termination == <>[]Finished

=============================================================================
