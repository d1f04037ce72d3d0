------------------------------ MODULE Resolvers ------------------------------
(***************************************************************************)
(* The candidate input shared by TestResolvers, FindWorkingResolverTwoPhase *)
(* and FindFirstWorkingResolver (src/dnstt-client/mobile/mobile.go): the   *)
(* newline-separated list they each parse with the same loop, and what the *)
(* external probe primitives can report for a host.                       *)
(***************************************************************************)
EXTENDS Integers, Sequences, SequencesExt

CONSTANTS
  Hosts,      \* resolver hosts named in the input
  Lines,      \* the input, one entry per line: an Addr, Blank or Comment
  Blank,      \* a line that is empty after TrimSpace
  Comment,    \* a line starting with "#"
  Latencies   \* latencies a DNS probe may measure, in ms

\* A resolver line: a host, and whether the string already contains ':'.
Addr == [host : Hosts, port : BOOLEAN]

ASSUME /\ Lines \in Seq(Addr \cup {Blank, Comment})
       /\ Latencies \subseteq Nat /\ Latencies # {}

\* TestDNSResolver's result: success and the measured latency.
DNSResult == {[success |-> FALSE, latencyMs |-> 0]}
               \cup [success : {TRUE}, latencyMs : Latencies]

\* strings.Split / TrimSpace / drop empty and "#" lines.
ResolverList == SelectSeq(Lines, LAMBDA l : l \notin {Blank, Comment})

Total == Len(ResolverList)

\* resolverWithPort: append ":53" when the address has no ':'.
WithPort(a) == [a EXCEPT !.port = TRUE]
=============================================================================
