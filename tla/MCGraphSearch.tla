---------------------------- MODULE MCGraphSearch ----------------------------
(* Small index views: five rows in a chain, in two components, around a hub,   *)
(* and with an upper level; packed and exact distances that disagree.          *)
EXTENDS GraphSearch

N == 5
Chain == << <<1>>, <<0, 2>>, <<1, 3>>, <<2, 4>>, <<3>> >>
Split == << <<1>>, <<0>>, <<3, 4>>, <<2, 4>>, <<2, 3>> >>
Hub == << <<2>>, <<2>>, <<0, 1, 3, 4>>, <<2>>, <<2>> >>
OneWay == << <<1, 3>>, <<4>>, <<0>>, <<1>>, <<9>> >>

Upper == << <<>>, <<3>>, <<>>, <<1>>, <<>> >>
From0(s) == [k \in 0..(N - 1) |-> s[k + 1]]

One == <<[start |-> 0, count |-> N, entry |-> 3]>>
Two == <<[start |-> 0, count |-> 2, entry |-> 1], [start |-> 2, count |-> 3, entry |-> 4]>>

Codes == {<<20, 40, 60, 80, 100>>, <<100, 20, 80, 20, 60>>}
Exacts == <<40, 20, 100, 60, 40>>

View(adj, code, l2, exactFree, cached, dims, bits, segments, sidecar, payload) ==
  [n |-> N, level |-> From0(<<0, 1, 0, 1, 0>>),
   adj |-> [l \in 0..1 |-> IF l = 0 THEN From0(adj) ELSE From0(Upper)],
   code |-> [v \in 1..1 |-> From0(code)], exact |-> [v \in 1..1 |-> From0(Exacts)],
   payload |-> From0(payload), entry |-> 3, maxLevel |-> 1, routing |-> <<1, 3>>,
   sidecar |-> sidecar, segments |-> segments, residual |-> From0(<<1, 0, -1, 1, 0>>),
   sketches |-> ~l2, l2 |-> l2, exactFree |-> exactFree, exactBuild |-> FALSE, cached |-> cached,
   dims |-> dims, bits |-> bits, hidden |-> {2}, dead |-> {}]

\* Every graph with each kind of index: cosine or L2, packed codes alone or
\* exact vectors too, cached or not, low and high dimension and bits.
MCIndexes ==
  {[View(a, c, FALSE, TRUE, TRUE, 64, 4, One, <<2>>, <<7, 8, 7, NoPayload, 8>>) EXCEPT !.n = n] :
     a \in {Chain, OneWay}, c \in Codes, n \in {0, N}}
  \cup
  {View(a, c, x.l2, x.free, x.cached, x.dims, x.bits, x.segments, x.sidecar, <<7, 8, 7, NoPayload, 8>>) :
     a \in {Chain, Split, Hub, OneWay}, c \in Codes,
     x \in {[l2 |-> TRUE, free |-> FALSE, cached |-> TRUE, dims |-> 1024, bits |-> 2, segments |-> Two, sidecar |-> <<>>],
            [l2 |-> TRUE, free |-> FALSE, cached |-> TRUE, dims |-> 1024, bits |-> 4, segments |-> One, sidecar |-> <<>>],
            [l2 |-> TRUE, free |-> TRUE, cached |-> TRUE, dims |-> 64, bits |-> 4, segments |-> Two, sidecar |-> <<2>>],
            [l2 |-> FALSE, free |-> TRUE, cached |-> FALSE, dims |-> 1024, bits |-> 2, segments |-> One, sidecar |-> <<>>],
            [l2 |-> FALSE, free |-> FALSE, cached |-> TRUE, dims |-> 64, bits |-> 4, segments |-> <<>>, sidecar |-> <<4, 2>>]}}

Ask(filter, selectivity, limit, minTarget) ==
  [vector |-> 1, filter |-> filter, selectivity |-> selectivity, limit |-> limit,
   minTarget |-> minTarget, finalK |-> minTarget]

MCQueries == {Ask(NoFilter, 1, 1, 0), Ask(NoFilter, 1, NoLimit, 2), Ask(NoFilter, 1, NoLimit, N),
              Ask(NoFilter, 2, 1, 0), Ask(7, 2, 1, 0), Ask(8, 1, 2, 0), Ask(9, 2, NoLimit, 3)}

Policy(profile, adaptive, retry, expansion) ==
  [profile |-> profile, adaptive |-> adaptive, retry |-> retry, expansion |-> expansion]
MCPolicies == {Policy("latency", "off", "off", "off"), Policy("balanced", "auto", "auto", "auto")}
=============================================================================
