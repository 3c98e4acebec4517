-------------------------- MODULE MCMultiVectorScan --------------------------
(* Tables of up to five documents out of four shapes, queries of two and      *)
(* three tokens with and without weights and masks.                           *)
EXTENDS MultiVectorScan

a == <<2, 2, 1>>
b == <<3, 0, 0>>
c == <<-2, 1, 2>>
d == <<0, 0, 3>>

Doc(tokens) == [tokens |-> tokens, offsets |-> <<>>]
Pool == <<Doc(<<a, c>>), Doc(<<b>>), Doc(<<d, a>>), [tokens |-> <<c, b>>, offsets |-> <<0, 1>>]>>

\* Every choice of five documents, in two orders of the heap.
Ascending == {s \in [1..5 -> 1..4] : \A i \in 1..4 : s[i] <= s[i + 1]}
Table(s) == [i \in DOMAIN s |-> Pool[s[i]]]
MCCorpora == {<<>>} \cup {Table(s) : s \in [1..2 -> 1..4]}
             \cup {Table(s) : s \in Ascending} \cup {Table(Reverse(s)) : s \in Ascending}

Query(tokens, weights, mask, hasWeights, hasMask) ==
  [tokens |-> tokens, weights |-> weights, mask |-> mask,
   hasWeights |-> hasWeights, hasMask |-> hasMask]
None(n) == [i \in 1..n |-> FALSE]
Ones(n) == [i \in 1..n |-> 1]

MCQueries ==
  {Query(<<b, d>>, Ones(2), None(2), FALSE, FALSE),
   Query(<<c, a, d>>, Ones(3), None(3), FALSE, FALSE),
   Query(<<a, c>>, <<1, 3>>, None(2), TRUE, FALSE),
   Query(<<d, b, a>>, <<2, 1, 0>>, <<FALSE, TRUE, FALSE>>, TRUE, TRUE),
   Query(<<<<1, 1>>>>, Ones(1), None(1), FALSE, FALSE)}

Request(target, finalK, tupleTarget) ==
  [target |-> target, finalK |-> finalK, tupleTarget |-> tupleTarget]
MCRequests == {Request(0, 1, 0), Request(3, 0, 2)}

Estimate(docCount, reltuples) == [docCount |-> docCount, reltuples |-> reltuples]
MCEstimates == {Estimate(0, 20), Estimate(0, 0)}
MCOptions == {[contextLevel |-> FALSE], [contextLevel |-> TRUE]}
MCBlind == {{}, {3}}
MCHidden == {{}, {2}}
=============================================================================
