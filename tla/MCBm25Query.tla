---- MODULE MCBm25Query ----
EXTENDS Bm25Query

N == 0..4
Val(t) == [oper |-> "val", term |-> t, left |-> 0, prefix |-> FALSE]
Op(o, l) == [oper |-> o, term |-> 0, left |-> l, prefix |-> FALSE]
Prefix == <<[Val(1) EXCEPT !.prefix = TRUE]>>
Single == <<Val(1)>>
Or2 == <<Op("or", 2), Val(2), Val(1)>>
Or3 == <<Op("or", 4), Op("or", 2), Val(3), Val(2), Val(1)>>
And2 == <<Op("and", 2), Val(2), Val(1)>>
AndNot == <<Op("and", 3), Op("not", 1), Val(2), Val(1)>>
Mixed == <<Op("and", 4), Op("or", 2), Val(3), Val(2), Val(1)>>
Phrase == <<Op("phrase", 2), Val(2), Val(1)>>
OnlyNot == <<Op("not", 1), Val(1)>>
OrPhrase == <<Op("or", 4), Op("phrase", 2), Val(3), Val(2), Val(1)>>
Four == <<Op("or", 6), Op("or", 4), Op("or", 2), Val(4), Val(3), Val(2), Val(1)>>

\* Scores of the base postings: node 4 is only in the delta.
F(a, b, c, d) == [n \in N |-> CASE n = 0 -> a [] n = 1 -> b [] n = 2 -> c [] n = 3 -> d [] OTHER -> 0]
T1 == {F(a, b, c, d) : a \in {0, 1, 2}, b \in {0, 1}, c \in {0, 1}, d \in {0, 1, 3}}
T2 == {F(0, 0, 0, 0), F(1, 1, 0, 2), F(0, 3, 1, 0), F(2, 0, 2, 1)}
T3 == {F(0, 1, 0, 2)}
Base == {[t \in 1..4 |-> IF t = 1 THEN a ELSE IF t = 2 THEN b ELSE IF t = 3 THEN c ELSE F(0, 0, 0, 0)] :
           a \in T1, b \in T2, c \in T3}
NoDelta == [t \in 1..4 |-> <<>>]
Delta == [t \in 1..4 |-> IF t = 3 THEN <<>> ELSE <<[node |-> 4, score |-> 2, t |-> t]>>]

Off == [enabled |-> FALSE, dense |-> <<>>, kth |-> 0]
On == [enabled |-> TRUE, dense |-> [n \in {0, 3} |-> 3], kth |-> 3]
\* Left by earlier queries: generation g, nodes below c in the arrays.
Stale(g, c) == [capacity |-> c, generation |-> g,
                gens |-> [n \in N |-> IF n < c THEN n % (g + 1) ELSE g + 1],
                entries |-> [n \in N |-> [score |-> 5, matched |-> {1, 2}, heapIndex |-> 0]]]

Settings == {[k |-> 1, wand |-> TRUE, fused |-> Off, slack |-> 0, stale |-> Stale(0, 0)],
             [k |-> 2, wand |-> TRUE, fused |-> Off, slack |-> 1, stale |-> Stale(2, 4)],
             [k |-> 2, wand |-> TRUE, fused |-> On, slack |-> 0, stale |-> Stale(1, 3)],
             [k |-> 3, wand |-> FALSE, fused |-> Off, slack |-> 1, stale |-> Stale(2, 5)]}
Contents == {[dead |-> {}, delta |-> NoDelta], [dead |-> {1}, delta |-> Delta]}
CasesFor(queries) ==
    {[base |-> b, dead |-> c.dead, delta |-> c.delta, query |-> q, k |-> s.k, wand |-> s.wand,
      fused |-> s.fused, slack |-> s.slack, stale |-> s.stale] : b \in Base, c \in Contents, q \in queries, s \in Settings}

MCCases == CasesFor({Single, Or2, Or3, And2, AndNot, Mixed, Phrase, OnlyNot, Prefix})
PhraseCases == CasesFor({OrPhrase})
MCTiers == <<1, 2, 9>>
====
