---- MODULE MCBm25Build ----
EXTENDS Bm25Build

L(t, f) == [t |-> t, tf |-> f]
R(ns, lex) == [nodes |-> ns, lex |-> lex]
Lex == {<<>>, <<L(1, 1)>>, <<L(1, 2), L(2, 1)>>, <<L(2, 0), L(3, 3)>>}

\* Node order differs from heap order; the fourth row has two nodes or none.
MCHeaps == {<<R({9}, a), R({2}, b), R({0}, c), R(n, <<L(1, 3), L(2, 1), L(4, 1)>>), R({3}, d)>> :
              a \in Lex \ {<<>>}, b \in Lex, c \in Lex, d \in {<<>>, <<L(1, 3)>>}, n \in {{}, {5, 6}}}
MCHash == [t \in 1..4 |-> IF t = 3 THEN 7 ELSE 5]
MCLen == [t \in 1..4 |-> CASE t = 4 -> 0 [] t = 3 -> 3 [] OTHER -> 1]
====
