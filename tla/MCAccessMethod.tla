--------------------------- MODULE MCAccessMethod ---------------------------
(***************************************************************************)
(* Four queries over five nodes, two open at once, one exception block.    *)
(* "top" is a hybrid RRF query right under a LIMIT and merges through the  *)
(* generation array; "join" has its LIMIT above a join, where the tuple    *)
(* target cannot follow; "all" has none and fuses by weight; "docs" runs   *)
(* on a multivector index below a subquery with a parameter for a LIMIT.   *)
(* "bad" asks a vector of a multivector index.  The generation counter     *)
(* ends at 2, so that it starts over.                                      *)
(***************************************************************************)
EXTENDS AccessMethod

Node(kind, count, const, offset, qual) ==
    [kind |-> kind, count |-> count, const |-> const, offset |-> offset, qual |-> qual]

Limit(n) == Node("Limit", n, TRUE, 0, FALSE)

MCPlan ==
    [top  |-> <<Limit(1)>>,
     join |-> <<Limit(1), Node("Join", 0, FALSE, 0, FALSE)>>,
     all  |-> <<>>,
     docs |-> <<Node("Subquery", 0, FALSE, 0, TRUE), Node("Limit", 1, FALSE, 1, FALSE),
                Node("Result", 0, FALSE, 0, FALSE), Node("Append", 0, FALSE, 0, FALSE)>>,
     bad  |-> <<Limit(2), Node("Gather", 0, FALSE, 0, FALSE)>>]

Hybrid ==
    [fusion |-> "rrf", vector |-> TRUE, multivector |-> FALSE, text |-> TRUE,
     denseK |-> 3, multivectorK |-> 3, bm25K |-> 3, denseDefaulted |-> TRUE, bm25Defaulted |-> TRUE,
     finalK |-> 0, finalSet |-> FALSE, requireBm25 |-> FALSE, rrfK |-> 1,
     denseWeight |-> 1, multivectorWeight |-> 1, bm25Weight |-> 1]

MCArgs ==
    [top  |-> Hybrid,
     join |-> [Hybrid EXCEPT !.requireBm25 = TRUE, !.bm25Weight = 2],
     all  |-> [Hybrid EXCEPT !.fusion = "weighted", !.denseK = 2],
     docs |-> [Hybrid EXCEPT !.vector = FALSE, !.multivector = TRUE, !.fusion = "calibrated"],
     bad  |-> Hybrid]

MCIndex ==
    [q \in {"top", "join", "all", "docs", "bad"} |->
        [lexical |-> TRUE, multivector |-> q \in {"docs", "bad"}]]

Cand(node, tid, score) == [node |-> node, tid |-> tid, score |-> score]

MCRanking ==
    [top  |-> [dense |-> <<Cand(0, 10, 5), Cand(2, 12, 3), Cand(4, 14, 1)>>, multi |-> <<>>,
               bm25 |-> <<Cand(3, 13, 4), Cand(2, 12, 3), Cand(1, 11, 1)>>],
     join |-> [dense |-> <<Cand(1, 11, 4), Cand(3, 13, 2), Cand(0, 10, 1)>>, multi |-> <<>>,
               bm25 |-> <<Cand(2, 12, 6), Cand(1, 11, 2)>>],
     all  |-> [dense |-> <<Cand(3, 13, 5), Cand(0, 10, 2)>>, multi |-> <<>>,
               bm25 |-> <<Cand(0, 10, 3)>>],
     docs |-> [dense |-> <<>>, multi |-> <<Cand(3, 12, 3), Cand(0, 10, -1)>>,
               bm25 |-> <<Cand(2, 12, 2), Cand(4, 14, 1)>>],
     bad  |-> [dense |-> <<>>, multi |-> <<>>, bm25 |-> <<>>]]
=============================================================================
