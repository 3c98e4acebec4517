------------------------------ MODULE MCDocMap ------------------------------
(* Two heap addresses, three rows: one of three tokens in two chunks with a   *)
(* context, two of equal size that only their vectors tell apart.             *)
EXTENDS DocMap

MCShape ==
  [r \in 1..3 |->
     CASE r = 1 -> [tokens |-> <<1, 2, 1>>, centroids |-> <<2, 1>>, contexts |-> 2]
       [] r = 2 -> [tokens |-> <<2, 1>>, centroids |-> <<1>>, contexts |-> 0]
       [] r = 3 -> [tokens |-> <<1, 1>>, centroids |-> <<2>>, contexts |-> 0]]

MCTables == {<<>>, <<2>>}

Opt(document, storage, kmeans, contextLevel) ==
  [document |-> document, storage |-> storage, kmeans |-> kmeans, contextLevel |-> contextLevel]

MCOptions ==
  {Opt(FALSE, "f32", FALSE, FALSE), Opt(TRUE, "f16", FALSE, FALSE), Opt(TRUE, "f32", TRUE, TRUE),
   Opt(TRUE, "centroid_only", TRUE, FALSE),
   Opt(TRUE, "proxy_only", FALSE, FALSE), Opt(TRUE, "proxy_only", TRUE, FALSE)}
=============================================================================
