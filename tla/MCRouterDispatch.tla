--------------------------- MODULE MCRouterDispatch ----------------------------
(* Small instances of RouterDispatch for TLC. *)
EXTENDS RouterDispatch, TLC

CONSTANTS
  q1, q2,        \* requests
  s, d,          \* a static name and a node id
  u, v           \* the URLs of two nodes

MCRank == [n \in Name |-> IF n = s THEN 0 ELSE 1]

MCStaticUrl == [n \in Static |-> u]

\* The second node advertises itself, and once more under the static name.
MCAdvert == {[id |-> d, url |-> v], [id |-> s, url |-> v]}

\* The static node reports what others run on it.
MCLoad == [x \in Url |-> IF x = u THEN 1 ELSE 0]

\* The static node is still loading; one change later it may be ready.
MCInitial == {[x \in Url |-> IF x = u THEN "Loading" ELSE "Fit"]}

RequestSymmetry == Permutations(Request)

================================================================================
