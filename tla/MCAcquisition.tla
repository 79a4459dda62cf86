---------------------------- MODULE MCAcquisition ----------------------------
(* Instance for TLC: a tool call and a caller that keeps its adapter.         *)
EXTENDS Acquisition

CONSTANTS shop, office, small, large, n, m, way, p, q

Tag(key, value) == [key |-> key, value |-> value]
Query(tags, box) == [tags |-> tags, box |-> box]

\* Queries that come back, that are refused, and that separators in values change.
MCQueries ==
  {Query(<<Tag(shop, <<"x">>), Tag(office, <<"y", "=", "x">>)>>, small),
   Query(<<Tag(shop, <<"=">>)>>, small),
   Query(<<Tag(shop, <<"x", ";", office, "=", "y">>)>>, small),
   Query(<<Tag(shop, <<"x", "&bbox=", "y">>)>>, small),
   Query(<<Tag(shop, <<"x", ";">>)>>, small),
   Query(<<Tag(shop, <<>>)>>, small),
   Query(<<Tag("other", <<"x">>)>>, small),
   Query(<<Tag(shop, <<"x", "long">>)>>, small),
   Query(<<>>, small), Query(<<Tag(shop, <<"x">>)>>, large)}

Node(id, ok) == [kind |-> "node", id |-> id, ok |-> ok, inline |-> <<>>, refs |-> <<>>]
Way(inline, refs) == [kind |-> "way", id |-> way, ok |-> TRUE, inline |-> inline, refs |-> refs]
Relation == [kind |-> "relation", id |-> None, ok |-> TRUE, inline |-> <<>>, refs |-> <<>>]

MCAnswers ==
  {<<>>,
   <<Way(<<>>, <<n, m, n>>), Node(n, TRUE), Relation, Node(m, TRUE)>>,
   <<Node(n, TRUE), Way(<<>>, <<n, m>>), Node(m, FALSE)>>,
   <<Way(<<p, None, q>>, <<>>), Way(<<p, None>>, <<>>), [Way(<<p, q>>, <<>>) EXCEPT !.ok = FALSE]>>}

Item(media, host, declared) == [media |-> media, host |-> host, declared |-> declared]

MCItems ==
  {None, Item(TRUE, TRUE, 2), Item(TRUE, TRUE, None), Item(TRUE, TRUE, 4), Item(FALSE, TRUE, 2), Item(TRUE, FALSE, 2)}

Member(safe, declared, packed, real) == [safe |-> safe, declared |-> declared, packed |-> packed, real |-> real]

MCArchives ==
  {<<Member(TRUE, 1, 1, 3), Member(TRUE, 2, 1, 2)>>,
   <<Member(TRUE, 4, 0, 5)>>,
   <<Member(TRUE, 3, 1, 2)>>,
   <<Member(FALSE, 1, 1, 1)>>,
   <<Member(TRUE, 5, 5, 5)>>,
   <<Member(TRUE, 0, 1, 1), Member(TRUE, 1, 1, 0), Member(TRUE, 1, 1, 1)>>}
===============================================================================
