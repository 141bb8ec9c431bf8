----------------------------- MODULE MCRequests -----------------------------
(***************************************************************************)
(* TLC's run of Requests: two tables with rows, an empty one, one that can *)
(* be added, and requests of every kind.  The first of the three may make  *)
(* no sense, or have a slip: a token left out or written twice.            *)
(***************************************************************************)
EXTENDS Requests

MCTables == {"a", "b", "e", "n"}
MCSchema == MCTables \ {"n"}
TwoRows == [t \in MCTables |-> IF t \in {"e", "n"} THEN <<>> ELSE <<"x", "y">>]

A == <<"column", "a">>
B == <<"column", "b">>
E == <<"column", "e">>
N == <<"column", "n">>
X == <<"text", "x">>
Y == <<"text", "y">>

SelectOf(columns, from, words, into) ==
    Written([do |-> "select", columns |-> columns, from |-> from, words |-> words, into |-> into])
InsertTo(t, v)       == Written([do |-> "insert", table |-> t, values |-> <<v>>])
DeleteFrom(t, words) == Written([do |-> "delete", table |-> t, words |-> words])
Add(t)               == Written([do |-> "add", table |-> t, columns |-> <<Name("column")>>])

\* AND before OR decides about the first two rows of the product.
Mixed == <<A, Eq, B, Or, A, Eq, X, And, B, Eq, Y>>

Asked ==
    { SelectOf(<<B, A>>, <<"a", "b">>, Mixed, ""),
      SelectOf(<<A>>, <<"a", "a">>, <<>>, ""),
      SelectOf(<<A>>, <<"a">>, <<A, Eq, X>>, "b"),
      SelectOf(<<B>>, <<"b">>, <<>>, "a"),
      SelectOf(<<N>>, <<"n">>, <<>>, ""),
      InsertTo("a", "y"), InsertTo("b", "x"), InsertTo("n", "x"), Add("n"),
      DeleteFrom("a", <<A, Eq, X, Or, A, Eq, Y, And, X, Eq, Y>>),
      DeleteFrom("b", <<Y, Eq, X, And, B, Eq, Y, Or, B, Eq, X>>) }

\* What is refused, throws or ends the process, and other rare requests.
Strange ==
    { SelectOf(<<A, E>>, <<"a", "e">>, <<>>, ""),
      SelectOf(<<A, B>>, <<"a", "b">>, <<>>, "e"),
      SelectOf(<<A, B>>, <<"a">>, <<>>, ""),
      SelectOf(<<A>>, <<"a">>, <<A, Eq, X, Or, B, Eq, X>>, ""),
      SelectOf(<<A>>, <<"a", "b">>, <<>>, ""),
      SelectOf(<<A>>, <<"a">>, <<And, A, Eq, X>>, ""),
      Add("a"),
      DeleteFrom("b", <<B, Eq, X, A>>), DeleteFrom("b", <<>>),
      DeleteFrom("b", <<B, Eq, X, And>>), DeleteFrom("b", <<B, Eq>>),
      DeleteFrom("a", <<A, Eq, Y, And, X, Eq, Y, Or, A, Eq, X, And, Y, Eq, Y>>),
      DeleteFrom("a", <<A, Eq, X, Or, X, Eq, Y, And, A, Eq, X, Or, X, Eq, Y>>),
      DeleteFrom("b", <<<<"unknown", "b">>, Eq, X>>) }

LeftOut(tokens) == {RemoveAt(tokens, i) : i \in DOMAIN tokens}
Doubled(tokens) == {InsertAt(tokens, i, tokens[i]) : i \in DOMAIN tokens}

\* The last ones are the shortest requests, and those that end too soon.
Slipped ==
    UNION {LeftOut(r) : r \in { SelectOf(<<A>>, <<"a">>, <<A, Eq, X>>, "b"),
                                InsertTo("a", "y"), Add("n"), DeleteFrom("a", <<A, Eq, X>>) }}
    \cup Doubled(InsertTo("a", "y")) \cup Doubled(SelectOf(<<B, A>>, <<"a", "b">>, <<>>, ""))
    \cup {<<>>, <<<<"SELECT">>, <<"FROM">>>>, <<<<"INSERT">>, <<"INTO">>>>, <<<<"ADD">>, <<"TABLE">>>>}

MCRequestsAt == [n \in 1..MaxRequests |-> IF n = 1 THEN Asked \cup Strange \cup Slipped ELSE Asked]
=============================================================================
