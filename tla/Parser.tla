-------------------------------- MODULE Parser --------------------------------
(***************************************************************************)
(* What the database understands of a request (parser/parser.cpp).  A      *)
(* token is a word as in ConditionParser, <<"name", table>> for the name   *)
(* of a table, or a keyword or sign, <<"FROM">>, <<",">>.  The operator for *)
(* a member function is what it returns for tokens; where tokenIt stands   *)
(* when it is called is a parameter, and a thrown exception is Wrong.      *)
(***************************************************************************)
EXTENDS ConditionParser, FiniteSetsExt, SequencesExt

Comma == <<",">>
Open  == <<"(">>
Close == <<")">>

Wrong  == [do |-> "wrong"]
Beyond == [do |-> "beyond"]     \* a word behind the last one was read

\* expected_received for a token that is not the last one read.
Expected(tokens, i, word) == i <= Len(tokens) /\ tokens[i] = word

\* token_check in a loop: the first of these words from i on, or the end.
NextOf(tokens, i, words) ==
    Min({j \in i..Len(tokens) : tokens[j] \in words} \cup {Max({i, Len(tokens) + 1})})

\* The loop all lists are read in, up to the place end: a token, and a comma
\* unless end is reached; so a comma may also be the last.
Separated(tokens, i, end) ==
    \A j \in i..end - 1 : (j - i) % 2 = 1 => tokens[j] = Comma

Items(tokens, i, end) == [k \in 1..(end - i + 1) \div 2 |-> tokens[i + 2 * (k - 1)]]

\* The name of a table; other words name none that exists.
NamedBy(word) == IF word[1] = "name" THEN word[2] ELSE "?"

\* get_value, get_table_column: a text in quotes, a table and its column.
IsValue(word)  == word[1] = "text"
IsColumn(word) == word[1] \in {"column", "unknown"}

TableOf(column) == column[2]

-----------------------------------------------------------------------------
\* insert_parse: what follows ")" is not looked at.
InsertParse(tokens) ==
    LET end    == NextOf(tokens, 6, {Close})
        values == Items(tokens, 6, end) IN
    IF /\ Expected(tokens, 4, <<"VALUES">>) /\ Expected(tokens, 5, Open)
       /\ end <= Len(tokens) /\ Separated(tokens, 6, end)
       /\ \A v \in ToSet(values) : IsValue(v)
    THEN [do |-> "insert", table |-> NamedBy(tokens[3]), words |-> <<>>, tree |-> Empty,
          values |-> [k \in DOMAIN values |-> values[k][2]]]
    ELSE Wrong

\* from_parse, with its isEnd.
FromEnd(tokens, i)   == NextOf(tokens, i + 1, {<<"WHERE">>, <<"INTO">>})
FromParses(tokens, i) ==
    Expected(tokens, i, <<"FROM">>) /\ Separated(tokens, i + 1, FromEnd(tokens, i))
FromParse(tokens, i) ==
    LET list == Items(tokens, i + 1, FromEnd(tokens, i)) IN
    [k \in DOMAIN list |-> NamedBy(list[k])]

\* where_parse: all the rest is the condition.
WordsFrom(tokens, i)  == SubSeq(tokens, i + 1, Len(tokens))
WhereParse(tokens, i) ==
    IF Expected(tokens, i, <<"WHERE">>) THEN Parsed(WordsFrom(tokens, i)) ELSE Refused

\* The condition is the last thing that is parsed.
WithCondition(request, ok) ==
    CASE ~ok \/ request.tree = Refused -> Wrong
      [] ok /\ request.tree = Short    -> Beyond
      [] OTHER                         -> request

DeleteParse(tokens) ==
    LET where  == FromEnd(tokens, 2)
        tables == FromParse(tokens, 2) IN
    WithCondition([do |-> "delete", table |-> tables[1],
                   words |-> WordsFrom(tokens, where), tree |-> WhereParse(tokens, where)],
                  FromParses(tokens, 2) /\ Len(tables) = 1)

\* select_parse_ and tables_names_check.
ColumnsEnd(tokens)   == NextOf(tokens, 2, {<<"FROM">>})
ColumnsParse(tokens) == Items(tokens, 2, ColumnsEnd(tokens))

TablesNamesCheck(columns, tables) ==
    ToSet(tables) \subseteq {TableOf(c) : c \in ToSet(columns)}

\* Mutation: the condition is looked for where the name after INTO stands.
MutWhereAfter(tokens, stop) == IF Expected(tokens, stop, <<"INTO">>) THEN stop + 1 ELSE stop

WhereAfter(tokens, stop) == IF Expected(tokens, stop, <<"INTO">>) THEN stop + 2 ELSE stop

SelectParse(tokens) ==
    LET from    == ColumnsEnd(tokens)
        columns == ColumnsParse(tokens)
        tables  == FromParse(tokens, from)
        stop    == FromEnd(tokens, from)
        into    == Expected(tokens, stop, <<"INTO">>)
        where   == WhereAfter(tokens, stop)
        tree    == IF where > Len(tokens) THEN Empty ELSE WhereParse(tokens, where) IN
    WithCondition([do |-> "select", columns |-> columns, from |-> tables,
                   into |-> IF into THEN NamedBy(tokens[stop + 1]) ELSE "",
                   words |-> WordsFrom(tokens, where), tree |-> tree],
                  /\ Separated(tokens, 2, from) /\ \A c \in ToSet(columns) : IsColumn(c)
                  /\ FromParses(tokens, from)
                  /\ into => stop < Len(tokens)
                  /\ TablesNamesCheck(columns, tables))

AddTableParse(tokens) ==
    LET end == Len(tokens) + 1 IN
    IF Expected(tokens, 4, <<"COLUMNS">>) /\ Separated(tokens, 5, end)
    THEN [do |-> "add", table |-> NamedBy(tokens[3]), columns |-> Items(tokens, 5, end),
          words |-> <<>>, tree |-> Empty]
    ELSE Wrong

\* The table's name is read after INTO or TABLE, whether there is one or not.
Understood(tokens) ==
    IF tokens = <<>> THEN Wrong
    ELSE CASE tokens = <<<<"INSERT">>, <<"INTO">>>> \/ tokens = <<<<"ADD">>, <<"TABLE">>>> -> Beyond
           [] tokens[1] = <<"INSERT">> /\ Expected(tokens, 2, <<"INTO">>) -> InsertParse(tokens)
           [] tokens[1] = <<"DELETE">> -> DeleteParse(tokens)
           [] tokens[1] = <<"SELECT">> -> SelectParse(tokens)
           [] tokens[1] = <<"ADD">> /\ Expected(tokens, 2, <<"TABLE">>) -> AddTableParse(tokens)
           [] OTHER -> Wrong

-----------------------------------------------------------------------------
(* The language of requests, said without a parser.                        *)

Name(t) == <<"name", t>>

\* Words with commas between them.
Listed(words) ==
    [j \in 1..2 * Len(words) - 1 |-> IF j % 2 = 1 THEN words[(j + 1) \div 2] ELSE Comma]

\* How a request is written.
Written(r) ==
    CASE r.do = "insert" -> <<<<"INSERT">>, <<"INTO">>, Name(r.table), <<"VALUES">>, Open>>
                            \o Listed([k \in DOMAIN r.values |-> <<"text", r.values[k]>>]) \o <<Close>>
      [] r.do = "delete" -> <<<<"DELETE">>, <<"FROM">>, Name(r.table), <<"WHERE">>>> \o r.words
      [] r.do = "add"    -> <<<<"ADD">>, <<"TABLE">>, Name(r.table), <<"COLUMNS">>>> \o Listed(r.columns)
      [] r.do = "select" -> <<<<"SELECT">>>> \o Listed(r.columns) \o <<<<"FROM">>>>
                            \o Listed([k \in DOMAIN r.from |-> Name(r.from[k])])
                            \o (IF r.into = "" THEN <<>> ELSE <<<<"INTO">>, Name(r.into)>>)
                            \o (IF r.words = <<>> THEN <<>> ELSE <<<<"WHERE">>>> \o r.words)

IsListOf(words, kinds) ==
    /\ Len(words) % 2 = 1
    /\ \A j \in DOMAIN words : IF j % 2 = 1 THEN words[j][1] \in kinds ELSE words[j] = Comma

\* How a request is to be written; no list is empty.
IsRequest(tokens) ==
    LET part(i, j) == SubSeq(tokens, i, j)
        end        == Len(tokens)
        OneTable   == end > 3 /\ tokens[3][1] = "name" IN
    \/ /\ OneTable /\ end > 6
       /\ part(1, 2) = <<<<"INSERT">>, <<"INTO">>>> /\ part(4, 5) = <<<<"VALUES">>, Open>>
       /\ IsListOf(part(6, end - 1), {"text"}) /\ tokens[end] = Close
    \/ /\ OneTable /\ part(1, 2) = <<<<"ADD">>, <<"TABLE">>>> /\ tokens[4] = <<"COLUMNS">>
       /\ IsListOf(part(5, end), {"name"})
    \/ /\ OneTable /\ part(1, 2) = <<<<"DELETE">>, <<"FROM">>>> /\ tokens[4] = <<"WHERE">>
       /\ IsCondition(part(5, end))
    \/ /\ end > 0 /\ tokens[1] = <<"SELECT">>
       /\ \E f \in 2..end : \E s \in f..end + 1 : \E w \in {s, s + 2} :
             /\ IsListOf(part(2, f - 1), {"column", "unknown"}) /\ tokens[f] = <<"FROM">>
             /\ IsListOf(part(f + 1, s - 1), {"name"})
             /\ w # s => w <= end + 1 /\ tokens[s] = <<"INTO">> /\ tokens[s + 1][1] = "name"
             /\ w # end + 1 => /\ w <= end /\ tokens[w] = <<"WHERE">>
                              /\ IsCondition(part(w + 1, end))

\* The tokens without commas, of which a list may have one too many or be
\* without any.
NoCommas(tokens) == SelectSeq(tokens, LAMBDA w : w # Comma)
=============================================================================
