--------------------------- MODULE ConditionParser ---------------------------
(***************************************************************************)
(* The condition of a WHERE: the tree class ConditionParser makes of its   *)
(* words (parser/conditions_parser.cpp) and how FilterIterator and         *)
(* DeleteIterator compute it.  A word is a tuple: an operand,              *)
(* <<"column", table>> (every table has one), <<"unknown", table>> (a       *)
(* column it does not have) or <<"text", value>>, or an operator.  A tree  *)
(* is Empty or a word with two subtrees.                                   *)
(***************************************************************************)
EXTENDS Integers, Sequences

Eq  == <<"=">>
And == <<"AND">>
Or  == <<"OR">>

Empty   == <<>>
Refused == <<"refused">>
Short   == <<"short">>      \* the front of an empty array was read

Node(word, left, right) == <<word, left, right>>
Leaf(word) == Node(word, Empty, Empty)

WordOf(tree) == tree[1]
Left(tree)   == tree[2]
Right(tree)  == tree[3]

IsOperand(word) == word[1] \in {"column", "unknown", "text"}
IsLogic(word)   == word \in {And, Or}

\* Mutation: AND binds as OR does.
MutPriority(word) == IF word = Eq THEN 3 ELSE IF IsLogic(word) THEN 1 ELSE 0

Priority(word) ==
    CASE word = Eq -> 3 [] word = And -> 2 [] word = Or -> 1 [] OTHER -> 0

-----------------------------------------------------------------------------
\* check_and_get_first copies the first word before it asks for one: the words
\* end before a token, or within a comparison.
EndsShort(words) ==
    \/ words = <<>>
    \/ IsOperand(words[1]) /\ (Len(words) = 1 \/ (Len(words) = 2 /\ words[2] = Eq))

\* get_next_token takes an operator, or the three words of a comparison.
IsComparison(words) ==
    Len(words) >= 3 /\ IsOperand(words[1]) /\ words[2] = Eq /\ IsOperand(words[3])

Rest(words) == SubSeq(words, IF IsLogic(words[1]) THEN 2 ELSE 4, Len(words))

NextToken(words) ==
    IF EndsShort(words) THEN Short
    ELSE IF IsLogic(words[1]) THEN Leaf(words[1])
    ELSE IF IsComparison(words) THEN Node(Eq, Leaf(words[1]), Leaf(words[3]))
    ELSE Refused

\* get_condition goes down the right side of the tree to a node that binds
\* as tightly as the token, or to its end.  The node becomes the token's left
\* subtree, which add_subtree refuses when there is one.
RECURSIVE Placed(_, _)
Placed(tree, token) ==
    IF tree = Empty THEN token
    ELSE IF Priority(WordOf(token)) > Priority(WordOf(tree))
    THEN LET right == Placed(Right(tree), token) IN
         IF right = Refused THEN Refused ELSE Node(WordOf(tree), Left(tree), right)
    ELSE IF Left(token) = Empty THEN Node(WordOf(token), tree, Right(token))
    ELSE Refused

\* The loop of get_condition; every other token has to be a comparison, from
\* the third on.
RECURSIVE Grown(_, _, _)
Grown(tree, words, isEqExpr) ==
    IF tree \in {Refused, Short} \/ words = <<>> THEN tree
    ELSE LET token == NextToken(words) IN
         IF token \in {Refused, Short} THEN token
         ELSE IF isEqExpr /\ WordOf(token) # Eq THEN Refused
         ELSE Grown(Placed(tree, token), Rest(words), ~isEqExpr)

\* Mutation: the second token has to be a comparison.
MutParsed(words) == IF words = <<>> THEN Short ELSE Grown(NextToken(words), Rest(words), TRUE)

Parsed(words) == IF words = <<>> THEN Short ELSE Grown(NextToken(words), Rest(words), FALSE)

-----------------------------------------------------------------------------
\* compute_condition, with value[w] what get_operand returns for the operand
\* w, NoValue if it throws.  AND and OR do not look at the right side when the left
\* one decides; a subtree that is missing is a null pointer.
NoValue == "no value"

RECURSIVE Computed(_, _)
Computed(tree, value) ==
    LET left == Computed(Left(tree), value) IN
    CASE tree = Empty -> "dies"
      [] WordOf(tree) = Eq ->
            LET a == value[WordOf(Left(tree))]
                b == value[WordOf(Right(tree))] IN
            IF NoValue \in {a, b} THEN "throws" ELSE IF a = b THEN "true" ELSE "false"
      [] WordOf(tree) = And /\ left # "true"  -> left
      [] WordOf(tree) = Or  /\ left # "false" -> left
      [] OTHER -> Computed(Right(tree), value)

-----------------------------------------------------------------------------
(* What the words mean, without trees: alternatives separated by OR, each  *)
(* a list of comparisons joined by AND.                                    *)

\* A sequence of comparisons with operators between them.
IsCondition(words) ==
    /\ Len(words) % 4 = 3
    /\ \A i \in 0..Len(words) \div 4 : IsComparison(SubSeq(words, 4 * i + 1, Len(words)))
    /\ \A i \in 1..Len(words) \div 4 : IsLogic(words[4 * i])

\* The comparison numbered i, counted from 0, holds.
Holds(words, i, value) == value[words[4 * i + 1]] = value[words[4 * i + 3]]

Means(words, value) ==
    LET last == Len(words) \div 4
        Joined(i, j) == \A k \in i + 1..j : words[4 * k] = And IN
    \E i \in 0..last : \E j \in i..last :
        /\ Joined(i, j)
        /\ i = 0 \/ words[4 * i] = Or
        /\ j = last \/ words[4 * (j + 1)] = Or
        /\ \A k \in i..j : Holds(words, k, value)
=============================================================================
