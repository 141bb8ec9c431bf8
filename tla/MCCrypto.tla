------------------------------ MODULE MCCrypto ------------------------------
(***************************************************************************)
(* TLC's runs of Crypto: plain offers to sell and to buy; and, beside      *)
(* them, negative numbers, a type that is neither, and an unknown pair.    *)
(***************************************************************************)
EXTENDS Crypto, TLC

\* No request looks at a name but to compare it with others.
NameSymmetry == Permutations(Names)

PlainOffers == [pair : {TRUE}, quantity : {1, 2}, price : {1, 2}, type : {"sell", "buy"}]

OddOffers ==
    [pair : {TRUE}, quantity : {-1, 0}, price : {1}, type : {"sell"}]
        \cup [pair : {TRUE}, quantity : {-1}, price : {1}, type : {"buy"}]
        \cup [pair : {TRUE}, quantity : {1}, price : {-1}, type : {"sell"}]
        \cup [pair : {TRUE}, quantity : {1}, price : {2}, type : {"other"}]
        \cup [pair : {FALSE}, quantity : {1}, price : {1}, type : {"sell", "buy"}]

AnyOffers == PlainOffers \cup OddOffers
=============================================================================
