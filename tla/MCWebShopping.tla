---------------------------- MODULE MCWebShopping ----------------------------
(* The recipes of the instances of WebShopping for TLC.                        *)
EXTENDS WebShopping, TLC

\* Two recipes that share ingredients, under one preparation and under two, with
\* a line of every form: no amount, a range, a unit of two words, a package
\* without a word after it, and one with; and with one line written twice.
Raw(text, min, max, words, preparation) ==
    [text |-> text, words |-> words, preparation |-> preparation,
     amount |-> [min |-> min, max |-> max, range |-> min # max]]
MCBook ==
    "stew" :> [servings |-> 2,
               lines |-> <<Raw("16 oz beef", 16, 16, <<"oz", "beef">>, ""),
                           Raw("salt", 0, 0, <<"salt">>, ""),
                           Raw("2-3 fl oz red wine, warm", 2, 3, <<"fl", "oz", "red", "wine">>, "warm"),
                           Raw("16 oz beef", 16, 16, <<"oz", "beef">>, "")>>]
    @@
    "soup" :> [servings |-> 0,
               lines |-> <<Raw("1 g salt, fine", 1, 1, <<"g", "salt">>, "fine"),
                           Raw("1 can", 1, 1, <<"can">>, ""),
                           Raw("2 can beef", 2, 2, <<"can", "beef">>, "")>>]
===============================================================================
