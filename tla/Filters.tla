------------------------------ MODULE Filters ------------------------------
(***************************************************************************)
(* List comprehensions: with a condition, and over lists of lists.          *)
(***************************************************************************)
EXTENDS Naturals, Sequences, Functions

\* The items that are in S, in their order.
Among(items, S) ==
  LET from[i \in 0 .. Len(items)] ==
        IF i = 0 THEN <<>>
        ELSE IF items[i] \in S THEN Append(from[i - 1], items[i]) ELSE from[i - 1]
  IN from[Len(items)]

\* The items of all the lists, in their order.
Joined(lists) ==
  LET upTo[i \in 0 .. Len(lists)] == IF i = 0 THEN <<>> ELSE upTo[i - 1] \o lists[i]
  IN upTo[Len(lists)]

Those(items, Test(_)) == Among(items, {x \in Range(items) : Test(x)})
===========================================================================
