------------------------------ MODULE MCWorker ------------------------------
(* A post of two items, one a video, with a text of its own; and a text.   *)
EXTENDS Worker, TLC
CONSTANTS post, text, c1, c2
Posts ==
  post :> [items |-> 2, videos |-> {2}, separate |-> TRUE]
  @@ text :> [items |-> 0, videos |-> {}, separate |-> FALSE]
Amounts ==
  post :> [amount |-> 2, buckets |-> <<"photo", "media">>]
  @@ text :> [amount |-> 1, buckets |-> <<"text", "media">>]
ChildSymmetry == Permutations(Children)
=============================================================================
