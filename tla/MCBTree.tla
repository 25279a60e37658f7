------------------------------ MODULE MCBTree ------------------------------
(* Instances of BTree for TLC.                                              *)
EXTENDS BTree

CONSTANTS v, w     \* values

B(order, keys, values, reinsert, deletes, short) ==
    [order |-> order, keys |-> keys, values |-> values,
     reinsert |-> reinsert, deletes |-> deletes, short |-> short]

\* The built order and the least even one with every sequence of calls, the
\* latter with short memory too; an odd order as far as it can be used.
Sound == {B(10, 1 .. 10, {v}, FALSE, TRUE, FALSE),
          B(4, 1 .. 5, {v, w}, FALSE, TRUE, FALSE),
          B(4, 1 .. 8, {v}, FALSE, TRUE, TRUE),
          B(3, 1 .. 6, {v}, FALSE, FALSE, FALSE)}

\* Keys inserted again; into a full node's child with the key as its median.
Reinserting == {B(10, 1 .. 5, {v, w}, TRUE, FALSE, FALSE)}
Rising      == {B(4, 1 .. 5, {v}, TRUE, FALSE, FALSE)}

\* Deletions in a tree of three levels, and at an odd order.
Deep == {B(4, 1 .. 10, {v}, FALSE, TRUE, FALSE)}
Odd  == {B(3, 1 .. 6, {v}, FALSE, TRUE, FALSE)}
=============================================================================
