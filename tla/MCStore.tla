------------------------------ MODULE MCStore -------------------------------
(* A small instance of Store: one or two products with one piece each, one *)
(* customer who can pay for both and one who can pay for none.             *)
EXTENDS Store, TLC
CONSTANTS b1, b2, p1, p2

MCBuyers == {b1, b2}
MCPolls  == {p1, p2}
First  == [ID |-> 1, price |-> 2, nr_bucati |-> 1]
Second == [ID |-> 2, price |-> 1, nr_bucati |-> 1]
MCShelves == {<<First, Second>>, <<First>>}
MCWallet == [u \in 1 .. 2 |-> IF u = 1 THEN 3 ELSE 0]
MCRequests == {[user |-> 1, product |-> 1], [user |-> 1, product |-> 2],
               [user |-> 2, product |-> 2], [user |-> 3, product |-> 1],
               [user |-> 1, product |-> 3]}
MCCommands == {[field |-> "cant", product |-> 0, amount |-> 1],
               [field |-> "red", product |-> 1, amount |-> 100]}
=============================================================================
