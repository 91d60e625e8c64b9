------------------------------ MODULE MCHashKV ------------------------------
EXTENDS HashKV
\* the key c has a group of its own; a and c fill a main segment
SizesOf == [a |-> {4}, b |-> {2}, d |-> {2}, c |-> {4}]
KeySet  == DOMAIN SizesOf
HashOf  == [k \in KeySet |-> IF k = "c" THEN 1 ELSE 0]
=============================================================================
