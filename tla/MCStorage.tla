------------------------------ MODULE MCStorage -------------------------------
(* Values for model checking Storage: two accounts, which the genesis lists out  *)
(* of key order, and one contract key between them in the byte order; two keys   *)
(* in the cache's way.                                                         *)
EXTENDS Storage

CONSTANTS engine, rpc1, rpc2

Keys      == 1 .. 3
Accounts  == {1, 3}
OutOfOrder == <<3, 1>>
TwoKeys   == {1, 2}
=============================================================================
