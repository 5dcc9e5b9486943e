------------------------------ MODULE MCServer ------------------------------
(* Three webhook requests of a pull request; an evaluation reads, writes.  *)
EXTENDS Server

CONSTANTS q1, q2, q3

ReadThenWrite == <<"read", "write">>
=============================================================================
