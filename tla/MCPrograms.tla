------------------------------ MODULE MCPrograms ------------------------------
\* Two clients of the TFTP server: a file of two blocks and one of one block.
EXTENDS Programs, TLC

CONSTANTS c1, c2, a, b

MCFileOf == c1 :> a @@ c2 :> b
MCSize   == c1 :> 2 @@ c2 :> 1
===============================================================================
