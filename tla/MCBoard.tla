------------------------------ MODULE MCBoard ------------------------------
(* A model-checking instance of the board: the GFE platform's IIC, two of   *)
(* the network's sources and one that no program registers.                 *)
EXTENDS Board

UART0 == 1  ETH == 2  DMA == 3  IIC == 7

AllSources == {UART0, ETH, DMA, IIC}
Network    == {ETH, DMA}
=============================================================================
