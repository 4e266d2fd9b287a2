--------------------------- MODULE MCCdpConnection ---------------------------
(* A mutation of one tab and a read of another.                            *)
EXTENDS CdpConnection

CONSTANTS mutation, read, tab1, tab2

MCTargetOf == [c \in Commands |-> IF c = read THEN tab2 ELSE tab1]
=============================================================================
