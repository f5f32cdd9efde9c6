------------------------------- MODULE MC_Bridge -------------------------------
EXTENDS Bridge

LimitCancel == {"Limit", "Cancel"}
PositiveQtys == 1..2

CONSTANTS u1

BridgeUsers == {u1}


================================================================================
