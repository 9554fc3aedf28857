----------------------------- MODULE MCSendQueue -----------------------------
EXTENDS SendQueue
CONSTANTS p, m
=============================================================================
