----------------------------- MODULE MCAudioLease -----------------------------
EXTENDS AudioLease
CONSTANTS a, b, p1, s1, s2
=============================================================================
