------------------------- MODULE MCUpstreamBreaker -------------------------
\* UpstreamBreaker on a small instance: requests are model values.
EXTENDS UpstreamBreaker

CONSTANTS r1, r2, r3
=============================================================================
