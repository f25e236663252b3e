----------------------------- MODULE MCLogger ------------------------------
\* Logger on a small instance: the stream handlers are model values.
EXTENDS Logger
=============================================================================
