---------------------------- MODULE MCLifecycle ----------------------------
\* Lifecycle on a small instance.
EXTENDS Lifecycle
=============================================================================
