---------------------------- MODULE MCHotReload ----------------------------
\* HotReload on small instances: the goroutines are model values.
EXTENDS HotReload
=============================================================================
