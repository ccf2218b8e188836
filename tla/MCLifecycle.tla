---------------------------- MODULE MCLifecycle -----------------------------
\* Instances of Lifecycle for TLC; the .cfg files choose the bounds.
EXTENDS Lifecycle
=============================================================================
