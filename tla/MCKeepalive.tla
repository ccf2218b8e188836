---------------------------- MODULE MCKeepalive -----------------------------
\* An instance of Keepalive for TLC: a tick is 10 s.
EXTENDS Keepalive
=============================================================================
