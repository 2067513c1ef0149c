---------------------------- MODULE MCReadChains ----------------------------
EXTENDS ReadChains
=============================================================================
