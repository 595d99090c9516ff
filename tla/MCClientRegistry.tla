-------------------------- MODULE MCClientRegistry --------------------------
EXTENDS ClientRegistry
=============================================================================
