---------------------------- MODULE MCRunSession ----------------------------
EXTENDS RunSession
=============================================================================
