---------------------------- MODULE MCWatchStream ----------------------------
(* The instance of WatchStream for TLC: one stream, one bit written by each  *)
(* side, a ring of two edges so that it overflows within a few writes.       *)
EXTENDS WatchStream, TLC

CONSTANTS p, d

MCKey == {p, d}
MCProgramKey == {p}
MCDeviceKey == {d}
=============================================================================
