---------------------------- MODULE MCDialerTick ----------------------------
(***************************************************************************)
(* DialerTick for TLC.                                                     *)
(***************************************************************************)
EXTENDS DialerTick, MCSmartDialer

TickView == <<VersionView, gateVars>>

=============================================================================
