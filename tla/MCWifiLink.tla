----------------------------- MODULE MCWifiLink -----------------------------
(* A small instance of WifiLink for TLC.                                   *)
EXTENDS WifiLink

TwoDelays == <<1, 2>>
=============================================================================
