---------------------------- MODULE MCRelayPairing ----------------------------
(* Small instances of RelayPairing.                                        *)
EXTENDS RelayPairing
=============================================================================
