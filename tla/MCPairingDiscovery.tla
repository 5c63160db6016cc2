-------------------------- MODULE MCPairingDiscovery --------------------------
(* TLC instance of PairingDiscovery: model values; no symmetry, liveness is  *)
(* checked with the rest.                                                    *)
EXTENDS PairingDiscovery
=============================================================================
