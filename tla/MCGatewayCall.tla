--------------------------- MODULE MCGatewayCall ---------------------------
EXTENDS GatewayCall, TLC

CallsAlike == Permutations(Calls)
=============================================================================
