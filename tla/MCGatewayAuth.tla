--------------------------- MODULE MCGatewayAuth ---------------------------
EXTENDS GatewayAuth, TLC

\* A super-admin who can be blocked, or demoted and made to change the password.
MCAccounts ==
  {[active |-> TRUE, super |-> TRUE, mustChange |-> FALSE],
   [active |-> TRUE, super |-> FALSE, mustChange |-> TRUE],
   [active |-> FALSE, super |-> TRUE, mustChange |-> FALSE]}

RequestsAlike == Permutations(Requests)

MCKinds == {"home", "enter", "foreign"}
=============================================================================
