--------------------------- MODULE MCPolicyCache ---------------------------
\* The constants are model values, given in MCPolicyCache.cfg.
EXTENDS PolicyCache
=============================================================================
