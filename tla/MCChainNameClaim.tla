--------------------------- MODULE MCChainNameClaim ---------------------------
EXTENDS ChainNameClaim
=============================================================================
