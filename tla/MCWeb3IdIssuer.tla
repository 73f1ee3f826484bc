--------------------------- MODULE MCWeb3IdIssuer ----------------------------
EXTENDS Web3IdIssuer
=============================================================================
