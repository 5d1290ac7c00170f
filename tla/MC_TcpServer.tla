----------------------------- MODULE MC_TcpServer -----------------------------
EXTENDS TcpServer

CONSTANTS k1, f1, d1, h1, h2
=============================================================================
