------------------------- MODULE MC_NumberedMessages -------------------------
EXTENDS NumberedMessages

Numbers == 1..(MaxClock + MaxCount)
=============================================================================
