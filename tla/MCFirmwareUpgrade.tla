------------------------- MODULE MCFirmwareUpgrade -------------------------
EXTENDS FirmwareUpgrade, TLC
CONSTANTS d1, d2

MCChain == <<d1, d2>>
=============================================================================
