------------------------------- MODULE MCRtc -------------------------------
EXTENDS Rtc
=============================================================================
