------------------------------- MODULE MCLiveRoom -------------------------------
EXTENDS LiveRoom
=============================================================================
