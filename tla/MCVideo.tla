------------------------------ MODULE MCVideo ------------------------------
EXTENDS Video
=============================================================================
