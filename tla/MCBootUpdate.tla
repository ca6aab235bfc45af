---------------------------- MODULE MCBootUpdate ----------------------------
EXTENDS BootUpdate
=============================================================================
