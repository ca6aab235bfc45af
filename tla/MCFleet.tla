------------------------------ MODULE MCFleet ------------------------------
EXTENDS Fleet
=============================================================================
