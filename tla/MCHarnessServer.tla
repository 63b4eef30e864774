-------------------------- MODULE MCHarnessServer --------------------------
EXTENDS HarnessServer
=============================================================================
