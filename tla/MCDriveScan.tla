---------------------------- MODULE MCDriveScan -----------------------------
EXTENDS DriveScan
=============================================================================
