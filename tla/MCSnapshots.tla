---------------------------- MODULE MCSnapshots ----------------------------
EXTENDS Snapshots
=============================================================================
