---------------------------- MODULE MCCorrelator ----------------------------
EXTENDS Correlator
=============================================================================
