------------------------------ MODULE MCReconcile ------------------------------
EXTENDS Reconcile, TLC
=============================================================================
