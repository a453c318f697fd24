------------------------------ MODULE MCSched ------------------------------
EXTENDS Sched
============================================================================
