----------------------------- MODULE MCCutJobs -----------------------------
EXTENDS CutJobs
===========================================================================
