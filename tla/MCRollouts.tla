------------------------------ MODULE MCRollouts ------------------------------
EXTENDS Rollouts
=============================================================================
