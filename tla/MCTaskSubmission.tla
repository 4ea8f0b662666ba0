-------------------------- MODULE MCTaskSubmission --------------------------
EXTENDS TaskSubmission
=============================================================================
