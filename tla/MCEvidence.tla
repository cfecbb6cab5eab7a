----------------------------- MODULE MCEvidence -----------------------------
\* An instance of Evidence: runs without a validation script of the user.
EXTENDS Evidence

=============================================================================
