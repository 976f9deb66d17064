----------------------------- MODULE MCReports -----------------------------
\* Reports for TLC.
EXTENDS Reports
=============================================================================
