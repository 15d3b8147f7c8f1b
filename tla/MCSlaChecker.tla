------------------------------ MODULE MCSlaChecker ------------------------------
EXTENDS SlaChecker

\* The first response is due before the resolution.
MCDues == {[first_response |-> 1, resolve |-> 2]}
================================================================================
