------------------------------ MODULE MCTicketLock ------------------------------
EXTENDS TicketLock, TLC

\* Workers, and users that are not admins, are interchangeable: the models that
\* check safety only are reduced by their permutations.
Symmetry == Permutations(Handlers) \cup Permutations(Users \ Admins)
================================================================================
