--------------------------- MODULE MCTicketLifecycle ---------------------------
EXTENDS TicketLifecycle, TLC

\* Ids and users of one kind are interchangeable: the models that check safety
\* only are reduced by their permutations.
Symmetry == Permutations(Requests) \cup Permutations(Handlers) \cup Permutations(Humans)
================================================================================
