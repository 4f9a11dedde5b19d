------------------------ MODULE MCRecurringPayments ------------------------
EXTENDS RecurringPayments, TLC

Symmetric == Permutations(Charger) \cup Permutations(Notifier)
=============================================================================
