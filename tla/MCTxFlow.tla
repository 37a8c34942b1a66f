------------------------------ MODULE MCTxFlow -------------------------------
EXTENDS TxFlow, TLC

Calmly(k, most, long) ==
  [kind |-> k, races |-> FALSE, flaky |-> FALSE, lasts |-> long, attempts |-> most]
Wildly(k, most, long) ==
  [kind |-> k, races |-> TRUE, flaky |-> TRUE, lasts |-> long, attempts |-> most]

ManyAttempts ==
  {Calmly("EVM", 2, "hours"), Calmly("SVM", 2, "hours"), Calmly("MIGRATE", 1, "minutes"),
   Calmly("KEY", 2, "hours"), Wildly("EVM", 2, "minutes"), Wildly("SVM", 1, "days")}

OneAttempt ==
  {Calmly("MIGRATE", 1, "hours"), Calmly("KEY", 2, "hours"),
   Wildly("EVM", 1, "hours"), Wildly("SVM", 1, "hours")}

FlakyLookups == {[Calmly("EVM", 1, "minutes") EXCEPT !.flaky = TRUE]}

Symmetry == Permutations(Nodes)
=============================================================================
