--------------------------- MODULE MCWarmLifecycle ---------------------------
EXTENDS WarmLifecycle

Above(events, n) == [big |-> TRUE, events |-> events, faults |-> n]
Below(events, n) == [big |-> FALSE, events |-> events, faults |-> n]

\* Every event and every fault, over three corpora above the floor and one below.
SafetyModes ==
  {Above({"query", "index", "compact"}, 0), Above({"touch", "reconcile"}, 0), Above({}, 1),
   Below({"touch", "query", "index", "reconcile", "deadline"}, 1)}
LiveModes == {Above({"calm"}, 0), Below({"deadline"}, 0)}
QuickModes == {Above({}, 0)}
StarveModes == {Below({"deadline"}, 0)}
===============================================================================
