--------------------------- MODULE MCRemoteSession ---------------------------
EXTENDS RemoteSession

CONSTANTS n1, n2, n3

\* A fragment of two matches, which a cap of two cuts or lets pass.
MCCounts == n1 :> <<1, 2>> @@ n2 :> <<1, 1>> @@ n3 :> <<1>>

Case(nodes, cap, how, faults) ==
  [nodes |-> nodes, cap |-> cap, pushed |-> how # "installed", loader |-> how = "loader",
   bulky |-> how = "loader", faults |-> faults]

\* One node with every fault, by each way to launch it; two that fail side by side;
\* two under a cap.
AllModes ==
  {Case({n1}, cap, how, NodeFaults \cup {"printer"}) :
     cap \in {0, 2}, how \in {"installed", "pushed", "loader"}}
  \cup {Case({n2, n3}, 0, "pushed", {"died", "wedged"}), Case({n1, n2}, 2, "installed", {"printer"}),
        Case({n2, n3}, 1, "installed", {})}
OvershootModes == {Case({n1, n2, n3}, 1, "installed", {})}
HangModes == {Case({n1, n2}, 1, "installed", {})}
==============================================================================
