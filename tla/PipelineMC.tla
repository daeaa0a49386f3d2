----------------------------- MODULE PipelineMC -----------------------------
(* A run of up to three scenarios of all kinds next to a run of one.        *)
EXTENDS Pipeline

Fits     == Case("SHIP_001", Num(1000), "VH_001", TRUE, "pass")
Over     == Case("SHIP_001", Num(1200), "VH_001", TRUE, "fail")
Larger   == Case("SHIP_001", Num(1200), "VH_002", TRUE, "pass")
Unknown  == Case("SHIP_001", Num(800), "VH_404", TRUE, "pass")
Skips    == Case("SHIP_002", Num(500), "VH_001", FALSE, "fail")
Assigned == Case("SHIP_002", Num(500), "VH_001", TRUE, "pass")
Post     == Case("SHIP_003", Num(700), "VH_001", TRUE, "pass")
Generic  == Case("SHIP_009", None, Unnamed, TRUE, "pass")
Weightless == Case("SHIP_010", Num(0), "VH_001", TRUE, "fail")

MCWeights == {None} \cup {Num(n) : n \in {0, 500, 700, 800, 1000, 1200}}

\* In turn: an exact fit after an overload, two vehicles, a vehicle that does
\* not exist, no assignment, no shipment at all between two others.
MCCaseLists ==
  [r1 |-> {<<Over, Fits>>, <<Larger, Over>>, <<Unknown, Over>>, <<Skips, Post>>,
           <<Assigned, Weightless>>, <<Over, Generic, Post>>},
   r2 |-> {<<Over>>}]
=============================================================================
