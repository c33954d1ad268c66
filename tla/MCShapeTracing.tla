--------------------------- MODULE MCShapeTracing ----------------------------
(* Values of up to three axes and twelve entries.                             *)
EXTENDS ShapeTracing

MCInputs == {<<2, 3>>, <<2, 1, 4>>}
MCOthers == {<<3, 1>>, <<4>>}
MCWeights == {<<3>>, <<2, 1>>, <<3, 1, 2>>, <<1, 4>>}
MCMulAxes == {-1, 0, 1}
MCNewAxes == {Absent, -2, 0}
MCKeys == UNION {[1..n -> {"full", "dots", "at"}] : n \in 1..2}
LastAxis == {-1}
=============================================================================
