------------------------- MODULE MCOnChangePublisher -------------------------
(* A device of two references: x changes its value or fails alone, or the   *)
(* whole device fails.                                                      *)
EXTENDS OnChangePublisher
CONSTANTS x, y, v1, v2
Read(ofX, ofY) == [r \in {x, y} |-> IF r = x THEN ofX ELSE ofY]
MCReadings ==
  {Read(v1, v1), Read(v2, v1), Read(NONE, v1), Read(NONE, NONE)}
=============================================================================
