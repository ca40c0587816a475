--------------------------- MODULE ZkRecords_MC ---------------------------
(* Contents for the model checker: no byte, and more bytes than a number has. *)
EXTENDS ZkRecords
MCTexts == {<<>>, <<2, 0, 1>>}
=============================================================================
