----------------------------- MODULE MCReplay ------------------------------
(* Instance of Replay for TLC: contents are model values.                  *)
EXTENDS Replay

CONSTANTS p1, v1, v2, bad

MCFormatCode(b) == IF b \in {v1, v2} THEN Accepted ELSE "INVALID_JSON"
MCSha256(b) == <<"sha256", b>>
===========================================================================
