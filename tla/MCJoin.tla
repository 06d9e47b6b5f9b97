------------------------------- MODULE MCJoin -------------------------------
(* Inner and left joins of up to three driving and three probing rows over   *)
(* three join keys, in batches of two keys that overflow at three rows: a    *)
(* batch is answered, split, or refused, and a probing row may move once     *)
(* from a batch already read to one still to come, or back.                  *)
EXTENDS Join

MCNoMatch == -1
=============================================================================
