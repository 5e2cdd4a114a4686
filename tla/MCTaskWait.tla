----------------------------- MODULE MCTaskWait -----------------------------
(* TaskWait on two instances, for every operator and every choice of ids.  *)
EXTENDS TaskWait

MCInstances == {1, 2}
=============================================================================
