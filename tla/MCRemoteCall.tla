---------------------------- MODULE MCRemoteCall ----------------------------
(***************************************************************************)
(* RemoteCall for TLC: one thread that calls often and others that call    *)
(* once.                                                                   *)
(***************************************************************************)
EXTENDS RemoteCall

OneBusy ==
  LET busy == CHOOSE c \in Callers : TRUE
  IN [c \in Callers |-> IF c = busy THEN 4 ELSE 1]
=============================================================================
