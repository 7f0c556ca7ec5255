------------------------------- MODULE MCLog -------------------------------
(* Instances of MsvLog. *)
EXTENDS MsvLog, TLC

CONSTANTS t1, t2

(* The owner has lines for the constructors of two logs and one more, the  *)
(* other thread for two.                                                   *)
FewLines == t1 :> 5 @@ t2 :> 2
=============================================================================
