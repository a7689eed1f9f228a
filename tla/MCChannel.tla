----------------------------- MODULE MCChannel -----------------------------
(* Instances of Channel for TLC. *)
EXTENDS Channel, TLC

OneEach == 0 :> 1 @@ 1 :> 1
ThreeOneWay == 0 :> 3 @@ 1 :> 0
TwoOneWay == 0 :> 2 @@ 1 :> 0
OneOneWay == 0 :> 1 @@ 1 :> 0
=============================================================================
