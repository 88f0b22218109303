----------------------------- MODULE MCServices -----------------------------
(***************************************************************************)
(* Services with an asynchronous group of two replicas, the first with two *)
(* hosts, which a reload replaces by one that has a forbidden host, and a  *)
(* synchronous group of one host.                                          *)
(***************************************************************************)
EXTENDS Services, TLC

MCServicesSet == {1, 2, 3, 4, 5, 6}
MCReplicas == {11, 12, 13, 14}
MCGroups == {21, 22, 23}
MCChildren == 11 :> <<1, 2>> @@ 12 :> <<3>> @@ 13 :> <<4>> @@ 14 :> <<6, 5>>
              @@ 21 :> <<11, 12>> @@ 22 :> <<13>> @@ 23 :> <<14>>
MCStrategy == 11 :> "ROLL" @@ 12 :> "FIXED" @@ 13 :> "FIXED" @@ 14 :> "FIXED"
              @@ 21 :> "INT_REGION" @@ 22 :> "STRING_REGION" @@ 23 :> "INT_REGION"
MCSuccessor == 21 :> 23
=============================================================================
