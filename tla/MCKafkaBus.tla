----------------------------- MODULE MCKafkaBus -----------------------------
(***************************************************************************)
(* An instance of KafkaBus.  An ACA reports threats; an RCA hears of them, *)
(* bids with the RAA and announces resolutions, which come back to the ACA *)
(* and the RAA.  So two processes both hear and publish, the ACA hears one *)
(* topic of the RCA, and the RAA two, one targeted and one broadcast.      *)
(***************************************************************************)
EXTENDS KafkaBus, TLC

CONSTANTS aca, rca, raa
MCPublishes == (aca :> {"reports"}) @@ (rca :> {"bids", "resolution"}) @@ (raa :> {})
MCSubscribes ==
    (aca :> {"resolution"}) @@ (rca :> {"reports"}) @@ (raa :> {"bids", "resolution"})
MCReceivers ==
    ("reports" :> {Agents}) @@ ("bids" :> {{raa}}) @@ ("resolution" :> {Agents})
MCMaxSeq == (aca :> 2) @@ (rca :> 2) @@ (raa :> 0)
=============================================================================
