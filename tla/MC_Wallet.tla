------------------------------ MODULE MC_Wallet ------------------------------
(***************************************************************************)
(* Three notes of one asset in three blocks, the genesis block in two      *)
(* parts, and one plan of up to two actions.                               *)
(***************************************************************************)
EXTENDS Wallet, TLC

CONSTANTS n1, n2, n3

MCNotes == {n1, n2, n3}
MCPart == n1 :> 1 @@ n2 :> 2 @@ n3 :> 2
MCAmount == n1 :> 1 @@ n2 :> 2 @@ n3 :> 2
MCAsset == [n \in MCNotes |-> "umint"]
MCLimit == "transfer" :> 2 @@ "ics20" :> 2 @@ "host" :> 2

Action(k, a) == [kind |-> k, asset |-> "umint", amount |-> a]
MCRequests ==
  {<<>>, <<Action("transfer", 3)>>, <<Action("host", 5)>>,
   <<Action("transfer", 2), Action("ics20", 2)>>,
   <<Action("ics20", 1), Action("host", 1)>>}
=============================================================================
