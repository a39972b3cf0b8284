----------------------------- MODULE MCRegistry -----------------------------
(***************************************************************************)
(* Instances of Registry for TLC, after the banking demo: a bank that is   *)
(* the seed, a teller and a client.                                        *)
(***************************************************************************)
EXTENDS Registry, TLC

CONSTANTS bank, teller, client  \* nodes

MCPrincipals == {"bank", "teller", "eller", "audit", "client"}
MCTorn == {<<"teller", "eller">>}

AllNodes == {bank, teller, client}
TwoNodes == {bank, teller}

MCHosts == bank :> {"bank", "audit"} @@ teller :> {"teller"} @@ client :> {"client"}
MCId == bank :> "bank" @@ teller :> "teller" @@ client :> "client"
TwoHosts == bank :> {"bank"} @@ teller :> {"teller", "bank"}
TwoIds == bank :> "bank" @@ teller :> "audit"

NoManual == [n \in AllNodes |-> NoRoutes]
TwoManual == bank :> ("audit" :> bank) @@ teller :> NoRoutes

BankSeeds == bank :> <<>> @@ teller :> <<bank>> @@ client :> <<bank>>
TwoSeeds == bank :> <<>> @@ teller :> <<bank>>

NoWants == {}
BankAsks == {<<bank, "teller">>, <<bank, "audit">>, <<bank, "bank">>}
TellerAsks == {<<teller, "audit">>}
=============================================================================
