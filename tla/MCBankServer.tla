---------------------------- MODULE MCBankServer ----------------------------
(* Two clients that deposit and withdraw, twice and once, and one that asks *)
(* for an operation the server does not know.                               *)
EXTENDS BankServer, TLC

MCClients   == {"a", "b", "c"}
MCOperation == "a" :> "deposit" @@ "b" :> "withdraw" @@ "c" :> "transfer"
MCAmount    == "a" :> 5 @@ "b" :> 3 @@ "c" :> 1
MCTimes     == "a" :> 2 @@ "b" :> 1 @@ "c" :> 1
=============================================================================
