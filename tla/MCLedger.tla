------------------------------ MODULE MCLedger ------------------------------
(* One output to begin with and four transactions: t1 and t2 conflict, t3       *)
(* spends what t1 creates, t4 is a coinbase, whose output t2 spends.            *)
EXTENDS Ledger

Base(h) == [tx |-> "me", height |-> h, index |-> 0, value |-> 4]
Out(t, v) == [tx |-> t, height |-> 0, index |-> 0, value |-> v]

MCTxs == {"t1", "t2", "t3", "t4"}
MCInputs == [t \in MCTxs |->
    CASE t = "t1" -> {Base(0)}
      [] t = "t2" -> {Base(0), Out("t4", 4)}
      [] t = "t3" -> {Out("t1", 3)}
      [] t = "t4" -> {}]
MCOutputs == [t \in MCTxs |->
    CASE t = "t1" -> {Out(t, 3)}
      [] t = "t2" -> {Out(t, 6)}
      [] t = "t3" -> {Out(t, 2)}
      [] t = "t4" -> {Out(t, 4)}]
MCBaseUtxo == {Base(0)}
=============================================================================
