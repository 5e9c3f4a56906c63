-------------------------------- MODULE Chain --------------------------------
(***************************************************************************)
(* What the ledger of DEIChain promises to those who read it: a sequence   *)
(* that only grows, one block at a time, each of transactions that are in  *)
(* no earlier block.  As long as one validator writes, every block names   *)
(* its predecessor and the capacity is kept; a second and a third writer   *)
(* weaken both, the capacity by one block each.                            *)
(***************************************************************************)
EXTENDS Integers, Sequences

CONSTANTS Miners, Tx, TxsPerBlock, BlockchainBlocks

VARIABLES chain, writers

BlockTxs(b) == {b.txs[i] : i \in 1..TxsPerBlock}

Init == chain = <<>> /\ writers = 1

AddWriter ==
  /\ writers < 3
  /\ writers' = writers + 1
  /\ UNCHANGED chain

Extend ==
  /\ Len(chain) < BlockchainBlocks - 1 + writers
  /\ \E m \in Miners, p \in 0..Len(chain), txs \in [1..TxsPerBlock -> Tx] :
       LET b == [miner |-> m, prev |-> p, txs |-> txs] IN
         /\ writers = 1 => p = Len(chain)
         /\ \A k \in 1..Len(chain) : BlockTxs(chain[k]) \cap BlockTxs(b) = {}
         /\ chain' = Append(chain, b)
  /\ UNCHANGED writers

Next == AddWriter \/ Extend

Spec == Init /\ [][Next]_<<chain, writers>>
=============================================================================
