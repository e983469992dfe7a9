---------------------------- MODULE MCTxnPipeline ----------------------------
(* Instances of TxnPipeline for TLC. *)
EXTENDS TxnPipeline, TLC

CONSTANTS
  t1, t2, r1, r2, user, shop, n1, n2,
  MaxLoad  \* bound: handlers, items in channels, recovery passes and their listings

Transfer(debit, credit, amount) ==
  [biz |-> "TRANSFER", p2p |-> TRUE, debit |-> debit, credit |-> credit,
   amount |-> amount, origin |-> t1]
Refund(origin, amount) ==
  [biz |-> "REFUND", p2p |-> FALSE, debit |-> user, credit |-> user,
   amount |-> amount, origin |-> origin]

\* t1 moves money to the shop, t2 back to the user; r1 and r2 refund t1 and
\* together exceed it
AllReq ==
  t1 :> Transfer(user, shop, 2) @@ t2 :> Transfer(shop, user, 1)
    @@ r1 :> Refund(t1, 1) @@ r2 :> Refund(t1, 2)
MCReq == [t \in Txns |-> AllReq[t]]
MCAccounts == {user, shop}
MCShardOf == [a \in MCAccounts |-> 0]
\* the user cannot pay t1 before t2 has settled
MCPoor == user :> 1 @@ shop :> 1
\* the user could pay t1 twice
MCRich == user :> 4 @@ shop :> 0
MCAllowOverdraft == {shop}
\* shop may be overdrawn by 1 (the user never)
MCMaxOverdraftLimit == user :> 0 @@ shop :> 1
\* ... or without limit
MCUnlimited == user :> 0 @@ shop :> 0
\* the stages of the two accounts on workers of their own
MCTwoShards == user :> 0 @@ shop :> 1

Load == FoldFunction(LAMBDA c, n : Len(c) + n, 0, chan)
          + Cardinality({x \in Nodes \X Txns : api[x] # "idle"})
          + MapThenSumSet(LAMBDA n : Cardinality(rec[n].todo), Nodes)
          + Cardinality({n \in Nodes : rec[n].pass # "idle"})
BoundedLoad == Load <= MaxLoad

NodeSymmetry == Permutations(Nodes)
=============================================================================
