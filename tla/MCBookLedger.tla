---------------------------- MODULE MCBookLedger ----------------------------
(* Instances of BookLedger for TLC. *)
EXTENDS BookLedger

CONSTANTS i1, i2, i3, p1, c1, r1, r2, budget, user, peer, shop

Issue(to, amount, days) ==
  [biz |-> "TRANSFER", scene |-> "ISSUE", debit |-> budget, credit |-> to,
   amount |-> amount, days |-> days, origin |-> i1]
Pay(scene, from, to, amount) ==
  [biz |-> "TRANSFER", scene |-> scene, debit |-> from, credit |-> to,
   amount |-> amount, days |-> 0, origin |-> i1]
Refund(origin, amount) ==
  [biz |-> "REFUND", scene |-> "ISSUE", debit |-> budget, credit |-> budget,
   amount |-> amount, days |-> 0, origin |-> origin]

\* the user receives money with two expiries and money that does not expire, and
\* spends more than the first book has
AllReq(t) ==
  CASE t = i1 -> Issue(user, 2, 1)
    [] t = i2 -> Issue(user, 1, 2)
    [] t = i3 -> Issue(user, 2, 0)
    [] t = p1 -> Pay("P2P", user, peer, 3)
    [] t = c1 -> Pay("CONSUME", user, shop, 4)
    [] t = r1 -> Refund(c1, 1)
    [] t = r2 -> Refund(c1, 3)
MCReq == [t \in Txns |-> AllReq(t)]
MCAccounts == {budget, user, peer, shop}
MCBookEnabled == {user, peer}
MCAllowOverdraft == {budget}
MCMaxOverdraftLimit == [a \in MCAccounts |-> 0]
=============================================================================
