---------------------------- MODULE MCSubmission ----------------------------
(* Instances of Submission for TLC. *)
EXTENDS Submission

CONSTANTS m1, m2, a, b, o1, o2, c1, c2, k1, n1, d1, d2, d3, t1, t2, f1, p1, p2, x1, x2

Blank ==
  [kind |-> "credit", admin |-> FALSE, merchant |-> m1, out |-> o1, days |-> 0, book |-> FALSE,
   debitNo |-> None, debitUser |-> None, creditNo |-> None, creditUser |-> None,
   ownerNo |-> None, origin |-> None, on |-> {}, off |-> {}]

\* accounts 1 to 4 are the system accounts of the two merchants, 5 an account with
\* books that m1 owns
AllReq(r) ==
  CASE r = c1 -> [Blank EXCEPT !.creditUser = a]
    [] r = c2 -> [Blank EXCEPT !.admin = TRUE, !.creditUser = a]
    [] r = k1 -> [Blank EXCEPT !.kind = "customer", !.admin = TRUE, !.creditUser = a]
    [] r = n1 -> [Blank EXCEPT !.kind = "openAccount", !.admin = TRUE, !.creditUser = a, !.ownerNo = k1]
    [] r = d1 -> [Blank EXCEPT !.kind = "debit", !.debitUser = a, !.debitNo = 5]
    [] r = d2 -> [Blank EXCEPT !.kind = "debit", !.admin = TRUE, !.debitUser = a, !.creditNo = 3, !.out = o2]
    [] r = d3 -> [Blank EXCEPT !.kind = "debit", !.debitNo = 5, !.creditNo = 3, !.out = o2]
    [] r = t1 -> [Blank EXCEPT !.kind = "transfer", !.debitNo = 1, !.creditUser = a]
    [] r = t2 -> [Blank EXCEPT !.kind = "transfer", !.admin = TRUE, !.debitNo = 5, !.creditNo = 2, !.out = o2]
    [] r = f1 -> [Blank EXCEPT !.kind = "features", !.admin = TRUE, !.off = {"customer"}]
    [] r = p1 -> [Blank EXCEPT !.kind = "capability", !.admin = TRUE, !.creditNo = 5, !.off = {"transfer"}]
    [] r = p2 -> [Blank EXCEPT !.kind = "capability", !.admin = TRUE, !.creditNo = 5, !.off = {"debitOut"}]
    [] r = x1 -> [Blank EXCEPT !.kind = "refund", !.origin = c1, !.out = o2]
    [] r = x2 -> [Blank EXCEPT !.kind = "refund", !.admin = TRUE, !.origin = c1, !.out = o2]
MCReq == [r \in Requests |-> AllReq(r)]
\* concurrent provisioning for one user, then submissions that share accounts and
\* numbers, and a credit with its refunds
MCBatches ==
  {{c1, c2}, {c1, k1, n1}, {c1, k1, f1},
   {d1, d3, p1}, {c1, d1, t1}, {c1, t2, p1}, {d2, t1}, {c1, x1, x2}}
MCBudget == [m \in {m1, m2} |-> IF m = m1 THEN 1 ELSE 3]
MCReceivable == [m \in {m1, m2} |-> IF m = m1 THEN 2 ELSE 4]
MCOpenedFirst ==
  [n \in Numbers |-> IF n \in {1, 2, 5} THEN m1 ELSE IF n \in {3, 4} THEN m2 ELSE None]
MCNumbers == 1..9
=============================================================================
