-------------------------- MODULE SubmissionProofs --------------------------
(* Proofs of what Submission promises, for any requests, merchants, users and
   accounts and any number of faults.                                         *)
EXTENDS Submission, TLAPS

\* the time that the provers have for a step
USE SMTT(40), ZenonT(40)

Kind(r) == Req[r].kind

\* A request that goes on has tries left.
Tried == \A r \in Requests : pc[r] \in Steps => tries[r] < MaxAttempts

\* A customer in the hands of a request is a row of the table: of its merchant, and for
\* a credit of its user.
Customers ==
  \A r \in Requests : cust[r] # None =>
    \E k \in Keys : /\ k[1] = Merchant(r) /\ customerNo[k] = cust[r]
                    /\ Kind(r) = "credit" => k = UserKey(r)
Opening == \A r \in Requests : pc[r] \in {"account", "open"} /\ Kind(r) = "credit" => cust[r] # None

\* A credit has a user when it looks for the user's customer.
Asking ==
  \A r \in Requests :
    pc[r] \in {"ensure", "lookup", "recheck", "insertCustomer", "reload"} => Req[r].creditUser # None

\* A default account is the customer's own; an owner is a customer with a default.
Defaults ==
  \A k \in Keys : defaultNo[k] # None =>
    /\ customerNo[k] # None
    /\ ownerOf[defaultNo[k]] = customerNo[k] /\ merchantOf[defaultNo[k]] = k[1]
Owners ==
  \A n \in Numbers : ownerOf[n] # None =>
    \E k \in Keys : customerNo[k] = ownerOf[n] /\ merchantOf[n] = k[1] /\ defaultNo[k] # None

\* The account a credit has found for a user is that user's.
OfUser(r) ==
  /\ Req[r].creditUser # None /\ customerNo[UserKey(r)] # None
  /\ ownerOf[credit[r]] = customerNo[UserKey(r)] /\ merchantOf[credit[r]] = Merchant(r)
CreditParty ==
  \A r \in Requests : Kind(r) = "credit" /\ Req[r].creditNo = None /\ credit[r] # None => OfUser(r)

\* The parties of a request that is about to insert, and of a refund under way.
Ready == \A r \in Requests : pc[r] = "insert" => PartiesKnown(Merchant(r), debit[r], credit[r])
Reverses(r, o) ==
  /\ Inserted(o) /\ phase[o] # "PENDING"
  /\ debit[r] = credit[o] /\ credit[r] = debit[o]
RefundParty ==
  \A r \in Requests : Kind(r) = "refund" /\ pc[r] \in {"validateRefund", "insert"} => Reverses(r, Req[r].origin)

SubmissionInv ==
  /\ TypeOK /\ Tried /\ Asking /\ Customers /\ Opening /\ Defaults /\ Owners
  /\ CreditParty /\ Ready /\ RefundParty /\ AnswerIsTrue /\ PartiesBelong

-----------------------------------------------------------------------------
\* What the fields of a request are.
LEMMA Fields ==
  \A r \in Requests :
    /\ Merchant(r) \in Merchants /\ TxnKey(r) \in Merchants \X OutTradeNos
    /\ Req[r].debitNo \in Numbers \cup {None} /\ Req[r].creditNo \in Numbers \cup {None}
    /\ Req[r].debitUser \in Users \cup {None} /\ Req[r].creditUser \in Users \cup {None}
    /\ Req[r].creditUser # None => UserKey(r) \in Keys
    /\ Req[r].ownerNo \in Requests \cup {None} /\ Req[r].origin \in Requests \cup {None}
    /\ Req[r].on \in SUBSET Flags /\ Req[r].off \in SUBSET Flags
BY RequestsAssumption DEF Merchant, TxnKey, UserKey, Keys

\* The steps of the handlers, each with the kinds of request that take it.
StartCustomer(r) == At(r, "start") /\ Goto(r, "recheck") /\ UNCHANGED <<tables, locals, faults>>
PatchFeatures(r) == handleAdminPatchMerchantFeatures(r)
PatchFlags(r) == handleAdminPatchAccountCapability(r)
Move(r) ==
  \/ Kind(r) \in {"credit"} /\ CreditStart(r)
  \/ Kind(r) \in {"credit"} /\ LoadFeatureConfig(r)
  \/ Kind(r) \in {"credit"} /\ GetCustomer(r)
  \/ Kind(r) \in {"credit", "customer"} /\ RecheckCustomer(r)
  \/ Kind(r) \in {"credit", "customer"} /\ CreateCustomer(r)
  \/ Kind(r) \in {"credit"} /\ ReloadCustomer(r)
  \/ Kind(r) \in {"customer"} /\ LoadAccountConfig(r)
  \/ Kind(r) \in {"credit", "customer"} /\ GetAccountByCustomerNo(r)
  \/ Kind(r) \in {"credit", "customer", "openAccount"} /\ CreateAccount(r)
  \/ Kind(r) \in {"credit", "customer", "openAccount"} /\ AccountNoTaken(r)
  \/ Kind(r) \in {"credit", "debit", "transfer"} /\ Route(r)
  \/ Kind(r) \in {"credit", "debit", "transfer"} /\ ValidateSubmit(r)
  \/ Kind(r) \in TxnKinds /\ CreateTransferTxn(r)
  \/ Kind(r) \in {"debit", "transfer"} /\ LocateDebit(r)
  \/ Kind(r) \in {"debit", "transfer"} /\ LocateCredit(r)
  \/ Kind(r) \in {"refund"} /\ RefundOrigin(r)
  \/ Kind(r) \in {"refund"} /\ ValidateRefund(r)
  \/ Kind(r) \in {"customer"} /\ StartCustomer(r)
  \/ Kind(r) \in {"openAccount"} /\ FindOwner(r)
  \/ Kind(r) \in {"features"} /\ PatchFeatures(r)
  \/ Kind(r) \in {"capability"} /\ PatchFlags(r)
  \/ audit(r)
  \/ Apply(r)
  \/ Abandon(r)

\* A step of the specification is one of these steps.
LEMMA Moves ==
  ASSUME [Next]_vars
  PROVE  (\E r \in Requests : Move(r)) \/ UNCHANGED vars
<1> SUFFICES ASSUME NEW r \in Requests, Handle(r) \/ Apply(r) \/ Abandon(r)
             PROVE  Move(r)
  BY DEF Next
<1> USE DEF Is, Kind, Move, TxnKinds
<1>1. CASE handleCredit(r) \/ handleAdminCredit(r)
  BY <1>1 DEF handleCredit, handleAdminCredit, EnsureCustomerAccountForCredit, createCustomerOnly,
              ensureDefaultCustomerAccount, Submit
<1>2. CASE handleDebit(r) \/ handleAdminDebit(r) \/ handleTransfer(r) \/ handleAdminTransfer(r)
  BY <1>2 DEF handleDebit, handleAdminDebit, handleTransfer, handleAdminTransfer, Submit
<1>3. CASE handleRefund(r) \/ handleAdminRefund(r)
  BY <1>3 DEF handleRefund, handleAdminRefund, SubmitRefund
<1>4. CASE handleAdminCreateCustomer(r)
  BY <1>4
  DEF handleAdminCreateCustomer, createCustomerOnly, ensureDefaultCustomerAccount, StartCustomer
<1>5. CASE handleAdminCreateAccount(r)
  BY <1>5, ZenonT(40) DEF handleAdminCreateAccount
<1>6. CASE handleAdminPatchMerchantFeatures(r)
  BY <1>6, ZenonT(40) DEF PatchFeatures, handleAdminPatchMerchantFeatures
<1>7. CASE handleAdminPatchAccountCapability(r)
  BY <1>7 DEF PatchFlags, handleAdminPatchAccountCapability
<1> QED  BY ZenonT(40), <1>1, <1>2, <1>3, <1>4, <1>5, <1>6, <1>7 DEF Handle

\* An inserted customer keeps the type of the table.
LEMMA RowTypes ==
  ASSUME TypeOK, NEW r \in Requests, NEW k \in Keys,
         customerNo' = customerNo \/ customerNo' = [customerNo EXCEPT ![k] = r]
  PROVE  customerNo' \in [Keys -> Requests \cup {None}]
<1>1. customerNo \in [Keys -> Requests \cup {None}]
  BY DEF TypeOK
<1> QED  BY <1>1

\* A write to one request's customer keeps the type of cust.
LEMMA CustTypes ==
  ASSUME TypeOK, NEW r \in Requests,
         cust' = cust \/ \E c \in Requests \cup {None} : cust' = [cust EXCEPT ![r] = c]
  PROVE  cust' \in [Requests -> Requests \cup {None}]
<1>1. cust \in [Requests -> Requests \cup {None}]
  BY DEF TypeOK
<1> QED  BY <1>1

\* A write to one request's debit side keeps the type of debit.
LEMMA DebitTypes ==
  ASSUME TypeOK, NEW r \in Requests,
         debit' = debit \/ \E n \in Numbers \cup {None} : debit' = [debit EXCEPT ![r] = n]
  PROVE  debit' \in [Requests -> Numbers \cup {None}]
<1>1. debit \in [Requests -> Numbers \cup {None}]
  BY DEF TypeOK
<1> QED  BY <1>1

\* A write to one request's credit side keeps the type of credit.
LEMMA CreditTypes ==
  ASSUME TypeOK, NEW r \in Requests,
         credit' = credit \/ \E n \in Numbers \cup {None} : credit' = [credit EXCEPT ![r] = n]
  PROVE  credit' \in [Requests -> Numbers \cup {None}]
<1>1. credit \in [Requests -> Numbers \cup {None}]
  BY DEF TypeOK
<1> QED  BY <1>1

\* A write of one merchant's flags keeps the type of features.
LEMMA FeatureTypes ==
  ASSUME TypeOK, NEW m \in Merchants, NEW g \in SUBSET Flags,
         features' = features \/ features' = [features EXCEPT ![m] = g]
  PROVE  features' \in [Merchants -> SUBSET Flags]
<1>1. features \in [Merchants -> SUBSET Flags]
  BY DEF TypeOK
<1> QED  BY <1>1

\* A write of one account's flags keeps the type of caps.
LEMMA CapsTypes ==
  ASSUME TypeOK, NEW n \in Numbers, NEW g \in SUBSET Flags,
         caps' = caps \/ caps' = [caps EXCEPT ![n] = g]
  PROVE  caps' \in [Numbers -> SUBSET Flags]
<1>1. caps \in [Numbers -> SUBSET Flags]
  BY DEF TypeOK
<1> QED  BY <1>1

\* A read of flags keeps the type of seen.
LEMMA SeenTypes ==
  ASSUME TypeOK, NEW r \in Requests, NEW g \in SUBSET Flags,
         seen' = seen \/ seen' = [seen EXCEPT ![r] = g]
  PROVE  seen' \in [Requests -> SUBSET Flags]
<1>1. seen \in [Requests -> SUBSET Flags]
  BY DEF TypeOK
<1> QED  BY <1>1

\* The types of a request's parties and of its merchant.
LEMMA PartyTypes ==
  ASSUME TypeOK, NEW q \in Requests
  PROVE  /\ debit[q] \in Numbers \cup {None} /\ credit[q] \in Numbers \cup {None}
         /\ Merchant(q) # None
<1>1. debit[q] \in Numbers \cup {None} /\ credit[q] \in Numbers \cup {None}
  BY DEF TypeOK
<1>2. Merchant(q) # None
  BY Fields, NamesAssumption
<1> QED  BY <1>1, <1>2

\* Where a request stands that has opened an account.
LEMMA Opened ==
  ASSUME TypeOK, NEW r \in Requests, CreateAccount(r)
  PROVE  /\ pc[r] = "open" /\ \A q \in Requests : q # r => pc'[q] = pc[q]
         /\ Kind(r) = "credit" => pc'[r] = "route"
         /\ Kind(r) # "credit" => pc'[r] \in {"audit", "SUCCESS"}
<1>1. pc \in [Requests -> Steps \cup Answers \cup {"UNSENT"}]
  BY DEF TypeOK
<1>2. /\ pc[r] = "open"
      /\ \/ Kind(r) = "credit" /\ pc' = [pc EXCEPT ![r] = "route"]
         \/ Kind(r) # "credit" /\ pc' = [pc EXCEPT ![r] = "audit"]
         \/ Kind(r) # "credit" /\ pc' = [pc EXCEPT ![r] = "SUCCESS"]
  BY DEF CreateAccount, Finish, Goto, At, Kind
<1> QED  BY <1>1, <1>2

\* One step keeps the types.
LEMMA TypeStep ==
  ASSUME TypeOK, Tried, Asking, [Next]_vars
  PROVE  TypeOK'
<1> USE Fields, FieldsAssumption, NamesAssumption, AccountsAssumption DEF TypeOK, Tried, Steps,
        Answers,
    Flags, Capabilities, Features, Keys, Kind, TxnKinds, Asking
<1> USE DEF tables, locals, vars, At, Goto
<1>1. ASSUME NEW r \in Requests, Kind(r) \in {"credit"}, CreditStart(r) PROVE TypeOK'
  <2>1. \E s \in Steps \cup Answers : pc' = [pc EXCEPT ![r] = s]
    BY <1>1, ZenonT(40) DEF CreditStart
  <2>2. pc' \in [Requests -> Steps \cup Answers \cup {"UNSENT"}]
    BY <2>1
  <2>3. debit' = debit \/ (\E d \in Numbers \cup {None} : debit' = [debit EXCEPT ![r] = d])
    BY ZenonT(40), <1>1 DEF CreditStart, Locate, ResolveCustomerAccount
  <2>4. debit' \in [Requests -> Numbers \cup {None}]
    <3> HIDE DEF TypeOK, Keys, Flags, Merchant
    <3> QED  BY ZenonT(40), <2>3, DebitTypes
  <2>5. credit' = credit \/ (\E c \in Numbers \cup {None} : credit' = [credit EXCEPT ![r] = c])
    BY ZenonT(40), <1>1 DEF CreditStart, Locate, ResolveCustomerAccount
  <2>6. credit' \in [Requests -> Numbers \cup {None}]
    <3> HIDE DEF TypeOK, Keys, Flags, Merchant
    <3> QED  BY ZenonT(40), <2>5, CreditTypes
  <2>7. faults' \in 0..MaxFaults /\ UNCHANGED <<tables, cust, tries, seen>>
    BY <1>1 DEF CreditStart, Locate, Finds, Fault
  <2> QED  BY <2>2, <2>4, <2>6, <2>7, ZenonT(40)
<1>2. ASSUME NEW r \in Requests, Kind(r) \in {"credit"}, LoadFeatureConfig(r) PROVE TypeOK'
  BY <1>2, ZenonT(40) DEF LoadFeatureConfig
<1>3. ASSUME NEW r \in Requests, Kind(r) \in {"credit"}, GetCustomer(r) PROVE TypeOK'
  BY <1>3 DEF GetCustomer, ReadsAs, Fault
<1>4. ASSUME NEW r \in Requests, Kind(r) \in {"credit", "customer"}, RecheckCustomer(r) PROVE TypeOK'
  <2>1. \E s \in Steps \cup Answers : pc' = [pc EXCEPT ![r] = s]
    BY <1>4, ZenonT(40) DEF RecheckCustomer, CustomerExists
  <2>2. pc' \in [Requests -> Steps \cup Answers \cup {"UNSENT"}]
    BY <2>1
  <2>3. faults' \in 0..MaxFaults
    BY <1>4 DEF RecheckCustomer, ReadsAs, Fault
  <2> QED  BY <1>4, <2>2, <2>3, ZenonT(40) DEF RecheckCustomer
<1>5. ASSUME NEW r \in Requests, Kind(r) \in {"credit", "customer"}, CreateCustomer(r) PROVE TypeOK'
  <2>1. \E s \in Steps \cup Answers : pc' = [pc EXCEPT ![r] = s]
    BY <1>5, ZenonT(40) DEF CreateCustomer, CustomerExists
  <2>2. pc' \in [Requests -> Steps \cup Answers \cup {"UNSENT"}]
    BY <2>1
  <2>3. UserKey(r) \in Keys
    BY <1>5, ZenonT(40) DEF CreateCustomer
  <2>4. customerNo' = customerNo \/ customerNo' = [customerNo EXCEPT ![UserKey(r)] = r]
    BY <1>5 DEF CreateCustomer
  <2>5. customerNo' \in [Keys -> Requests \cup {None}]
    <3> HIDE DEF TypeOK, Keys, Flags, Merchant
    <3> QED  BY ZenonT(40), <2>3, <2>4, RowTypes
  <2>6. cust' = cust \/ (\E c \in Requests \cup {None} : cust' = [cust EXCEPT ![r] = c])
    BY <1>5, ZenonT(40) DEF CreateCustomer
  <2>7. cust' \in [Requests -> Requests \cup {None}]
    <3> HIDE DEF TypeOK, Keys, Flags, Merchant
    <3> QED  BY ZenonT(40), <2>6, CustTypes
  <2>9. UNCHANGED <<defaultNo, merchantOf, ownerOf, caps, books, features, txn, phase, audited>>
        /\ UNCHANGED <<debit, credit, tries, seen, faults>>
    BY <1>5, ZenonT(40) DEF CreateCustomer
  <2> QED  BY <2>2, <2>3, <2>4, <2>5, <2>6, <2>7, <2>9, ZenonT(40)
<1>6. ASSUME NEW r \in Requests, Kind(r) \in {"credit"}, ReloadCustomer(r) PROVE TypeOK'
  BY <1>6 DEF ReloadCustomer, ReadsAs, Fault
<1>7. ASSUME NEW r \in Requests, Kind(r) \in {"customer"}, LoadAccountConfig(r) PROVE TypeOK'
  <2>1. \E s \in Steps \cup Answers : pc' = [pc EXCEPT ![r] = s]
    BY <1>7, ZenonT(40) DEF LoadAccountConfig, Finish
  <2>2. pc' \in [Requests -> Steps \cup Answers \cup {"UNSENT"}]
    BY <2>1
  <2>3. UNCHANGED <<tables, locals, faults>>
    BY <1>7, ZenonT(40) DEF LoadAccountConfig
  <2> QED  BY <1>7, <2>2, <2>3 DEF LoadAccountConfig
<1>8. ASSUME NEW r \in Requests, Kind(r) \in {"credit", "customer"}, GetAccountByCustomerNo(r) PROVE TypeOK'
  <2>1. \E s \in Steps \cup Answers : pc' = [pc EXCEPT ![r] = s]
    BY <1>8, ZenonT(40) DEF GetAccountByCustomerNo, Finish
  <2>2. pc' \in [Requests -> Steps \cup Answers \cup {"UNSENT"}]
    BY <2>1
  <2>3. faults' \in 0..MaxFaults /\ credit' \in [Requests -> Numbers \cup {None}]
    BY <1>8 DEF GetAccountByCustomerNo, ReadsAs, Fault
  <2> QED  BY <1>8, <2>2, <2>3, ZenonT(40) DEF GetAccountByCustomerNo
<1>9. ASSUME NEW r \in Requests, Kind(r) \in {"credit", "customer", "openAccount"}, CreateAccount(r) PROVE TypeOK'
  <2>1. \E s \in Steps \cup Answers : pc' = [pc EXCEPT ![r] = s]
    BY <1>9 DEF CreateAccount, Finish
  <2>2. pc' \in [Requests -> Steps \cup Answers \cup {"UNSENT"}]
    BY <2>1
  <2>3. PICK n \in Numbers :
          /\ merchantOf' = [merchantOf EXCEPT ![n] = Merchant(r)]
          /\ ownerOf' = [ownerOf EXCEPT ![n] = cust[r]]
          /\ caps' = [caps EXCEPT ![n] = OpenedCaps(r)]
          /\ books' = books \/ books' = books \cup {n}
          /\ defaultNo' = SetDefault(Merchant(r), cust[r], n)
          /\ credit' = [credit EXCEPT ![r] = n]
    BY <1>9, ZenonT(40) DEF CreateAccount, Fresh
  <2>4. OpenedCaps(r) \in SUBSET Flags
    BY ZenonT(40) DEF OpenedCaps
  <2>5. merchantOf' \in [Numbers -> Merchants \cup {None}]
    BY <1>9, <2>3, ZenonT(40)
  <2>6. ownerOf' \in [Numbers -> Requests \cup {None}]
    BY <1>9, <2>3, ZenonT(40)
  <2>7. caps' \in [Numbers -> SUBSET Flags]
    BY <1>9, <2>3, <2>4, ZenonT(40)
  <2>8. books' \subseteq Numbers
    BY <1>9, <2>3
  <2>9. defaultNo' \in [Keys -> Numbers \cup {None}]
    BY <1>9, <2>3 DEF SetDefault
  <2>10. credit' \in [Requests -> Numbers \cup {None}]
    BY <1>9, <2>3, ZenonT(40)
  <2>11. UNCHANGED <<customerNo, features, txn, phase, audited, cust, debit, tries, seen, faults>>
    BY <1>9, ZenonT(40) DEF CreateAccount
  <2> QED
    BY <2>2, <2>5, <2>6, <2>7, <2>8, <2>9, <2>10, <2>11, ZenonT(40)
<1>10. ASSUME NEW r \in Requests, Kind(r) \in {"credit", "customer", "openAccount"}, AccountNoTaken(r) PROVE TypeOK'
  <2>1. pc' = pc \/ \E s \in Steps \cup Answers : pc' = [pc EXCEPT ![r] = s]
    BY <1>10, ZenonT(40) DEF AccountNoTaken
  <2>2. pc' \in [Requests -> Steps \cup Answers \cup {"UNSENT"}]
    <3>1. CASE pc' = pc
      BY <3>1, ZenonT(40)
    <3>2. CASE \E s \in Steps \cup Answers : pc' = [pc EXCEPT ![r] = s]
      BY <3>2
    <3> QED  BY <2>1, <3>1, <3>2, ZenonT(40)
  <2>3. pc[r] = "open" /\ tries' = [tries EXCEPT ![r] = @ + 1]
    BY <1>10, ZenonT(40) DEF AccountNoTaken
  <2>4. tries' \in [Requests -> 0..MaxAttempts]
    BY <2>3
  <2>5. UNCHANGED <<tables, cust, debit, credit, seen, faults>>
    BY <1>10, ZenonT(40) DEF AccountNoTaken
  <2> QED
    BY <2>2, <2>4, <2>5, ZenonT(40)
<1>11. ASSUME NEW r \in Requests, Kind(r) \in {"credit", "debit", "transfer"}, Route(r) PROVE TypeOK'
  <2>1. \E s \in Steps \cup Answers : pc' = [pc EXCEPT ![r] = s]
    BY <1>11, ZenonT(40) DEF Route
  <2>2. pc' \in [Requests -> Steps \cup Answers \cup {"UNSENT"}]
    BY <2>1
  <2>3. debit' = debit \/ (\E d \in Numbers \cup {None} : debit' = [debit EXCEPT ![r] = d])
    BY <1>11 DEF Route, DebitDefault, CreditDefault
  <2>4. debit' \in [Requests -> Numbers \cup {None}]
    <3> HIDE DEF TypeOK, Keys, Flags, Merchant
    <3> QED  BY ZenonT(40), <2>3, DebitTypes
  <2>5. credit' = credit \/ (\E c \in Numbers \cup {None} : credit' = [credit EXCEPT ![r] = c])
    BY <1>11 DEF Route, DebitDefault, CreditDefault
  <2>6. credit' \in [Requests -> Numbers \cup {None}]
    <3> HIDE DEF TypeOK, Keys, Flags, Merchant
    <3> QED  BY ZenonT(40), <2>5, CreditTypes
  <2>7. faults' \in 0..MaxFaults /\ UNCHANGED <<tables, cust, tries, seen>>
    BY <1>11 DEF Route, Fault
  <2> QED  BY <2>2, <2>4, <2>6, <2>7
<1>12. ASSUME NEW r \in Requests, Kind(r) \in {"credit", "debit", "transfer"}, ValidateSubmit(r) PROVE TypeOK'
  <2>1. \E s \in Steps \cup Answers : pc' = [pc EXCEPT ![r] = s]
    BY <1>12, ZenonT(40) DEF ValidateSubmit
  <2>2. pc' \in [Requests -> Steps \cup Answers \cup {"UNSENT"}]
    BY <2>1
  <2>3. faults' \in 0..MaxFaults
    BY <1>12 DEF ValidateSubmit, Fault
  <2>4. UNCHANGED <<tables, locals>>
    BY <1>12, ZenonT(40) DEF ValidateSubmit
  <2> QED
    BY <2>2, <2>3, <2>4, ZenonT(40)
<1>13. ASSUME NEW r \in Requests, Kind(r) \in TxnKinds, CreateTransferTxn(r) PROVE TypeOK'
  <2>1. \E s \in Steps \cup Answers : pc' = [pc EXCEPT ![r] = s]
    BY <1>13, ZenonT(40) DEF CreateTransferTxn, Finish
  <2>2. pc' \in [Requests -> Steps \cup Answers \cup {"UNSENT"}]
    BY <2>1
  <2>3. txn' \in [Merchants \X OutTradeNos -> Requests \cup {None}]
    <3>1. txn' = txn \/ txn' = [txn EXCEPT ![TxnKey(r)] = r]
      BY <1>13, ZenonT(40) DEF CreateTransferTxn
    <3>2. txn \in [Merchants \X OutTradeNos -> Requests \cup {None}]
      OBVIOUS
    <3> HIDE DEF TypeOK
    <3> QED  BY <3>1, <3>2
  <2>4. faults' \in 0..MaxFaults
    BY <1>13 DEF CreateTransferTxn, Fault
  <2> QED  BY <1>13, <2>2, <2>3, <2>4, ZenonT(40) DEF CreateTransferTxn
<1>14. ASSUME NEW r \in Requests, Kind(r) \in {"debit", "transfer"}, LocateDebit(r) PROVE TypeOK'
  <2>1. \E s \in Steps \cup Answers : pc' = [pc EXCEPT ![r] = s]
    BY ZenonT(40), <1>14 DEF LocateDebit, SideAnswer
  <2>2. pc' \in [Requests -> Steps \cup Answers \cup {"UNSENT"}]
    BY <2>1
  <2>3. \E d \in Numbers \cup {None} : debit' = [debit EXCEPT ![r] = d]
    BY ZenonT(40), <1>14 DEF LocateDebit, Locate, Located, ResolveCustomerAccount
  <2>4. debit' \in [Requests -> Numbers \cup {None}]
    <3> HIDE DEF TypeOK, Keys, Flags, Merchant
    <3> QED  BY ZenonT(40), <2>3, DebitTypes
  <2>5. \E c \in Numbers \cup {None} : credit' = [credit EXCEPT ![r] = c]
    BY ZenonT(40), <1>14 DEF LocateDebit, Locate, Located, ResolveCustomerAccount
  <2>6. credit' \in [Requests -> Numbers \cup {None}]
    <3> HIDE DEF TypeOK, Keys, Flags, Merchant
    <3> QED  BY ZenonT(40), <2>5, CreditTypes
  <2>7. faults' \in 0..MaxFaults /\ UNCHANGED <<tables, cust, tries, seen>>
    BY <1>14 DEF LocateDebit, Locate, Finds, Fault
  <2> QED  BY <2>2, <2>4, <2>6, <2>7
<1>15. ASSUME NEW r \in Requests, Kind(r) \in {"debit", "transfer"}, LocateCredit(r) PROVE TypeOK'
  <2>1. \E s \in Steps \cup Answers : pc' = [pc EXCEPT ![r] = s]
    BY ZenonT(40), <1>15 DEF LocateCredit, SideAnswer
  <2>2. pc' \in [Requests -> Steps \cup Answers \cup {"UNSENT"}]
    BY <2>1
  <2>3. \E d \in Numbers \cup {None} : debit' = [debit EXCEPT ![r] = d]
    BY ZenonT(40), <1>15 DEF LocateCredit, Locate, Located, ResolveCustomerAccount
  <2>4. debit' \in [Requests -> Numbers \cup {None}]
    <3> HIDE DEF TypeOK, Keys, Flags, Merchant
    <3> QED  BY ZenonT(40), <2>3, DebitTypes
  <2>5. \E c \in Numbers \cup {None} : credit' = [credit EXCEPT ![r] = c]
    BY ZenonT(40), <1>15 DEF LocateCredit, Locate, Located, ResolveCustomerAccount
  <2>6. credit' \in [Requests -> Numbers \cup {None}]
    <3> HIDE DEF TypeOK, Keys, Flags, Merchant
    <3> QED  BY ZenonT(40), <2>5, CreditTypes
  <2>7. faults' \in 0..MaxFaults /\ UNCHANGED <<tables, cust, tries, seen>>
    BY <1>15 DEF LocateCredit, Locate, Finds, Fault
  <2> QED  BY <2>2, <2>4, <2>6, <2>7
<1>16. ASSUME NEW r \in Requests, Kind(r) \in {"refund"}, RefundOrigin(r) PROVE TypeOK'
  <2>1. \E s \in Steps \cup Answers : pc' = [pc EXCEPT ![r] = s]
    BY ZenonT(40), <1>16 DEF RefundOrigin
  <2>2. pc' \in [Requests -> Steps \cup Answers \cup {"UNSENT"}]
    BY <2>1
  <2>3. debit' = debit \/ (\E d \in Numbers \cup {None} : debit' = [debit EXCEPT ![r] = d])
    BY <1>16 DEF RefundOrigin
  <2>4. debit' \in [Requests -> Numbers \cup {None}]
    <3> HIDE DEF TypeOK, Keys, Flags, Merchant
    <3> QED  BY ZenonT(40), <2>3, DebitTypes
  <2>5. credit' = credit \/ (\E c \in Numbers \cup {None} : credit' = [credit EXCEPT ![r] = c])
    BY ZenonT(40), <1>16 DEF RefundOrigin
  <2>6. credit' \in [Requests -> Numbers \cup {None}]
    <3> HIDE DEF TypeOK, Keys, Flags, Merchant
    <3> QED  BY ZenonT(40), <2>5, CreditTypes
  <2>7. faults' \in 0..MaxFaults /\ UNCHANGED <<tables, cust, tries, seen>>
    BY <1>16 DEF RefundOrigin, Fault
  <2> QED  BY <2>2, <2>4, <2>6, <2>7
<1>17. ASSUME NEW r \in Requests, Kind(r) \in {"refund"}, ValidateRefund(r) PROVE TypeOK'
  <2>1. \E s \in Steps \cup Answers : pc' = [pc EXCEPT ![r] = s]
    BY <1>17, ZenonT(40) DEF ValidateRefund
  <2>2. pc' \in [Requests -> Steps \cup Answers \cup {"UNSENT"}]
    BY <2>1
  <2>3. faults' \in 0..MaxFaults /\ UNCHANGED <<tables, locals>>
    BY <1>17 DEF ValidateRefund, Fault
  <2> QED  BY <2>2, <2>3
<1>18. ASSUME NEW r \in Requests, Kind(r) \in {"customer"}, StartCustomer(r) PROVE TypeOK'
  BY <1>18 DEF StartCustomer
<1>19. ASSUME NEW r \in Requests, Kind(r) \in {"openAccount"}, FindOwner(r) PROVE TypeOK'
  BY <1>19 DEF FindOwner, ReadsAs, Fault
<1>20. ASSUME NEW r \in Requests, Kind(r) \in {"features"}, PatchFeatures(r) PROVE TypeOK'
  <2>1. \E s \in Steps \cup Answers : pc' = [pc EXCEPT ![r] = s]
    BY <1>20 DEF PatchFeatures, handleAdminPatchMerchantFeatures, Finish
  <2>2. pc' \in [Requests -> Steps \cup Answers \cup {"UNSENT"}]
    BY <2>1
  <2>3. Patched(r) \in SUBSET Flags /\ features[Merchant(r)] \in SUBSET Flags
    BY ZenonT(40) DEF Patched
  <2>4. features' = features \/ features' = [features EXCEPT ![Merchant(r)] = Patched(r)]
    BY <1>20 DEF PatchFeatures, handleAdminPatchMerchantFeatures
  <2>5. features' \in [Merchants -> SUBSET Flags]
    <3> HIDE DEF TypeOK, Keys, Flags, Merchant
    <3> QED  BY ZenonT(40), <2>3, <2>4, Fields, FeatureTypes
  <2>6. seen' = seen \/ seen' = [seen EXCEPT ![r] = features[Merchant(r)]]
    BY <1>20 DEF PatchFeatures, handleAdminPatchMerchantFeatures
  <2>7. seen' \in [Requests -> SUBSET Flags]
    <3> HIDE DEF TypeOK, Keys, Flags, Merchant
    <3> QED  BY ZenonT(40), <2>3, <2>6, SeenTypes
  <2>9. UNCHANGED <<customerNo, defaultNo, merchantOf, ownerOf, caps, books, txn, phase, audited>>
        /\ UNCHANGED <<cust, debit, credit, tries, faults>>
    BY ZenonT(40), <1>20 DEF PatchFeatures, handleAdminPatchMerchantFeatures
  <2> QED  BY <2>2, <2>5, <2>7, <2>9, ZenonT(40)
<1>21. ASSUME NEW r \in Requests, Kind(r) \in {"capability"}, PatchFlags(r) PROVE TypeOK'
  <2>1. \E s \in Steps \cup Answers : pc' = [pc EXCEPT ![r] = s]
    BY <1>21, ZenonT(40) DEF PatchFlags, handleAdminPatchAccountCapability, PatchCapability, Finish
  <2>2. pc' \in [Requests -> Steps \cup Answers \cup {"UNSENT"}]
    BY <2>1
  <2>3. Patched(r) \in SUBSET Flags /\ Req[r].creditNo \in Numbers
    BY <1>21, ZenonT(40) DEF Patched
  <2>4. caps[Req[r].creditNo] \in SUBSET Flags
    BY <2>3
  <2>5. caps' = caps \/ caps' = [caps EXCEPT ![Req[r].creditNo] = Patched(r)]
    BY ZenonT(40), <1>21 DEF PatchFlags, handleAdminPatchAccountCapability, PatchCapability
  <2>6. caps' \in [Numbers -> SUBSET Flags]
    <3> HIDE DEF TypeOK, Keys, Flags, Merchant
    <3> QED  BY ZenonT(40), <2>3, <2>5, CapsTypes
  <2>7. seen' = seen \/ seen' = [seen EXCEPT ![r] = caps[Req[r].creditNo]]
    BY <1>21 DEF PatchFlags, handleAdminPatchAccountCapability, PatchCapability
  <2>8. seen' \in [Requests -> SUBSET Flags]
    <3> HIDE DEF TypeOK, Keys, Flags, Merchant
    <3> QED  BY ZenonT(40), <2>4, <2>7, SeenTypes
  <2>10. faults' = faults \/ Fault
    BY ZenonT(40), <1>21 DEF PatchFlags, handleAdminPatchAccountCapability, PatchCapability, ReadsAs
  <2>11. faults' \in 0..MaxFaults
    BY <2>10 DEF Fault
  <2>12. UNCHANGED <<customerNo, defaultNo, merchantOf, ownerOf, books, features, txn, phase, audited>>
         /\ UNCHANGED <<cust, debit, credit, tries>>
    BY ZenonT(40), <1>21 DEF PatchFlags, handleAdminPatchAccountCapability, PatchCapability
  <2> QED  BY <2>2, <2>6, <2>8, <2>11, <2>12, ZenonT(40)
<1>22. ASSUME NEW r \in Requests, audit(r) PROVE TypeOK'
  BY <1>22 DEF audit, Fault
<1>23. ASSUME NEW r \in Requests, Apply(r) PROVE TypeOK'
  BY ZenonT(40), <1>23 DEF Apply
<1>24. ASSUME NEW r \in Requests, Abandon(r) PROVE TypeOK'
  BY <1>24 DEF Abandon, Fault
<1>25. CASE UNCHANGED vars
  BY <1>25
<1> HIDE DEF TypeOK, Tried, Steps, Answers, Flags, Capabilities, Features, Keys, Kind, TxnKinds,
             Asking
<1> HIDE DEF tables, locals, vars, At, Goto
<1> QED
  BY ZenonT(40), <1>1, <1>2, <1>3, <1>4, <1>5, <1>6, <1>7, <1>8, <1>9, <1>10, <1>11, <1>12,
     <1>13, <1>14,
     <1>15, <1>16, <1>17, <1>18, <1>19, <1>20, <1>21, <1>22, <1>23, <1>24, <1>25, Moves
  DEF Move

\* The steps that write rows that others rely on.
LEMMA Writers ==
  ASSUME NEW r \in Requests, Move(r)
  PROVE  \/ UNCHANGED <<customerNo, defaultNo, merchantOf, ownerOf, txn, phase>>
         \/ Kind(r) \in {"credit", "customer"} /\ CreateCustomer(r)
         \/ Kind(r) \in {"credit", "customer", "openAccount"} /\ CreateAccount(r)
         \/ Kind(r) \in TxnKinds /\ CreateTransferTxn(r)
         \/ Apply(r)
<1> USE DEF tables
<1>1. CASE Kind(r) \in {"credit"} /\ CreditStart(r)
  BY <1>1 DEF CreditStart, Locate
<1>2. CASE Kind(r) \in {"credit"} /\ LoadFeatureConfig(r)
  BY ZenonT(40), <1>2 DEF LoadFeatureConfig, Locate
<1>3. CASE Kind(r) \in {"credit"} /\ GetCustomer(r)
  BY <1>3 DEF GetCustomer, ReadsAs, Fault, Locate
<1>4. CASE Kind(r) \in {"credit", "customer"} /\ RecheckCustomer(r)
  BY ZenonT(40), <1>4 DEF RecheckCustomer, ReadsAs, Fault, CustomerExists, Locate
<1>5. CASE Kind(r) \in {"credit", "customer"} /\ CreateCustomer(r)
  BY <1>5
<1>6. CASE Kind(r) \in {"credit"} /\ ReloadCustomer(r)
  BY <1>6 DEF ReloadCustomer, ReadsAs, Fault, Locate
<1>7. CASE Kind(r) \in {"customer"} /\ LoadAccountConfig(r)
  BY ZenonT(40), <1>7 DEF LoadAccountConfig, Finish, Locate
<1>8. CASE Kind(r) \in {"credit", "customer"} /\ GetAccountByCustomerNo(r)
  BY <1>8 DEF GetAccountByCustomerNo, ReadsAs, Fault, Finish, Locate
<1>9. CASE Kind(r) \in {"credit", "customer", "openAccount"} /\ CreateAccount(r)
  BY <1>9
<1>10. CASE Kind(r) \in {"credit", "customer", "openAccount"} /\ AccountNoTaken(r)
  BY <1>10 DEF AccountNoTaken, Fault, Locate
<1>11. CASE Kind(r) \in {"credit", "debit", "transfer"} /\ Route(r)
  BY <1>11, ZenonT(40) DEF Route, Fault, Locate
<1>12. CASE Kind(r) \in {"credit", "debit", "transfer"} /\ ValidateSubmit(r)
  BY <1>12 DEF ValidateSubmit, Fault, Locate
<1>13. CASE Kind(r) \in TxnKinds /\ CreateTransferTxn(r)
  BY <1>13
<1>14. CASE Kind(r) \in {"debit", "transfer"} /\ LocateDebit(r)
  BY <1>14 DEF LocateDebit, Locate
<1>15. CASE Kind(r) \in {"debit", "transfer"} /\ LocateCredit(r)
  BY <1>15, ZenonT(40) DEF LocateCredit, Locate
<1>16. CASE Kind(r) \in {"refund"} /\ RefundOrigin(r)
  BY <1>16 DEF RefundOrigin, Fault, Locate
<1>17. CASE Kind(r) \in {"refund"} /\ ValidateRefund(r)
  BY ZenonT(40), <1>17 DEF ValidateRefund, Fault, Locate
<1>18. CASE Kind(r) \in {"customer"} /\ StartCustomer(r)
  BY <1>18 DEF StartCustomer, Locate
<1>19. CASE Kind(r) \in {"openAccount"} /\ FindOwner(r)
  BY <1>19 DEF FindOwner, ReadsAs, Fault, Locate
<1>20. CASE Kind(r) \in {"features"} /\ PatchFeatures(r)
  BY <1>20 DEF PatchFeatures, handleAdminPatchMerchantFeatures, Finish, Locate
<1>21. CASE Kind(r) \in {"capability"} /\ PatchFlags(r)
  BY ZenonT(40), <1>21
  DEF PatchFlags, handleAdminPatchAccountCapability, PatchCapability, Finish, ReadsAs, Fault,
      Locate
<1>22. CASE audit(r)
  BY <1>22 DEF audit, Fault, Locate
<1>23. CASE Apply(r)
  BY <1>23
<1>24. CASE Abandon(r)
  BY <1>24 DEF Abandon, Fault, Locate
<1> QED
  BY ZenonT(40), <1>1, <1>2, <1>3, <1>4, <1>5, <1>6, <1>7, <1>8, <1>9, <1>10, <1>11, <1>12,
     <1>13, <1>14,
     <1>15, <1>16, <1>17, <1>18, <1>19, <1>20, <1>21, <1>22, <1>23, <1>24
  DEF Move

\* The steps that choose the parties.
LEMMA Lookers ==
  ASSUME NEW r \in Requests, Move(r)
  PROVE  \/ UNCHANGED <<debit, credit>>
         \/ Kind(r) \in {"credit"} /\ CreditStart(r)
         \/ Kind(r) \in {"credit", "customer"} /\ GetAccountByCustomerNo(r)
         \/ Kind(r) \in {"credit", "customer", "openAccount"} /\ CreateAccount(r)
         \/ Kind(r) \in {"credit", "debit", "transfer"} /\ Route(r)
         \/ Kind(r) \in {"debit", "transfer"} /\ (LocateDebit(r) \/ LocateCredit(r))
         \/ Kind(r) \in {"refund"} /\ RefundOrigin(r)
<1> USE DEF locals
<1>1. CASE Kind(r) \in {"credit"} /\ CreditStart(r)
  BY <1>1, ZenonT(40)
<1>2. CASE Kind(r) \in {"credit"} /\ LoadFeatureConfig(r)
  BY <1>2 DEF LoadFeatureConfig
<1>3. CASE Kind(r) \in {"credit"} /\ GetCustomer(r)
  BY <1>3, ZenonT(40) DEF GetCustomer, ReadsAs, Fault
<1>4. CASE Kind(r) \in {"credit", "customer"} /\ RecheckCustomer(r)
  BY <1>4, ZenonT(40) DEF RecheckCustomer, ReadsAs, Fault, CustomerExists
<1>5. CASE Kind(r) \in {"credit", "customer"} /\ CreateCustomer(r)
  BY <1>5, ZenonT(40) DEF CreateCustomer, CustomerExists
<1>6. CASE Kind(r) \in {"credit"} /\ ReloadCustomer(r)
  BY <1>6, ZenonT(40) DEF ReloadCustomer, ReadsAs, Fault
<1>7. CASE Kind(r) \in {"customer"} /\ LoadAccountConfig(r)
  BY <1>7 DEF LoadAccountConfig, Finish
<1>8. CASE Kind(r) \in {"credit", "customer"} /\ GetAccountByCustomerNo(r)
  BY <1>8
<1>9. CASE Kind(r) \in {"credit", "customer", "openAccount"} /\ CreateAccount(r)
  BY <1>9
<1>10. CASE Kind(r) \in {"credit", "customer", "openAccount"} /\ AccountNoTaken(r)
  BY <1>10 DEF AccountNoTaken
<1>11. CASE Kind(r) \in {"credit", "debit", "transfer"} /\ Route(r)
  BY <1>11
<1>12. CASE Kind(r) \in {"credit", "debit", "transfer"} /\ ValidateSubmit(r)
  BY ZenonT(40), <1>12 DEF ValidateSubmit, Fault
<1>13. CASE Kind(r) \in TxnKinds /\ CreateTransferTxn(r)
  BY <1>13 DEF CreateTransferTxn, Finish
<1>14. CASE Kind(r) \in {"debit", "transfer"} /\ LocateDebit(r)
  BY <1>14
<1>15. CASE Kind(r) \in {"debit", "transfer"} /\ LocateCredit(r)
  BY <1>15
<1>16. CASE Kind(r) \in {"refund"} /\ RefundOrigin(r)
  BY <1>16
<1>17. CASE Kind(r) \in {"refund"} /\ ValidateRefund(r)
  BY ZenonT(40), <1>17 DEF ValidateRefund, Fault
<1>18. CASE Kind(r) \in {"customer"} /\ StartCustomer(r)
  BY <1>18 DEF StartCustomer
<1>19. CASE Kind(r) \in {"openAccount"} /\ FindOwner(r)
  BY <1>19 DEF FindOwner, ReadsAs, Fault
<1>20. CASE Kind(r) \in {"features"} /\ PatchFeatures(r)
  BY <1>20 DEF PatchFeatures, handleAdminPatchMerchantFeatures, Finish
<1>21. CASE Kind(r) \in {"capability"} /\ PatchFlags(r)
  BY ZenonT(40), <1>21
  DEF PatchFlags, handleAdminPatchAccountCapability, PatchCapability, Finish, ReadsAs, Fault
<1>22. CASE audit(r)
  BY <1>22, ZenonT(40) DEF audit, Fault
<1>23. CASE Apply(r)
  BY <1>23 DEF Apply
<1>24. CASE Abandon(r)
  BY <1>24 DEF Abandon, Fault
<1> QED
  BY ZenonT(40), <1>1, <1>2, <1>3, <1>4, <1>5, <1>6, <1>7, <1>8, <1>9, <1>10, <1>11, <1>12,
     <1>13, <1>14,
     <1>15, <1>16, <1>17, <1>18, <1>19, <1>20, <1>21, <1>22, <1>23, <1>24
  DEF Move

\* The steps that choose the customer.
LEMMA Finders ==
  ASSUME NEW r \in Requests, Move(r)
  PROVE  \/ UNCHANGED cust
         \/ Kind(r) \in {"credit"} /\ (GetCustomer(r) \/ ReloadCustomer(r))
         \/ Kind(r) \in {"credit", "customer"} /\ CreateCustomer(r)
         \/ Kind(r) \in {"openAccount"} /\ FindOwner(r)
<1> USE DEF locals
<1>1. CASE Kind(r) \in {"credit"} /\ CreditStart(r)
  BY <1>1, ZenonT(40) DEF CreditStart, Locate
<1>2. CASE Kind(r) \in {"credit"} /\ LoadFeatureConfig(r)
  BY <1>2 DEF LoadFeatureConfig, Locate
<1>3. CASE Kind(r) \in {"credit"} /\ GetCustomer(r)
  BY <1>3
<1>4. CASE Kind(r) \in {"credit", "customer"} /\ RecheckCustomer(r)
  BY ZenonT(40), <1>4 DEF RecheckCustomer, ReadsAs, Fault, CustomerExists, Locate
<1>5. CASE Kind(r) \in {"credit", "customer"} /\ CreateCustomer(r)
  BY <1>5
<1>6. CASE Kind(r) \in {"credit"} /\ ReloadCustomer(r)
  BY <1>6, ZenonT(40)
<1>7. CASE Kind(r) \in {"customer"} /\ LoadAccountConfig(r)
  BY <1>7 DEF LoadAccountConfig, Finish, Locate
<1>8. CASE Kind(r) \in {"credit", "customer"} /\ GetAccountByCustomerNo(r)
  BY <1>8 DEF GetAccountByCustomerNo, ReadsAs, Fault, Finish, Locate
<1>9. CASE Kind(r) \in {"credit", "customer", "openAccount"} /\ CreateAccount(r)
  BY ZenonT(40), <1>9 DEF CreateAccount, Finish, Locate
<1>10. CASE Kind(r) \in {"credit", "customer", "openAccount"} /\ AccountNoTaken(r)
  BY <1>10 DEF AccountNoTaken, Fault, Locate
<1>11. CASE Kind(r) \in {"credit", "debit", "transfer"} /\ Route(r)
  BY <1>11 DEF Route, Fault, Locate
<1>12. CASE Kind(r) \in {"credit", "debit", "transfer"} /\ ValidateSubmit(r)
  BY ZenonT(40), <1>12 DEF ValidateSubmit, Fault, Locate
<1>13. CASE Kind(r) \in TxnKinds /\ CreateTransferTxn(r)
  BY <1>13 DEF CreateTransferTxn, Finish, Locate
<1>14. CASE Kind(r) \in {"debit", "transfer"} /\ LocateDebit(r)
  BY <1>14 DEF LocateDebit, Locate
<1>15. CASE Kind(r) \in {"debit", "transfer"} /\ LocateCredit(r)
  BY <1>15 DEF LocateCredit, Locate
<1>16. CASE Kind(r) \in {"refund"} /\ RefundOrigin(r)
  BY ZenonT(40), <1>16 DEF RefundOrigin, Fault, Locate
<1>17. CASE Kind(r) \in {"refund"} /\ ValidateRefund(r)
  BY ZenonT(40), <1>17 DEF ValidateRefund, Fault, Locate
<1>18. CASE Kind(r) \in {"customer"} /\ StartCustomer(r)
  BY <1>18 DEF StartCustomer, Locate
<1>19. CASE Kind(r) \in {"openAccount"} /\ FindOwner(r)
  BY <1>19
<1>20. CASE Kind(r) \in {"features"} /\ PatchFeatures(r)
  BY <1>20 DEF PatchFeatures, handleAdminPatchMerchantFeatures, Finish, Locate
<1>21. CASE Kind(r) \in {"capability"} /\ PatchFlags(r)
  BY ZenonT(40), <1>21
  DEF PatchFlags, handleAdminPatchAccountCapability, PatchCapability, Finish, ReadsAs, Fault,
      Locate
<1>22. CASE audit(r)
  BY <1>22 DEF audit, Fault, Locate
<1>23. CASE Apply(r)
  BY ZenonT(40), <1>23 DEF Apply, Locate
<1>24. CASE Abandon(r)
  BY <1>24 DEF Abandon, Fault, Locate
<1> QED
  BY ZenonT(40), <1>1, <1>2, <1>3, <1>4, <1>5, <1>6, <1>7, <1>8, <1>9, <1>10, <1>11, <1>12,
     <1>13, <1>14,
     <1>15, <1>16, <1>17, <1>18, <1>19, <1>20, <1>21, <1>22, <1>23, <1>24
  DEF Move

\* A step of a request leaves the others where they are.
LEMMA Others ==
  ASSUME TypeOK, NEW r \in Requests, Move(r)
  PROVE  \A q \in Requests : q # r =>
           /\ pc'[q] = pc[q] /\ cust'[q] = cust[q] /\ tries'[q] = tries[q]
           /\ debit'[q] = debit[q] /\ credit'[q] = credit[q]
<1> USE DEF TypeOK, locals, Goto
<1>1. CASE Kind(r) \in {"credit"} /\ CreditStart(r)
  BY <1>1 DEF CreditStart, Locate, Finish, CustomerExists
<1>2. CASE Kind(r) \in {"credit"} /\ LoadFeatureConfig(r)
  BY <1>2, ZenonT(40) DEF LoadFeatureConfig, Locate, Finish, CustomerExists
<1>3. CASE Kind(r) \in {"credit"} /\ GetCustomer(r)
  BY <1>3 DEF GetCustomer, ReadsAs, Fault, Locate, Finish, CustomerExists
<1>4. CASE Kind(r) \in {"credit", "customer"} /\ RecheckCustomer(r)
  BY ZenonT(40), <1>4 DEF RecheckCustomer, ReadsAs, Fault, CustomerExists, Locate, Finish
<1>5. CASE Kind(r) \in {"credit", "customer"} /\ CreateCustomer(r)
  BY ZenonT(40), <1>5 DEF CreateCustomer, CustomerExists, Locate, Finish
<1>6. CASE Kind(r) \in {"credit"} /\ ReloadCustomer(r)
  BY <1>6, ZenonT(40) DEF ReloadCustomer, ReadsAs, Fault, Locate, Finish, CustomerExists
<1>7. CASE Kind(r) \in {"customer"} /\ LoadAccountConfig(r)
  BY <1>7 DEF LoadAccountConfig, Finish, Locate, CustomerExists
<1>8. CASE Kind(r) \in {"credit", "customer"} /\ GetAccountByCustomerNo(r)
  BY <1>8 DEF GetAccountByCustomerNo, ReadsAs, Fault, Finish, Locate, CustomerExists
<1>9. CASE Kind(r) \in {"credit", "customer", "openAccount"} /\ CreateAccount(r)
  <2>1. \A q \in Requests : q # r => pc'[q] = pc[q]
    BY <1>9, Opened
  <2>2. UNCHANGED <<cust, tries, debit>>
    BY ZenonT(40), <1>9 DEF CreateAccount
  <2>3. \E n : credit' = [credit EXCEPT ![r] = n]
    BY ZenonT(40), <1>9 DEF CreateAccount
  <2>4. \A q \in Requests : q # r => credit'[q] = credit[q]
    BY <2>3
  <2> QED  BY ZenonT(40), <2>1, <2>2, <2>4
<1>10. CASE Kind(r) \in {"credit", "customer", "openAccount"} /\ AccountNoTaken(r)
  BY <1>10 DEF AccountNoTaken, Fault, Locate, Finish, CustomerExists
<1>11. CASE Kind(r) \in {"credit", "debit", "transfer"} /\ Route(r)
  BY <1>11, ZenonT(40) DEF Route, Fault, Locate, Finish, CustomerExists
<1>12. CASE Kind(r) \in {"credit", "debit", "transfer"} /\ ValidateSubmit(r)
  BY <1>12, ZenonT(40) DEF ValidateSubmit, Fault, Locate, Finish, CustomerExists
<1>13. CASE Kind(r) \in TxnKinds /\ CreateTransferTxn(r)
  BY <1>13 DEF CreateTransferTxn, Finish, Locate, CustomerExists
<1>14. CASE Kind(r) \in {"debit", "transfer"} /\ LocateDebit(r)
  BY ZenonT(40), <1>14 DEF LocateDebit, Locate, Finish, CustomerExists
<1>15. CASE Kind(r) \in {"debit", "transfer"} /\ LocateCredit(r)
  BY <1>15 DEF LocateCredit, Locate, Finish, CustomerExists
<1>16. CASE Kind(r) \in {"refund"} /\ RefundOrigin(r)
  BY ZenonT(40), <1>16 DEF RefundOrigin, Fault, Locate, Finish, CustomerExists
<1>17. CASE Kind(r) \in {"refund"} /\ ValidateRefund(r)
  BY <1>17 DEF ValidateRefund, Fault, Locate, Finish, CustomerExists
<1>18. CASE Kind(r) \in {"customer"} /\ StartCustomer(r)
  BY <1>18, ZenonT(40) DEF StartCustomer, Locate, Finish, CustomerExists
<1>19. CASE Kind(r) \in {"openAccount"} /\ FindOwner(r)
  BY <1>19, ZenonT(40) DEF FindOwner, ReadsAs, Fault, Locate, Finish, CustomerExists
<1>20. CASE Kind(r) \in {"features"} /\ PatchFeatures(r)
  BY <1>20 DEF PatchFeatures, handleAdminPatchMerchantFeatures, Finish, Locate, CustomerExists
<1>21. CASE Kind(r) \in {"capability"} /\ PatchFlags(r)
  BY ZenonT(40), <1>21
  DEF PatchFlags, handleAdminPatchAccountCapability, PatchCapability, Finish, ReadsAs, Fault,
      Locate, CustomerExists
<1>22. CASE audit(r)
  BY <1>22 DEF audit, Fault, Locate, Finish, CustomerExists
<1>23. CASE Apply(r)
  BY ZenonT(40), <1>23 DEF Apply, Locate, Finish, CustomerExists
<1>24. CASE Abandon(r)
  BY <1>24 DEF Abandon, Fault, Locate, Finish, CustomerExists
<1> QED
  BY ZenonT(40), <1>1, <1>2, <1>3, <1>4, <1>5, <1>6, <1>7, <1>8, <1>9, <1>10, <1>11, <1>12,
     <1>13, <1>14,
     <1>15, <1>16, <1>17, <1>18, <1>19, <1>20, <1>21, <1>22, <1>23, <1>24
  DEF Move

\* A request that has its answer moves no more.
LEMMA Runs ==
  ASSUME NEW r \in Requests, Move(r)
  PROVE  pc[r] \in Steps \/ UNCHANGED <<pc, locals>>
<1> USE DEF Steps, At
<1>1. CASE Kind(r) \in {"credit"} /\ CreditStart(r)
  BY <1>1, ZenonT(40) DEF CreditStart, Locate
<1>2. CASE Kind(r) \in {"credit"} /\ LoadFeatureConfig(r)
  BY <1>2 DEF LoadFeatureConfig
<1>3. CASE Kind(r) \in {"credit"} /\ GetCustomer(r)
  BY ZenonT(40), <1>3 DEF GetCustomer, ReadsAs, Fault
<1>4. CASE Kind(r) \in {"credit", "customer"} /\ RecheckCustomer(r)
  BY <1>4 DEF RecheckCustomer, ReadsAs, Fault, CustomerExists
<1>5. CASE Kind(r) \in {"credit", "customer"} /\ CreateCustomer(r)
  BY <1>5, ZenonT(40) DEF CreateCustomer, CustomerExists
<1>6. CASE Kind(r) \in {"credit"} /\ ReloadCustomer(r)
  BY <1>6 DEF ReloadCustomer, ReadsAs, Fault
<1>7. CASE Kind(r) \in {"customer"} /\ LoadAccountConfig(r)
  BY <1>7 DEF LoadAccountConfig, Finish
<1>8. CASE Kind(r) \in {"credit", "customer"} /\ GetAccountByCustomerNo(r)
  BY <1>8 DEF GetAccountByCustomerNo, ReadsAs, Fault, Finish
<1>9. CASE Kind(r) \in {"credit", "customer", "openAccount"} /\ CreateAccount(r)
  BY ZenonT(40), <1>9 DEF CreateAccount, Finish
<1>10. CASE Kind(r) \in {"credit", "customer", "openAccount"} /\ AccountNoTaken(r)
  BY <1>10 DEF AccountNoTaken
<1>11. CASE Kind(r) \in {"credit", "debit", "transfer"} /\ Route(r)
  BY <1>11 DEF Route, Fault
<1>12. CASE Kind(r) \in {"credit", "debit", "transfer"} /\ ValidateSubmit(r)
  BY ZenonT(40), <1>12 DEF ValidateSubmit, Fault
<1>13. CASE Kind(r) \in TxnKinds /\ CreateTransferTxn(r)
  BY <1>13 DEF CreateTransferTxn, Finish
<1>14. CASE Kind(r) \in {"debit", "transfer"} /\ LocateDebit(r)
  BY ZenonT(40), <1>14 DEF LocateDebit, Locate
<1>15. CASE Kind(r) \in {"debit", "transfer"} /\ LocateCredit(r)
  BY <1>15 DEF LocateCredit, Locate
<1>16. CASE Kind(r) \in {"refund"} /\ RefundOrigin(r)
  BY ZenonT(40), <1>16 DEF RefundOrigin, Fault
<1>17. CASE Kind(r) \in {"refund"} /\ ValidateRefund(r)
  BY <1>17 DEF ValidateRefund, Fault
<1>18. CASE Kind(r) \in {"customer"} /\ StartCustomer(r)
  BY <1>18 DEF StartCustomer
<1>19. CASE Kind(r) \in {"openAccount"} /\ FindOwner(r)
  BY <1>19, ZenonT(40) DEF FindOwner, ReadsAs, Fault
<1>20. CASE Kind(r) \in {"features"} /\ PatchFeatures(r)
  BY <1>20 DEF PatchFeatures, handleAdminPatchMerchantFeatures, Finish
<1>21. CASE Kind(r) \in {"capability"} /\ PatchFlags(r)
  BY ZenonT(40), <1>21
  DEF PatchFlags, handleAdminPatchAccountCapability, PatchCapability, Finish, ReadsAs, Fault
<1>22. CASE audit(r)
  BY <1>22 DEF audit, Fault
<1>23. CASE Apply(r)
  BY ZenonT(40), <1>23 DEF Apply
<1>24. CASE Abandon(r)
  BY <1>24 DEF Abandon, Fault
<1> QED
  BY ZenonT(40), <1>1, <1>2, <1>3, <1>4, <1>5, <1>6, <1>7, <1>8, <1>9, <1>10, <1>11, <1>12,
     <1>13, <1>14,
     <1>15, <1>16, <1>17, <1>18, <1>19, <1>20, <1>21, <1>22, <1>23, <1>24
  DEF Move

\* Only a number that is taken counts as a try.
LEMMA Counters ==
  ASSUME NEW r \in Requests, Move(r)
  PROVE  UNCHANGED tries \/ AccountNoTaken(r)
<1> USE DEF locals
<1>1. CASE Kind(r) \in {"credit"} /\ CreditStart(r)
  BY <1>1 DEF CreditStart, Locate
<1>2. CASE Kind(r) \in {"credit"} /\ LoadFeatureConfig(r)
  BY <1>2 DEF LoadFeatureConfig, Locate
<1>3. CASE Kind(r) \in {"credit"} /\ GetCustomer(r)
  BY <1>3 DEF GetCustomer, ReadsAs, Fault, Locate
<1>4. CASE Kind(r) \in {"credit", "customer"} /\ RecheckCustomer(r)
  BY <1>4, ZenonT(40) DEF RecheckCustomer, ReadsAs, Fault, CustomerExists, Locate
<1>5. CASE Kind(r) \in {"credit", "customer"} /\ CreateCustomer(r)
  BY <1>5 DEF CreateCustomer, CustomerExists, Locate
<1>6. CASE Kind(r) \in {"credit"} /\ ReloadCustomer(r)
  BY <1>6 DEF ReloadCustomer, ReadsAs, Fault, Locate
<1>7. CASE Kind(r) \in {"customer"} /\ LoadAccountConfig(r)
  BY <1>7 DEF LoadAccountConfig, Finish, Locate
<1>8. CASE Kind(r) \in {"credit", "customer"} /\ GetAccountByCustomerNo(r)
  BY <1>8 DEF GetAccountByCustomerNo, ReadsAs, Fault, Finish, Locate
<1>9. CASE Kind(r) \in {"credit", "customer", "openAccount"} /\ CreateAccount(r)
  BY ZenonT(40), <1>9 DEF CreateAccount, Finish, Locate
<1>10. CASE Kind(r) \in {"credit", "customer", "openAccount"} /\ AccountNoTaken(r)
  BY <1>10
<1>11. CASE Kind(r) \in {"credit", "debit", "transfer"} /\ Route(r)
  BY <1>11 DEF Route, Fault, Locate
<1>12. CASE Kind(r) \in {"credit", "debit", "transfer"} /\ ValidateSubmit(r)
  BY ZenonT(40), <1>12 DEF ValidateSubmit, Fault, Locate
<1>13. CASE Kind(r) \in TxnKinds /\ CreateTransferTxn(r)
  BY <1>13 DEF CreateTransferTxn, Finish, Locate
<1>14. CASE Kind(r) \in {"debit", "transfer"} /\ LocateDebit(r)
  BY <1>14 DEF LocateDebit, Locate
<1>15. CASE Kind(r) \in {"debit", "transfer"} /\ LocateCredit(r)
  BY <1>15 DEF LocateCredit, Locate
<1>16. CASE Kind(r) \in {"refund"} /\ RefundOrigin(r)
  BY ZenonT(40), <1>16 DEF RefundOrigin, Fault, Locate
<1>17. CASE Kind(r) \in {"refund"} /\ ValidateRefund(r)
  BY ZenonT(40), <1>17 DEF ValidateRefund, Fault, Locate
<1>18. CASE Kind(r) \in {"customer"} /\ StartCustomer(r)
  BY <1>18 DEF StartCustomer, Locate
<1>19. CASE Kind(r) \in {"openAccount"} /\ FindOwner(r)
  BY <1>19 DEF FindOwner, ReadsAs, Fault, Locate
<1>20. CASE Kind(r) \in {"features"} /\ PatchFeatures(r)
  BY <1>20 DEF PatchFeatures, handleAdminPatchMerchantFeatures, Finish, Locate
<1>21. CASE Kind(r) \in {"capability"} /\ PatchFlags(r)
  BY ZenonT(40), <1>21
  DEF PatchFlags, handleAdminPatchAccountCapability, PatchCapability, Finish, ReadsAs, Fault,
      Locate
<1>22. CASE audit(r)
  BY <1>22, ZenonT(40) DEF audit, Fault, Locate
<1>23. CASE Apply(r)
  BY <1>23, ZenonT(40) DEF Apply, Locate
<1>24. CASE Abandon(r)
  BY <1>24 DEF Abandon, Fault, Locate
<1> QED
  BY ZenonT(40), <1>1, <1>2, <1>3, <1>4, <1>5, <1>6, <1>7, <1>8, <1>9, <1>10, <1>11, <1>12,
     <1>13, <1>14,
     <1>15, <1>16, <1>17, <1>18, <1>19, <1>20, <1>21, <1>22, <1>23, <1>24
  DEF Move

\* A request looks for the customer of a user it has.
LEMMA Asks ==
  ASSUME TypeOK, Asking, NEW r \in Requests, Move(r)
  PROVE  pc'[r] \in {"ensure", "lookup", "recheck", "insertCustomer", "reload"} => Req[r].creditUser # None
<1> USE FieldsAssumption DEF TypeOK, Asking, Goto, At, Steps, Answers
<1>1. CASE Kind(r) \in {"credit"} /\ CreditStart(r)
  BY <1>1 DEF CreditStart, Locate, Kind, Finish, CustomerExists, SideAnswer
<1>2. CASE Kind(r) \in {"credit"} /\ LoadFeatureConfig(r)
  BY ZenonT(40), <1>2 DEF LoadFeatureConfig, Kind, Finish, CustomerExists, SideAnswer
<1>3. CASE Kind(r) \in {"credit"} /\ GetCustomer(r)
  BY ZenonT(40), <1>3 DEF GetCustomer, ReadsAs, Fault, Kind, Finish, CustomerExists, SideAnswer
<1>4. CASE Kind(r) \in {"credit", "customer"} /\ RecheckCustomer(r)
  BY ZenonT(40), <1>4 DEF RecheckCustomer, ReadsAs, Fault, CustomerExists, Kind, Finish, SideAnswer
<1>5. CASE Kind(r) \in {"credit", "customer"} /\ CreateCustomer(r)
  BY ZenonT(40), <1>5 DEF CreateCustomer, CustomerExists, Kind, Finish, SideAnswer
<1>6. CASE Kind(r) \in {"credit"} /\ ReloadCustomer(r)
  BY ZenonT(40), <1>6 DEF ReloadCustomer, ReadsAs, Fault, Kind, Finish, CustomerExists, SideAnswer
<1>7. CASE Kind(r) \in {"customer"} /\ LoadAccountConfig(r)
  BY ZenonT(40), <1>7 DEF LoadAccountConfig, Finish, Kind, CustomerExists, SideAnswer
<1>8. CASE Kind(r) \in {"credit", "customer"} /\ GetAccountByCustomerNo(r)
  BY <1>8 DEF GetAccountByCustomerNo, ReadsAs, Fault, Finish, Kind, CustomerExists, SideAnswer
<1>9. CASE Kind(r) \in {"credit", "customer", "openAccount"} /\ CreateAccount(r)
  BY ZenonT(40), <1>9, Opened
<1>10. CASE Kind(r) \in {"credit", "customer", "openAccount"} /\ AccountNoTaken(r)
  BY <1>10 DEF AccountNoTaken, Fault, Kind, Finish, CustomerExists, SideAnswer
<1>11. CASE Kind(r) \in {"credit", "debit", "transfer"} /\ Route(r)
  BY <1>11 DEF Route, Fault, Kind, Finish, CustomerExists, SideAnswer
<1>12. CASE Kind(r) \in {"credit", "debit", "transfer"} /\ ValidateSubmit(r)
  BY ZenonT(40), <1>12 DEF ValidateSubmit, Fault, Kind, Finish, CustomerExists, SideAnswer
<1>13. CASE Kind(r) \in TxnKinds /\ CreateTransferTxn(r)
  BY ZenonT(40), <1>13 DEF CreateTransferTxn, Finish, Kind, CustomerExists, SideAnswer
<1>14. CASE Kind(r) \in {"debit", "transfer"} /\ LocateDebit(r)
  BY <1>14 DEF LocateDebit, Locate, Kind, Finish, CustomerExists, SideAnswer
<1>15. CASE Kind(r) \in {"debit", "transfer"} /\ LocateCredit(r)
  BY <1>15 DEF LocateCredit, Locate, Kind, Finish, CustomerExists, SideAnswer
<1>16. CASE Kind(r) \in {"refund"} /\ RefundOrigin(r)
  BY ZenonT(40), <1>16 DEF RefundOrigin, Fault, Kind, Finish, CustomerExists, SideAnswer
<1>17. CASE Kind(r) \in {"refund"} /\ ValidateRefund(r)
  BY ZenonT(40), <1>17 DEF ValidateRefund, Fault, Kind, Finish, CustomerExists, SideAnswer
<1>18. CASE Kind(r) \in {"customer"} /\ StartCustomer(r)
  BY ZenonT(40), <1>18 DEF StartCustomer, Kind, Finish, CustomerExists, SideAnswer
<1>19. CASE Kind(r) \in {"openAccount"} /\ FindOwner(r)
  BY <1>19 DEF FindOwner, ReadsAs, Fault, Kind, Finish, CustomerExists, SideAnswer
<1>20. CASE Kind(r) \in {"features"} /\ PatchFeatures(r)
  BY ZenonT(40), <1>20
  DEF PatchFeatures, handleAdminPatchMerchantFeatures, Finish, Kind, CustomerExists, SideAnswer
<1>21. CASE Kind(r) \in {"capability"} /\ PatchFlags(r)
  BY ZenonT(40), <1>21
  DEF PatchFlags, handleAdminPatchAccountCapability, PatchCapability, Finish, ReadsAs, Fault,
      Kind, CustomerExists, SideAnswer
<1>22. CASE audit(r)
  BY ZenonT(40), <1>22 DEF audit, Fault, Kind, Finish, CustomerExists, SideAnswer
<1>23. CASE Apply(r)
  BY ZenonT(40), <1>23 DEF Apply, Kind, Finish, CustomerExists, SideAnswer
<1>24. CASE Abandon(r)
  BY ZenonT(40), <1>24 DEF Abandon, Fault, Kind, Finish, CustomerExists, SideAnswer
<1> QED
  BY ZenonT(40), <1>1, <1>2, <1>3, <1>4, <1>5, <1>6, <1>7, <1>8, <1>9, <1>10, <1>11, <1>12,
     <1>13, <1>14,
     <1>15, <1>16, <1>17, <1>18, <1>19, <1>20, <1>21, <1>22, <1>23, <1>24
  DEF Move

\* A credit that looks for an account has a customer.
LEMMA Opens ==
  ASSUME TypeOK, Opening, NEW r \in Requests, Move(r)
  PROVE  pc'[r] \in {"account", "open"} /\ Kind(r) = "credit" => cust'[r] # None
<1> USE NamesAssumption DEF TypeOK, Opening, Goto, At, tables, locals
<1>1. CASE Kind(r) \in {"credit"} /\ CreditStart(r)
  BY <1>1 DEF CreditStart, Locate, Finish, CustomerExists, SideAnswer
<1>2. CASE Kind(r) \in {"credit"} /\ LoadFeatureConfig(r)
  BY <1>2, ZenonT(40) DEF LoadFeatureConfig, Finish, CustomerExists, Locate, SideAnswer
<1>3. CASE Kind(r) \in {"credit"} /\ GetCustomer(r)
  BY <1>3 DEF GetCustomer, ReadsAs, Fault, Finish, CustomerExists, Locate, SideAnswer
<1>4. CASE Kind(r) \in {"credit", "customer"} /\ RecheckCustomer(r)
  <2>1. \E s \in {"reload", "DUPLICATE", "insertCustomer"} : pc' = [pc EXCEPT ![r] = s]
    BY ZenonT(40), <1>4 DEF RecheckCustomer, CustomerExists
  <2>2. pc'[r] \in {"reload", "DUPLICATE", "insertCustomer"}
    BY <2>1
  <2> QED  BY ZenonT(40), <2>2
<1>5. CASE Kind(r) \in {"credit", "customer"} /\ CreateCustomer(r)
  <2>1. CASE CustomerExists(r)
    <3>1. \E s \in {"reload", "DUPLICATE"} : pc' = [pc EXCEPT ![r] = s]
      BY ZenonT(40), <2>1 DEF CustomerExists
    <3>2. pc'[r] \in {"reload", "DUPLICATE"}
      BY <3>1
    <3> QED  BY ZenonT(40), <3>2
  <2>2. CASE cust' = [cust EXCEPT ![r] = r]
    <3>1. cust'[r] = r /\ r # None
      BY <2>2, ZenonT(40)
    <3> QED  BY ZenonT(40), <3>1
  <2> QED  BY ZenonT(40), <1>5, <2>1, <2>2 DEF CreateCustomer
<1>6. CASE Kind(r) \in {"credit"} /\ ReloadCustomer(r)
  BY <1>6 DEF ReloadCustomer, ReadsAs, Fault, Finish, CustomerExists, Locate, SideAnswer
<1>7. CASE Kind(r) \in {"customer"} /\ LoadAccountConfig(r)
  BY <1>7 DEF LoadAccountConfig, Finish, CustomerExists, Locate, SideAnswer
<1>8. CASE Kind(r) \in {"credit", "customer"} /\ GetAccountByCustomerNo(r)
  BY <1>8 DEF GetAccountByCustomerNo, ReadsAs, Fault, Finish, CustomerExists, Locate, SideAnswer
<1>9. CASE Kind(r) \in {"credit", "customer", "openAccount"} /\ CreateAccount(r)
  BY ZenonT(40), <1>9 DEF CreateAccount, Finish, CustomerExists, Locate, SideAnswer
<1>10. CASE Kind(r) \in {"credit", "customer", "openAccount"} /\ AccountNoTaken(r)
  BY <1>10 DEF AccountNoTaken, Fault, Finish, CustomerExists, Locate, SideAnswer
<1>11. CASE Kind(r) \in {"credit", "debit", "transfer"} /\ Route(r)
  BY <1>11 DEF Route, Fault, Finish, CustomerExists, Locate, SideAnswer
<1>12. CASE Kind(r) \in {"credit", "debit", "transfer"} /\ ValidateSubmit(r)
  <2>1. \E s \in {"insert", "INTERNAL"} : pc' = [pc EXCEPT ![r] = s]
    BY ZenonT(40), <1>12 DEF ValidateSubmit
  <2>2. pc'[r] \in {"insert", "INTERNAL"}
    BY <2>1, ZenonT(40)
  <2> QED  BY <2>2
<1>13. CASE Kind(r) \in TxnKinds /\ CreateTransferTxn(r)
  <2>1. \E s \in {"audit", "SUCCESS", "DUPLICATE", "INTERNAL"} : pc' = [pc EXCEPT ![r] = s]
    BY ZenonT(40), <1>13 DEF CreateTransferTxn, Finish, Goto
  <2>2. pc'[r] \in {"audit", "SUCCESS", "DUPLICATE", "INTERNAL"}
    BY <2>1
  <2> QED  BY <2>2
<1>14. CASE Kind(r) \in {"debit", "transfer"} /\ LocateDebit(r)
  BY <1>14 DEF LocateDebit, Locate, Finish, CustomerExists, SideAnswer
<1>15. CASE Kind(r) \in {"debit", "transfer"} /\ LocateCredit(r)
  BY <1>15 DEF LocateCredit, Locate, Finish, CustomerExists, SideAnswer
<1>16. CASE Kind(r) \in {"refund"} /\ RefundOrigin(r)
  BY ZenonT(40), <1>16 DEF RefundOrigin, Fault, Finish, CustomerExists, Locate, SideAnswer
<1>17. CASE Kind(r) \in {"refund"} /\ ValidateRefund(r)
  BY <1>17, ZenonT(40) DEF ValidateRefund, Fault, Finish, CustomerExists, Locate, SideAnswer
<1>18. CASE Kind(r) \in {"customer"} /\ StartCustomer(r)
  BY <1>18, ZenonT(40) DEF StartCustomer, Finish, CustomerExists, Locate, SideAnswer
<1>19. CASE Kind(r) \in {"openAccount"} /\ FindOwner(r)
  BY <1>19 DEF FindOwner, ReadsAs, Fault, Finish, CustomerExists, Locate, SideAnswer
<1>20. CASE Kind(r) \in {"features"} /\ PatchFeatures(r)
  BY ZenonT(40), <1>20
  DEF PatchFeatures, handleAdminPatchMerchantFeatures, Finish, CustomerExists, Locate, SideAnswer
<1>21. CASE Kind(r) \in {"capability"} /\ PatchFlags(r)
  BY ZenonT(40), <1>21
  DEF PatchFlags, handleAdminPatchAccountCapability, PatchCapability, Finish, ReadsAs, Fault,
      CustomerExists, Locate, SideAnswer
<1>22. CASE audit(r)
  BY <1>22 DEF audit, Fault, Finish, CustomerExists, Locate, SideAnswer
<1>23. CASE Apply(r)
  BY ZenonT(40), <1>23 DEF Apply, Finish, CustomerExists, Locate, SideAnswer
<1>24. CASE Abandon(r)
  BY <1>24 DEF Abandon, Fault, Finish, CustomerExists, Locate, SideAnswer
<1> QED
  BY ZenonT(40), <1>1, <1>2, <1>3, <1>4, <1>5, <1>6, <1>7, <1>8, <1>9, <1>10, <1>11, <1>12,
     <1>13, <1>14,
     <1>15, <1>16, <1>17, <1>18, <1>19, <1>20, <1>21, <1>22, <1>23, <1>24
  DEF Move

\* What the service has written about a customer, an account or a transaction stays.
Lasting ==
  /\ \A k \in Keys : customerNo[k] # None => customerNo'[k] = customerNo[k]
  /\ \A k \in Keys : defaultNo[k] # None => defaultNo'[k] = defaultNo[k]
  /\ \A n \in Numbers : merchantOf[n] # None => merchantOf'[n] = merchantOf[n] /\ ownerOf'[n] = ownerOf[n]
  /\ \A k \in Merchants \X OutTradeNos : txn[k] # None => txn'[k] = txn[k]
  /\ \A q \in Requests : phase[q] # "PENDING" => phase'[q] # "PENDING"

\* No step takes any of it back.
LEMMA Lasts ==
  ASSUME TypeOK, Asking, NEW r \in Requests, Move(r)
  PROVE  Lasting
<1>1. CASE UNCHANGED <<customerNo, defaultNo, merchantOf, ownerOf, txn, phase>>
  BY ZenonT(40), <1>1 DEF Lasting
<1>2. CASE CreateCustomer(r)
  <2>1. UserKey(r) \in Keys
    BY ZenonT(40), <1>2, Fields DEF CreateCustomer, Asking, At
  <2>2. \A k \in Keys : customerNo[k] # None => customerNo'[k] = customerNo[k]
    BY ZenonT(40), <1>2, <2>1 DEF CreateCustomer, TypeOK
  <2> QED  BY ZenonT(40), <1>2, <2>2 DEF CreateCustomer, Lasting
<1>3. CASE CreateAccount(r)
  <2>1. \A k \in Keys : defaultNo[k] # None => defaultNo'[k] = defaultNo[k]
    BY ZenonT(40), <1>3 DEF CreateAccount, SetDefault
  <2>2. \A n \in Numbers : merchantOf[n] # None => merchantOf'[n] = merchantOf[n] /\ ownerOf'[n] = ownerOf[n]
    BY ZenonT(40), <1>3 DEF CreateAccount, Fresh, TypeOK
  <2> QED  BY ZenonT(40), <1>3, <2>1, <2>2 DEF CreateAccount, Lasting
<1>4. CASE CreateTransferTxn(r)
  <2>1. \A k \in Merchants \X OutTradeNos : txn[k] # None => txn'[k] = txn[k]
    BY ZenonT(40), <1>4, Fields DEF CreateTransferTxn, TypeOK
  <2> QED  BY ZenonT(40), <1>4, <2>1 DEF CreateTransferTxn, Lasting
<1>5. CASE Apply(r)
  <2>1. \A q \in Requests : phase[q] # "PENDING" => phase'[q] # "PENDING"
    BY ZenonT(40), <1>5 DEF Apply, TypeOK
  <2> QED  BY ZenonT(40), <1>5, <2>1 DEF Apply, Lasting
<1> QED  BY <1>1, <1>2, <1>3, <1>4, <1>5, Writers

\* A request whose transaction exists has its answer, and its parties are settled.
LEMMA Settled ==
  ASSUME TypeOK, AnswerIsTrue, NEW r \in Requests, Move(r), NEW o \in Requests, Inserted(o)
  PROVE  UNCHANGED <<debit[o], credit[o]>>
<1>1. pc[o] \in {"SUCCESS", "audit", "LOST", "INTERNAL"}
  BY DEF AnswerIsTrue, Inserted
<1>2. CASE o # r
  BY <1>2, Others
<1>3. CASE o = r /\ UNCHANGED <<debit, credit>>
  BY <1>3, ZenonT(40)
<1>4. CASE o = r /\ ~UNCHANGED <<debit, credit>>
  BY <1>1, <1>4, Lookers
  DEF CreditStart, GetAccountByCustomerNo, CreateAccount, Route, LocateDebit, LocateCredit,
                              RefundOrigin, At
<1> QED  BY <1>2, <1>3, <1>4, ZenonT(40)

\* One step keeps Defaults and Owners.
LEMMA DefaultsStep ==
  ASSUME TypeOK, Asking, Customers, Defaults, Owners, TypeOK', NEW r \in Requests, Move(r)
  PROVE  Defaults' /\ Owners'
<1> USE NamesAssumption
<1>1. Lasting
  BY Lasts, ZenonT(40)
<1>2. ASSUME NEW k \in Keys, defaultNo[k] # None
      PROVE  /\ defaultNo'[k] = defaultNo[k] /\ customerNo'[k] # None
             /\ ownerOf'[defaultNo[k]] = customerNo'[k] /\ merchantOf'[defaultNo[k]] = k[1]
  <2>1. defaultNo[k] \in Numbers /\ k[1] \in Merchants
    BY <1>2 DEF TypeOK, Keys
  <2>2. merchantOf[defaultNo[k]] # None
    BY ZenonT(40), <1>2, <2>1 DEF Defaults
  <2> QED  BY <1>1, <1>2, <2>1, <2>2 DEF Lasting, Defaults
<1>3. ASSUME NEW k \in Keys, defaultNo[k] = None, defaultNo'[k] # None
      PROVE  /\ customerNo'[k] # None
             /\ ownerOf'[defaultNo'[k]] = customerNo'[k] /\ merchantOf'[defaultNo'[k]] = k[1]
  <2>1. CreateAccount(r)
    BY ZenonT(40), <1>3, Writers DEF CreateCustomer, CreateTransferTxn, Apply
  <2>2. k \in KeysOf(Merchant(r), cust[r]) /\ defaultNo'[k] \in Fresh
    BY ZenonT(40), <1>3, <2>1 DEF CreateAccount, SetDefault
  <2>3. ownerOf'[defaultNo'[k]] = cust[r] /\ merchantOf'[defaultNo'[k]] = Merchant(r)
    <3>1. PICK f \in Fresh : /\ ownerOf' = [ownerOf EXCEPT ![f] = cust[r]]
                            /\ merchantOf' = [merchantOf EXCEPT ![f] = Merchant(r)]
                            /\ defaultNo' = SetDefault(Merchant(r), cust[r], f)
      BY ZenonT(40), <2>1 DEF CreateAccount
    <3>2. defaultNo'[k] = f
      BY ZenonT(40), <1>3, <3>1 DEF SetDefault
    <3>3. f \in Numbers
      BY DEF Fresh
    <3> QED  BY <3>1, <3>2, <3>3 DEF TypeOK
  <2> QED  BY ZenonT(40), <2>1, <2>2, <2>3 DEF CreateAccount, KeysOf
<1>4. Defaults'
  BY ZenonT(40), <1>2, <1>3 DEF Defaults
<1>5. ASSUME NEW n \in Numbers, ownerOf[n] # None
      PROVE  \E k \in Keys : customerNo'[k] = ownerOf'[n] /\ merchantOf'[n] = k[1] /\ defaultNo'[k] # None
  <2>1. PICK k \in Keys : customerNo[k] = ownerOf[n] /\ merchantOf[n] = k[1] /\ defaultNo[k] # None
    BY <1>5, ZenonT(40) DEF Owners
  <2>2. merchantOf[n] # None
    BY <2>1 DEF Keys
  <2> QED  BY ZenonT(40), <1>1, <1>5, <2>1, <2>2 DEF Lasting
<1>6. ASSUME NEW n \in Numbers, ownerOf[n] = None, ownerOf'[n] # None
      PROVE  \E k \in Keys : customerNo'[k] = ownerOf'[n] /\ merchantOf'[n] = k[1] /\ defaultNo'[k] # None
  <2>1. CreateAccount(r)
    BY ZenonT(40), <1>6, Writers DEF CreateCustomer, CreateTransferTxn, Apply
  <2>a. PICK f \in Fresh : /\ ownerOf' = [ownerOf EXCEPT ![f] = cust[r]]
                          /\ merchantOf' = [merchantOf EXCEPT ![f] = Merchant(r)]
                          /\ defaultNo' = SetDefault(Merchant(r), cust[r], f)
    BY ZenonT(40), <2>1 DEF CreateAccount
  <2>b. f = n
    BY <1>6, <2>a, ZenonT(40) DEF TypeOK
  <2>2. ownerOf'[n] = cust[r] /\ merchantOf'[n] = Merchant(r) /\ defaultNo' = SetDefault(Merchant(r), cust[r], n)
    BY <2>a, <2>b DEF TypeOK
  <2>3. PICK k \in Keys : k[1] = Merchant(r) /\ customerNo[k] = cust[r]
    BY ZenonT(40), <1>6, <2>2 DEF Customers
  <2>4. k \in KeysOf(Merchant(r), cust[r])
    BY ZenonT(40), <1>6, <2>2, <2>3 DEF KeysOf
  <2>5. defaultNo'[k] # None
    BY <2>2, <2>4, ZenonT(40) DEF SetDefault
  <2> QED  BY ZenonT(40), <2>1, <2>2, <2>3, <2>5 DEF CreateAccount
<1>7. Owners'
  BY ZenonT(40), <1>5, <1>6 DEF Owners
<1> QED  BY <1>4, <1>7

\* One step keeps Tried.
LEMMA TriedStep ==
  ASSUME TypeOK, Tried, NEW r \in Requests, Move(r)
  PROVE  Tried'
<1>1. ASSUME NEW q \in Requests, q # r, pc'[q] \in Steps PROVE tries'[q] < MaxAttempts
  BY <1>1, Others DEF Tried
<1>2. ASSUME pc'[r] \in Steps PROVE tries'[r] < MaxAttempts
  <2>1. CASE AccountNoTaken(r)
    <3>1. pc[r] = "open" /\ tries'[r] = tries[r] + 1
      BY <2>1, ZenonT(40) DEF AccountNoTaken, At, TypeOK
    <3>2. tries[r] \in 0..MaxAttempts /\ tries[r] < MaxAttempts
      BY <3>1 DEF TypeOK, Tried, Steps
    <3>3. tries'[r] # MaxAttempts
      BY <1>2, <2>1 DEF AccountNoTaken, Goto, TypeOK, Steps
    <3> QED  BY <3>1, <3>2, <3>3, AccountsAssumption
  <2>2. CASE UNCHANGED tries
    BY <1>2, <2>2, Runs DEF Tried, locals
  <2> QED  BY <2>1, <2>2, Counters, ZenonT(40)
<1> QED  BY <1>1, <1>2, ZenonT(40) DEF Tried

\* One step keeps Asking.
LEMMA AskingStep ==
  ASSUME TypeOK, Asking, NEW r \in Requests, Move(r)
  PROVE  Asking'
<1>1. \A q \in Requests : q # r => pc'[q] = pc[q]
  BY Others
<1>2. pc'[r] \in {"ensure", "lookup", "recheck", "insertCustomer", "reload"} => Req[r].creditUser # None
  BY ZenonT(40), Asks
<1> QED  BY ZenonT(40), <1>1, <1>2 DEF Asking

\* One step keeps Opening.
LEMMA OpeningStep ==
  ASSUME TypeOK, Asking, Opening, NEW r \in Requests, Move(r)
  PROVE  Opening'
<1>1. \A q \in Requests : q # r => pc'[q] = pc[q] /\ cust'[q] = cust[q]
  BY ZenonT(40), Others
<1>2. pc'[r] \in {"account", "open"} /\ Kind(r) = "credit" => cust'[r] # None
  BY Opens
<1> QED  BY ZenonT(40), <1>1, <1>2 DEF Opening, Kind

\* One step keeps Customers.
LEMMA CustomersStep ==
  ASSUME TypeOK, Asking, Customers, TypeOK', NEW r \in Requests, Move(r)
  PROVE  Customers'
<1> USE NamesAssumption
<1> DEFINE Row(q) == \E k \in Keys : /\ k[1] = Merchant(q) /\ customerNo'[k] = cust'[q]
                                     /\ Kind(q) = "credit" => k = UserKey(q)
<1>1. Lasting
  BY ZenonT(40), Lasts
<1>2. ASSUME NEW q \in Requests, cust'[q] # None, cust'[q] = cust[q]
      PROVE  Row(q)
  <2>1. PICK k \in Keys : /\ k[1] = Merchant(q) /\ customerNo[k] = cust[q]
                          /\ Kind(q) = "credit" => k = UserKey(q)
    BY ZenonT(40), <1>2 DEF Customers
  <2>2. customerNo'[k] = cust'[q]
    BY ZenonT(40), <1>1, <1>2, <2>1 DEF Lasting
  <2> QED  BY ZenonT(40), <2>1, <2>2
<1>3. ASSUME UserKey(r) \in Keys, customerNo'[UserKey(r)] = cust'[r]
      PROVE  Row(r)
  BY ZenonT(40), <1>3 DEF UserKey
<1> HIDE DEF Row
<1>4. ASSUME GetCustomer(r) \/ ReloadCustomer(r), cust'[r] # None PROVE Row(r)
  <2>1. UserKey(r) \in Keys
    BY ZenonT(40), <1>4, Fields DEF GetCustomer, ReloadCustomer, Asking, At
  <2>2. PICK c \in Requests \cup {None} : ReadsAs(customerNo[UserKey(r)], c) /\ cust' = [cust EXCEPT ![r] = c]
    BY ZenonT(40), <1>4 DEF GetCustomer, ReloadCustomer
  <2>3. cust'[r] = c
    BY <2>2 DEF TypeOK
  <2>4. UNCHANGED customerNo
    BY ZenonT(40), <1>4 DEF GetCustomer, ReloadCustomer, tables
  <2>5. customerNo'[UserKey(r)] = cust'[r]
    BY ZenonT(40), <1>4, <2>2, <2>3, <2>4 DEF ReadsAs
  <2> QED  BY ZenonT(40), <1>3, <2>1, <2>5
<1>5. ASSUME CreateCustomer(r), cust'[r] # None, cust'[r] # cust[r] PROVE Row(r)
  <2>1. UserKey(r) \in Keys
    BY ZenonT(40), <1>5, Fields DEF CreateCustomer, Asking, At
  <2>2. cust' = [cust EXCEPT ![r] = r] /\ customerNo' = [customerNo EXCEPT ![UserKey(r)] = r]
    BY ZenonT(40), <1>5 DEF CreateCustomer
  <2>3. customerNo \in [Keys -> Requests \cup {None}] /\ cust \in [Requests -> Requests \cup {None}]
    BY DEF TypeOK
  <2>4. customerNo'[UserKey(r)] = cust'[r]
    BY <2>1, <2>2, <2>3
  <2> QED  BY ZenonT(40), <1>3, <2>1, <2>4
<1>6. ASSUME Kind(r) = "openAccount", FindOwner(r), cust'[r] # None PROVE Row(r)
  <2>1. UNCHANGED customerNo
    BY ZenonT(40), <1>6 DEF FindOwner, tables
  <2>2. PICK byUser \in Requests \cup {None} :
           /\ IF Req[r].creditUser = None THEN byUser = None /\ UNCHANGED faults
                                          ELSE ReadsAs(customerNo[UserKey(r)], byUser)
           /\ LET byNo == IF KeysOf(Merchant(r), Req[r].ownerNo) # {} THEN Req[r].ownerNo ELSE None
              IN cust' = [cust EXCEPT ![r] = IF byNo # None THEN byNo ELSE byUser]
    BY ZenonT(40), <1>6 DEF FindOwner
  <2>3. cust'[r] = byUser \/ (cust'[r] = Req[r].ownerNo /\ KeysOf(Merchant(r), Req[r].ownerNo) # {})
    BY ZenonT(40), <2>2 DEF TypeOK
  <2>4. byUser = None \/ (UserKey(r) \in Keys /\ customerNo[UserKey(r)] = byUser)
    BY ZenonT(40), <2>2, Fields DEF ReadsAs
  <2>5. CASE cust'[r] = byUser
    BY ZenonT(40), <1>3, <1>6, <2>1, <2>4, <2>5
  <2>6. CASE KeysOf(Merchant(r), cust'[r]) # {}
    <3>1. \E k \in Keys : k[1] = Merchant(r) /\ customerNo'[k] = cust'[r]
      BY ZenonT(40), <2>1, <2>6 DEF KeysOf
    <3>2. Kind(r) # "credit"
      BY <1>6
    <3> QED  BY ZenonT(40), <3>1, <3>2 DEF Row
  <2> QED  BY ZenonT(40), <2>3, <2>5, <2>6
<1>7. cust'[r] # None => Row(r)
  BY ZenonT(40), <1>2, <1>4, <1>5, <1>6, Finders
<1>8. \A q \in Requests : q # r /\ cust'[q] # None => Row(q)
  BY ZenonT(40), <1>2, Others
<1>9. \A q \in Requests : cust'[q] # None => Row(q)
  BY ZenonT(40), <1>7, <1>8
<1> QED  BY ZenonT(40), <1>9 DEF Row, Customers, Kind, Merchant, UserKey

\* A request comes to its insert from a validation.
LEMMA Inserts ==
  ASSUME TypeOK, NEW r \in Requests, Move(r)
  PROVE  pc'[r] = "insert" => ValidateSubmit(r) \/ ValidateRefund(r) \/ UNCHANGED <<pc, locals>>
<1> USE DEF TypeOK, Goto, At
<1>1. CASE Kind(r) \in {"credit"} /\ CreditStart(r)
  BY <1>1 DEF CreditStart, Locate, Kind, Finish, CustomerExists, SideAnswer
<1>2. CASE Kind(r) \in {"credit"} /\ LoadFeatureConfig(r)
  BY ZenonT(40), <1>2 DEF LoadFeatureConfig, Kind, Finish, CustomerExists, SideAnswer
<1>3. CASE Kind(r) \in {"credit"} /\ GetCustomer(r)
  BY ZenonT(40), <1>3 DEF GetCustomer, ReadsAs, Fault, Kind, Finish, CustomerExists, SideAnswer
<1>4. CASE Kind(r) \in {"credit", "customer"} /\ RecheckCustomer(r)
  BY ZenonT(40), <1>4 DEF RecheckCustomer, ReadsAs, Fault, CustomerExists, Kind, Finish, SideAnswer
<1>5. CASE Kind(r) \in {"credit", "customer"} /\ CreateCustomer(r)
  BY ZenonT(40), <1>5 DEF CreateCustomer, CustomerExists, Kind, Finish, SideAnswer
<1>6. CASE Kind(r) \in {"credit"} /\ ReloadCustomer(r)
  BY ZenonT(40), <1>6 DEF ReloadCustomer, ReadsAs, Fault, Kind, Finish, CustomerExists, SideAnswer
<1>7. CASE Kind(r) \in {"customer"} /\ LoadAccountConfig(r)
  BY ZenonT(40), <1>7 DEF LoadAccountConfig, Finish, Kind, CustomerExists, SideAnswer
<1>8. CASE Kind(r) \in {"credit", "customer"} /\ GetAccountByCustomerNo(r)
  BY <1>8 DEF GetAccountByCustomerNo, ReadsAs, Fault, Finish, Kind, CustomerExists, SideAnswer
<1>9. CASE Kind(r) \in {"credit", "customer", "openAccount"} /\ CreateAccount(r)
  BY ZenonT(40), <1>9 DEF CreateAccount, Finish, Kind, CustomerExists, SideAnswer
<1>10. CASE Kind(r) \in {"credit", "customer", "openAccount"} /\ AccountNoTaken(r)
  BY <1>10 DEF AccountNoTaken, Fault, Kind, Finish, CustomerExists, SideAnswer
<1>11. CASE Kind(r) \in {"credit", "debit", "transfer"} /\ Route(r)
  BY <1>11 DEF Route, Fault, Kind, Finish, CustomerExists, SideAnswer
<1>12. CASE Kind(r) \in {"credit", "debit", "transfer"} /\ ValidateSubmit(r)
  BY <1>12, ZenonT(40)
<1>13. CASE Kind(r) \in TxnKinds /\ CreateTransferTxn(r)
  BY <1>13 DEF CreateTransferTxn, Finish, Kind, CustomerExists, SideAnswer
<1>14. CASE Kind(r) \in {"debit", "transfer"} /\ LocateDebit(r)
  BY <1>14 DEF LocateDebit, Locate, Kind, Finish, CustomerExists, SideAnswer
<1>15. CASE Kind(r) \in {"debit", "transfer"} /\ LocateCredit(r)
  BY <1>15 DEF LocateCredit, Locate, Kind, Finish, CustomerExists, SideAnswer
<1>16. CASE Kind(r) \in {"refund"} /\ RefundOrigin(r)
  BY ZenonT(40), <1>16 DEF RefundOrigin, Fault, Kind, Finish, CustomerExists, SideAnswer
<1>17. CASE Kind(r) \in {"refund"} /\ ValidateRefund(r)
  BY <1>17
<1>18. CASE Kind(r) \in {"customer"} /\ StartCustomer(r)
  BY ZenonT(40), <1>18 DEF StartCustomer, Kind, Finish, CustomerExists, SideAnswer
<1>19. CASE Kind(r) \in {"openAccount"} /\ FindOwner(r)
  BY <1>19 DEF FindOwner, ReadsAs, Fault, Kind, Finish, CustomerExists, SideAnswer
<1>20. CASE Kind(r) \in {"features"} /\ PatchFeatures(r)
  BY ZenonT(40), <1>20
  DEF PatchFeatures, handleAdminPatchMerchantFeatures, Finish, Kind, CustomerExists, SideAnswer
<1>21. CASE Kind(r) \in {"capability"} /\ PatchFlags(r)
  BY ZenonT(40), <1>21
  DEF PatchFlags, handleAdminPatchAccountCapability, PatchCapability, Finish, ReadsAs, Fault,
      Kind, CustomerExists, SideAnswer
<1>22. CASE audit(r)
  BY <1>22 DEF audit, Fault, Kind, Finish, CustomerExists, SideAnswer
<1>23. CASE Apply(r)
  BY ZenonT(40), <1>23 DEF Apply, Kind, Finish, CustomerExists, SideAnswer
<1>24. CASE Abandon(r)
  BY <1>24 DEF Abandon, Fault, Kind, Finish, CustomerExists, SideAnswer
<1> QED
  BY ZenonT(40), <1>1, <1>2, <1>3, <1>4, <1>5, <1>6, <1>7, <1>8, <1>9, <1>10, <1>11, <1>12,
     <1>13, <1>14,
     <1>15, <1>16, <1>17, <1>18, <1>19, <1>20, <1>21, <1>22, <1>23, <1>24
  DEF Move

\* A refund under way has found its origin.
LEMMA Refunds ==
  ASSUME TypeOK, NEW r \in Requests, Move(r)
  PROVE  Kind(r) = "refund" /\ pc'[r] \in {"validateRefund", "insert"} =>
           RefundOrigin(r) \/ ValidateRefund(r) \/ UNCHANGED <<pc, locals>>
<1> USE DEF TypeOK, Goto
<1>1. CASE Kind(r) \in {"credit"} /\ CreditStart(r)
  BY <1>1, ZenonT(40) DEF CreditStart, Locate, TxnKinds, Finish, CustomerExists, SideAnswer
<1>2. CASE Kind(r) \in {"credit"} /\ LoadFeatureConfig(r)
  BY <1>2, ZenonT(40) DEF LoadFeatureConfig, TxnKinds, Finish, CustomerExists, SideAnswer
<1>3. CASE Kind(r) \in {"credit"} /\ GetCustomer(r)
  BY <1>3 DEF GetCustomer, ReadsAs, Fault, TxnKinds, Finish, CustomerExists, SideAnswer
<1>4. CASE Kind(r) \in {"credit", "customer"} /\ RecheckCustomer(r)
  BY ZenonT(40), <1>4
  DEF RecheckCustomer, ReadsAs, Fault, CustomerExists, TxnKinds, Finish, SideAnswer
<1>5. CASE Kind(r) \in {"credit", "customer"} /\ CreateCustomer(r)
  BY ZenonT(40), <1>5 DEF CreateCustomer, CustomerExists, TxnKinds, Finish, SideAnswer
<1>6. CASE Kind(r) \in {"credit"} /\ ReloadCustomer(r)
  BY <1>6, ZenonT(40)
  DEF ReloadCustomer, ReadsAs, Fault, TxnKinds, Finish, CustomerExists, SideAnswer
<1>7. CASE Kind(r) \in {"customer"} /\ LoadAccountConfig(r)
  BY <1>7 DEF LoadAccountConfig, Finish, TxnKinds, CustomerExists, SideAnswer
<1>8. CASE Kind(r) \in {"credit", "customer"} /\ GetAccountByCustomerNo(r)
  BY <1>8 DEF GetAccountByCustomerNo, ReadsAs, Fault, Finish, TxnKinds, CustomerExists, SideAnswer
<1>9. CASE Kind(r) \in {"credit", "customer", "openAccount"} /\ CreateAccount(r)
  BY ZenonT(40), <1>9 DEF CreateAccount, Finish, TxnKinds, CustomerExists, SideAnswer
<1>10. CASE Kind(r) \in {"credit", "customer", "openAccount"} /\ AccountNoTaken(r)
  BY <1>10 DEF AccountNoTaken, Fault, TxnKinds, Finish, CustomerExists, SideAnswer
<1>11. CASE Kind(r) \in {"credit", "debit", "transfer"} /\ Route(r)
  BY <1>11 DEF Route, Fault, TxnKinds, Finish, CustomerExists, SideAnswer
<1>12. CASE Kind(r) \in {"credit", "debit", "transfer"} /\ ValidateSubmit(r)
  BY ZenonT(40), <1>12 DEF ValidateSubmit, Fault, TxnKinds, Finish, CustomerExists, SideAnswer
<1>13. CASE Kind(r) \in TxnKinds /\ CreateTransferTxn(r)
  BY <1>13, ZenonT(40) DEF CreateTransferTxn, Finish, TxnKinds, CustomerExists, SideAnswer
<1>14. CASE Kind(r) \in {"debit", "transfer"} /\ LocateDebit(r)
  BY <1>14, ZenonT(40) DEF LocateDebit, Locate, TxnKinds, Finish, CustomerExists, SideAnswer
<1>15. CASE Kind(r) \in {"debit", "transfer"} /\ LocateCredit(r)
  BY <1>15, ZenonT(40) DEF LocateCredit, Locate, TxnKinds, Finish, CustomerExists, SideAnswer
<1>16. CASE Kind(r) \in {"refund"} /\ RefundOrigin(r)
  BY <1>16, ZenonT(40)
<1>17. CASE Kind(r) \in {"refund"} /\ ValidateRefund(r)
  BY <1>17, ZenonT(40)
<1>18. CASE Kind(r) \in {"customer"} /\ StartCustomer(r)
  BY <1>18, ZenonT(40) DEF StartCustomer, TxnKinds, Finish, CustomerExists, SideAnswer
<1>19. CASE Kind(r) \in {"openAccount"} /\ FindOwner(r)
  BY <1>19, ZenonT(40) DEF FindOwner, ReadsAs, Fault, TxnKinds, Finish, CustomerExists, SideAnswer
<1>20. CASE Kind(r) \in {"features"} /\ PatchFeatures(r)
  BY <1>20
  DEF PatchFeatures, handleAdminPatchMerchantFeatures, Finish, TxnKinds, CustomerExists, SideAnswer
<1>21. CASE Kind(r) \in {"capability"} /\ PatchFlags(r)
  BY ZenonT(40), <1>21
  DEF PatchFlags, handleAdminPatchAccountCapability, PatchCapability, Finish, ReadsAs, Fault,
      TxnKinds, CustomerExists, SideAnswer
<1>22. CASE audit(r)
  BY ZenonT(40), <1>22 DEF audit, Fault, TxnKinds, Finish, CustomerExists, SideAnswer
<1>23. CASE Apply(r)
  BY ZenonT(40), <1>23 DEF Apply, TxnKinds, Finish, CustomerExists, SideAnswer
<1>24. CASE Abandon(r)
  BY <1>24 DEF Abandon, Fault, TxnKinds, Finish, CustomerExists, SideAnswer
<1> QED
  BY ZenonT(40), <1>1, <1>2, <1>3, <1>4, <1>5, <1>6, <1>7, <1>8, <1>9, <1>10, <1>11, <1>12,
     <1>13, <1>14,
     <1>15, <1>16, <1>17, <1>18, <1>19, <1>20, <1>21, <1>22, <1>23, <1>24
  DEF Move

\* The account a user stands for is the user's own.
LEMMA UserAccount ==
  ASSUME TypeOK, Defaults, NEW r \in Requests, NEW u, u # None,
         u = GetAccountByOutUserID(Merchant(r), Req[r].creditUser)
  PROVE  /\ Req[r].creditUser # None /\ customerNo[UserKey(r)] # None
         /\ ownerOf[u] = customerNo[UserKey(r)] /\ merchantOf[u] = Merchant(r)
<1>1. Req[r].creditUser # None /\ UserKey(r) \in Keys /\ u = defaultNo[UserKey(r)]
  BY ZenonT(40), Fields DEF GetAccountByOutUserID, UserKey
<1> QED  BY ZenonT(40), <1>1 DEF Defaults, UserKey

\* One step keeps CreditParty.
LEMMA CreditPartyStep ==
  ASSUME TypeOK, Asking, Customers, Opening, Defaults, CreditParty, TypeOK', NEW r \in Requests, Move(r)
  PROVE  CreditParty'
<1> USE NamesAssumption
<1> DEFINE Needs(q) == Kind(q) = "credit" /\ Req[q].creditNo = None
           Of(q, c) == /\ Req[q].creditUser # None /\ customerNo'[UserKey(q)] # None
                       /\ ownerOf'[c] = customerNo'[UserKey(q)] /\ merchantOf'[c] = Merchant(q)
<1>1. Lasting
  BY Lasts
<1>2. ASSUME NEW q \in Requests, Needs(q), credit[q] # None
      PROVE  Of(q, credit[q])
  <2>1. credit[q] \in Numbers /\ merchantOf[credit[q]] # None
    <3>1. merchantOf[credit[q]] = Merchant(q)
      BY <1>2 DEF CreditParty, OfUser
    <3> QED  BY ZenonT(40), <1>2, <3>1, PartyTypes
  <2>2. Req[q].creditUser # None /\ customerNo[UserKey(q)] # None /\ ownerOf[credit[q]] = customerNo[UserKey(q)]
        /\ merchantOf[credit[q]] = Merchant(q)
    BY ZenonT(40), <1>2 DEF CreditParty, OfUser
  <2>3. UserKey(q) \in Keys
    BY ZenonT(40), <2>2, Fields
  <2> QED  BY ZenonT(40), <1>1, <2>1, <2>2, <2>3 DEF Lasting
<1>3. ASSUME Needs(r), credit'[r] # None, credit'[r] # credit[r]
      PROVE  Of(r, credit'[r])
  <2>1. CASE CreditStart(r)
    <3>1. credit'[r] = GetAccountByOutUserID(Merchant(r), Req[r].creditUser)
      BY <1>3, <2>1 DEF CreditStart, Locate, ResolveCustomerAccount, FromAccount, Finds, TypeOK
    <3>2. UNCHANGED <<customerNo, ownerOf, merchantOf>>
      BY <2>1 DEF CreditStart, Locate, tables
    <3> QED  BY ZenonT(40), <1>3, <3>1, <3>2, UserAccount
  <2>2. CASE GetAccountByCustomerNo(r)
    <3>1. PICK k \in KeysOf(Merchant(r), cust[r]) : credit'[r] = defaultNo[k]
      BY <1>3, <2>2 DEF GetAccountByCustomerNo, ReadsAs, TypeOK
    <3>2. k \in Keys /\ k[1] = Merchant(r) /\ customerNo[k] = cust[r] /\ cust[r] # None
      BY <3>1, ZenonT(40) DEF KeysOf
    <3>3. Req[r].creditUser # None /\ customerNo[UserKey(r)] = cust[r]
      <4>1. UserKey(r) \in Keys /\ customerNo[UserKey(r)] = cust[r]
        BY ZenonT(40), <1>3, <3>2 DEF Customers
      <4> QED  BY <4>1 DEF Keys, UserKey
    <3>4. ownerOf[credit'[r]] = cust[r] /\ merchantOf[credit'[r]] = Merchant(r)
      BY ZenonT(40), <1>3, <3>1, <3>2 DEF Defaults
    <3>5. UNCHANGED <<customerNo, ownerOf, merchantOf>>
      BY <2>2 DEF GetAccountByCustomerNo, tables
    <3> QED  BY ZenonT(40), <3>2, <3>3, <3>4, <3>5
  <2>3. CASE CreateAccount(r)
    <3>1. cust[r] # None
      BY ZenonT(40), <1>3, <2>3 DEF CreateAccount, At, Opening
    <3>2. Req[r].creditUser # None /\ customerNo[UserKey(r)] = cust[r]
      <4>1. UserKey(r) \in Keys /\ customerNo[UserKey(r)] = cust[r]
        BY ZenonT(40), <1>3, <3>1 DEF Customers
      <4> QED  BY <4>1 DEF Keys, UserKey
    <3>3. ownerOf'[credit'[r]] = cust[r] /\ merchantOf'[credit'[r]] = Merchant(r)
      <4>1. PICK n \in Fresh : /\ merchantOf' = [merchantOf EXCEPT ![n] = Merchant(r)]
                               /\ ownerOf' = [ownerOf EXCEPT ![n] = cust[r]]
                               /\ credit' = [credit EXCEPT ![r] = n]
        BY ZenonT(40), <2>3 DEF CreateAccount
      <4>2. n \in Numbers
        BY DEF Fresh
      <4> QED  BY ZenonT(40), <4>1, <4>2 DEF TypeOK
    <3>4. UNCHANGED customerNo
      BY ZenonT(40), <2>3 DEF CreateAccount
    <3> QED  BY ZenonT(40), <3>1, <3>2, <3>3, <3>4
  <2>4. CASE Route(r)
    BY <1>3, <2>4 DEF Route, CreditDefault, Kind, TypeOK
  <2>5. CASE UNCHANGED <<debit, credit>>
    BY ZenonT(40), <1>3, <2>5
  <2> QED  BY ZenonT(40), <1>3, <2>1, <2>2, <2>3, <2>4, <2>5, Lookers
<1>4. ASSUME NEW q \in Requests, Needs(q), credit'[q] # None PROVE Of(q, credit'[q])
  <2> HIDE DEF Needs, Of
  <2>1. CASE credit'[q] = credit[q]
    BY ZenonT(40), <1>2, <1>4, <2>1
  <2>2. CASE credit'[q] # credit[q]
    <3>1. q = r
      BY <2>2, Others
    <3> QED  BY ZenonT(40), <1>3, <1>4, <2>2, <3>1
  <2> QED  BY <2>1, <2>2
<1> QED  BY ZenonT(40), <1>4 DEF CreditParty, OfUser, Kind

\* One step keeps Ready.
LEMMA ReadyStep ==
  ASSUME TypeOK, Asking, Ready, TypeOK', NEW r \in Requests, Move(r)
  PROVE  Ready'
<1> USE NamesAssumption
<1>1. Lasting
  BY Lasts
<1>2. ASSUME NEW q \in Requests, pc[q] = "insert"
      PROVE  PartiesKnown(Merchant(q), debit[q], credit[q])
             /\ merchantOf'[debit[q]] = Merchant(q) /\ merchantOf'[credit[q]] = Merchant(q)
  <2>1. PartiesKnown(Merchant(q), debit[q], credit[q])
    BY <1>2 DEF Ready
  <2>2. debit[q] \in Numbers /\ credit[q] \in Numbers /\ Merchant(q) # None
    BY ZenonT(40), <2>1, PartyTypes DEF PartiesKnown
  <2> QED  BY ZenonT(40), <1>1, <2>1, <2>2 DEF PartiesKnown, Lasting
<1>3. ASSUME NEW q \in Requests, q # r, pc'[q] = "insert"
      PROVE  PartiesKnown(Merchant(q), debit[q], credit[q])'
  BY ZenonT(40), <1>2, <1>3, Others DEF PartiesKnown, Merchant
<1>4. ASSUME pc'[r] = "insert"
      PROVE  PartiesKnown(Merchant(r), debit[r], credit[r])'
  <2>1. CASE ValidateSubmit(r) \/ ValidateRefund(r)
    <3>1. PartiesKnown(Merchant(r), debit[r], credit[r])
      <4>1. pc \in [Requests -> Steps \cup Answers \cup {"UNSENT"}]
        BY ZenonT(40) DEF TypeOK
      <4>2. \/ PartiesKnown(Merchant(r), debit[r], credit[r])
            \/ pc' = [pc EXCEPT ![r] = "INTERNAL"]
            \/ pc' = [pc EXCEPT ![r] = "CONFLICT"]
        BY ZenonT(40), <2>1 DEF ValidateSubmit, ValidateRefund, Goto
      <4> QED  BY ZenonT(40), <1>4, <4>1, <4>2
    <3>2. UNCHANGED <<merchantOf, debit, credit>>
      BY ZenonT(40), <2>1 DEF ValidateSubmit, ValidateRefund, tables, locals
    <3> QED  BY ZenonT(40), <3>1, <3>2 DEF PartiesKnown, Merchant
  <2>2. CASE UNCHANGED <<pc, locals>>
    BY ZenonT(40), <1>2, <1>4, <2>2 DEF PartiesKnown, Merchant, locals
  <2> QED  BY ZenonT(40), <1>4, <2>1, <2>2, Inserts
<1> QED  BY ZenonT(40), <1>3, <1>4 DEF Ready

\* One step keeps RefundParty.
LEMMA RefundPartyStep ==
  ASSUME TypeOK, Asking, RefundParty, AnswerIsTrue, TypeOK', NEW r \in Requests, Move(r)
  PROVE  RefundParty'
<1> USE NamesAssumption
<1>1. Lasting
  BY Lasts
<1>2. ASSUME NEW o \in Requests, Inserted(o), phase[o] # "PENDING"
      PROVE  Inserted(o)' /\ phase'[o] # "PENDING" /\ debit'[o] = debit[o] /\ credit'[o] = credit[o]
  <2>1. txn[TxnKey(o)] = o /\ txn[TxnKey(o)] # None
    BY <1>2 DEF Inserted
  <2>2. txn'[TxnKey(o)] = o
    BY ZenonT(40), <1>1, <2>1, Fields DEF Lasting
  <2>3. Inserted(o)'
    BY <1>2, <2>2 DEF Inserted, TxnKey, Merchant
  <2> QED  BY ZenonT(40), <1>1, <1>2, <2>3, Settled DEF Lasting
<1>3. ASSUME NEW q \in Requests, Kind(q) = "refund", pc[q] \in {"validateRefund", "insert"},
             debit'[q] = debit[q], credit'[q] = credit[q]
      PROVE  Reverses(q, Req[q].origin)'
  <2>1. Req[q].origin \in Requests
    BY ZenonT(40), <1>3, Fields, FieldsAssumption DEF Kind
  <2>2. Reverses(q, Req[q].origin)
    BY ZenonT(40), <1>3 DEF RefundParty
  <2> QED  BY ZenonT(40), <1>2, <1>3, <2>1, <2>2 DEF Reverses
<1>4. ASSUME NEW q \in Requests, q # r, Kind(q) = "refund", pc'[q] \in {"validateRefund", "insert"}
      PROVE  Reverses(q, Req[q].origin)'
  BY ZenonT(40), <1>3, <1>4, Others
<1>5. ASSUME Kind(r) = "refund", pc'[r] \in {"validateRefund", "insert"}
      PROVE  Reverses(r, Req[r].origin)'
  <2>1. CASE RefundOrigin(r)
    <3> DEFINE o == Req[r].origin
    <3>1. o \in Requests
      BY ZenonT(40), <1>5, Fields, FieldsAssumption DEF Kind
    <3>2. /\ pc[r] = "start" /\ Inserted(o) /\ phase[o] = "SETTLED"
          /\ debit' = [debit EXCEPT ![r] = credit[o]] /\ credit' = [credit EXCEPT ![r] = debit[o]]
      <4>1. pc \in [Requests -> Steps \cup Answers \cup {"UNSENT"}]
        BY DEF TypeOK
      <4>2. \A s : pc' = [pc EXCEPT ![r] = s] => pc'[r] = s
        BY <4>1, ZenonT(40)
      <4>3. ~(pc' = [pc EXCEPT ![r] = "NOT_FOUND"]) /\ ~(pc' = [pc EXCEPT ![r] = "CONFLICT"])
        BY <1>5, <4>2
      <4>4. pc[r] = "start" /\ Refundable(r, o)
            /\ debit' = [debit EXCEPT ![r] = credit[o]] /\ credit' = [credit EXCEPT ![r] = debit[o]]
        BY ZenonT(40), <2>1, <4>3 DEF RefundOrigin, Goto, At
      <4> QED  BY <4>4, ZenonT(40) DEF Refundable
    <3>3. debit'[r] = credit[o] /\ credit'[r] = debit[o]
      BY ZenonT(40), <3>2 DEF TypeOK
    <3> HIDE DEF o
    <3>4. Inserted(o)' /\ phase'[o] # "PENDING" /\ debit'[o] = debit[o] /\ credit'[o] = credit[o]
      BY ZenonT(40), <1>2, <3>1, <3>2
    <3>5. \A p : p = o => Reverses(r, p)'
      BY ZenonT(40), <3>3, <3>4 DEF Reverses
    <3> QED  BY <3>5 DEF o
  <2>2. CASE ValidateRefund(r) \/ UNCHANGED <<pc, locals>>
    <3>1. pc[r] \in {"validateRefund", "insert"} /\ debit'[r] = debit[r] /\ credit'[r] = credit[r]
      BY ZenonT(40), <1>5, <2>2 DEF ValidateRefund, At, locals
    <3> QED  BY <1>3, <1>5, <3>1, ZenonT(40)
  <2> QED  BY ZenonT(40), <1>5, <2>1, <2>2, Refunds
<1> QED  BY ZenonT(40), <1>4, <1>5 DEF RefundParty, Kind

\* Only the insert turns the answer of a submission into a success or a duplicate.
LEMMA Answering ==
  ASSUME TypeOK, AnswerIsTrue, NEW r \in Requests, Move(r)
  PROVE  Kind(r) \in TxnKinds =>
           \/ CreateTransferTxn(r)
           \/ /\ UNCHANGED txn
              /\ pc'[r] \in {"SUCCESS", "audit"} => pc[r] \in {"SUCCESS", "audit"}
              /\ pc'[r] = "DUPLICATE" => pc[r] = "DUPLICATE"
              /\ pc[r] \in {"SUCCESS", "audit", "LOST"} => pc'[r] \in {"SUCCESS", "audit", "LOST"}
              /\ pc[r] = "INTERNAL" => pc'[r] = "INTERNAL"
<1> USE DEF TypeOK, TxnKinds, Goto, At, tables, Steps
<1>1. CASE Kind(r) \in {"credit"} /\ CreditStart(r)
  BY <1>1 DEF CreditStart, Locate, Kind, Finish, CustomerExists, SideAnswer
<1>2. CASE Kind(r) \in {"credit"} /\ LoadFeatureConfig(r)
  BY ZenonT(40), <1>2 DEF LoadFeatureConfig, Kind, Finish, CustomerExists, SideAnswer, Locate
<1>3. CASE Kind(r) \in {"credit"} /\ GetCustomer(r)
  BY ZenonT(40), <1>3
  DEF GetCustomer, ReadsAs, Fault, Kind, Finish, CustomerExists, SideAnswer, Locate
<1>4. CASE Kind(r) \in {"credit", "customer"} /\ RecheckCustomer(r)
  BY ZenonT(40), <1>4
  DEF RecheckCustomer, ReadsAs, Fault, CustomerExists, Kind, Finish, SideAnswer, Locate
<1>5. CASE Kind(r) \in {"credit", "customer"} /\ CreateCustomer(r)
  BY ZenonT(40), <1>5 DEF CreateCustomer, CustomerExists, Kind, Finish, SideAnswer, Locate
<1>6. CASE Kind(r) \in {"credit"} /\ ReloadCustomer(r)
  BY ZenonT(40), <1>6
  DEF ReloadCustomer, ReadsAs, Fault, Kind, Finish, CustomerExists, SideAnswer, Locate
<1>7. CASE Kind(r) \in {"customer"} /\ LoadAccountConfig(r)
  BY ZenonT(40), <1>7 DEF LoadAccountConfig, Finish, Kind, CustomerExists, SideAnswer, Locate
<1>8. CASE Kind(r) \in {"credit", "customer"} /\ GetAccountByCustomerNo(r)
  BY <1>8
  DEF GetAccountByCustomerNo, ReadsAs, Fault, Finish, Kind, CustomerExists, SideAnswer, Locate
<1>9. CASE Kind(r) \in {"credit", "customer", "openAccount"} /\ CreateAccount(r)
  <2>1. UNCHANGED txn
    BY ZenonT(40), <1>9 DEF CreateAccount
  <2>2. pc[r] = "open" /\ (Kind(r) = "credit" => pc'[r] = "route")
    BY ZenonT(40), <1>9, Opened
  <2> QED  BY <1>9, <2>1, <2>2, ZenonT(40)
<1>10. CASE Kind(r) \in {"credit", "customer", "openAccount"} /\ AccountNoTaken(r)
  BY <1>10, ZenonT(40) DEF AccountNoTaken, Fault, Kind, Finish, CustomerExists, SideAnswer, Locate
<1>11. CASE Kind(r) \in {"credit", "debit", "transfer"} /\ Route(r)
  BY <1>11 DEF Route, Fault, Kind, Finish, CustomerExists, SideAnswer, Locate
<1>12. CASE Kind(r) \in {"credit", "debit", "transfer"} /\ ValidateSubmit(r)
  BY ZenonT(40), <1>12 DEF ValidateSubmit, Fault, Kind, Finish, CustomerExists, SideAnswer, Locate
<1>13. CASE Kind(r) \in TxnKinds /\ CreateTransferTxn(r)
  BY <1>13, ZenonT(40)
<1>14. CASE Kind(r) \in {"debit", "transfer"} /\ LocateDebit(r)
  BY <1>14 DEF LocateDebit, Locate, Kind, Finish, CustomerExists, SideAnswer
<1>15. CASE Kind(r) \in {"debit", "transfer"} /\ LocateCredit(r)
  BY <1>15 DEF LocateCredit, Locate, Kind, Finish, CustomerExists, SideAnswer
<1>16. CASE Kind(r) \in {"refund"} /\ RefundOrigin(r)
  BY ZenonT(40), <1>16 DEF RefundOrigin, Fault, Kind, Finish, CustomerExists, SideAnswer, Locate
<1>17. CASE Kind(r) \in {"refund"} /\ ValidateRefund(r)
  BY ZenonT(40), <1>17 DEF ValidateRefund, Fault, Kind, Finish, CustomerExists, SideAnswer, Locate
<1>18. CASE Kind(r) \in {"customer"} /\ StartCustomer(r)
  BY ZenonT(40), <1>18 DEF StartCustomer, Kind, Finish, CustomerExists, SideAnswer, Locate
<1>19. CASE Kind(r) \in {"openAccount"} /\ FindOwner(r)
  BY <1>19 DEF FindOwner, ReadsAs, Fault, Kind, Finish, CustomerExists, SideAnswer, Locate
<1>20. CASE Kind(r) \in {"features"} /\ PatchFeatures(r)
  BY ZenonT(40), <1>20
  DEF PatchFeatures, handleAdminPatchMerchantFeatures, Finish, Kind, CustomerExists, SideAnswer,
      Locate
<1>21. CASE Kind(r) \in {"capability"} /\ PatchFlags(r)
  BY ZenonT(40), <1>21
  DEF PatchFlags, handleAdminPatchAccountCapability, PatchCapability, Finish, ReadsAs, Fault,
      Kind, CustomerExists, SideAnswer, Locate
<1>22. CASE audit(r)
  BY ZenonT(40), <1>22 DEF audit, Fault, Kind, Finish, CustomerExists, SideAnswer, Locate
<1>23. CASE Apply(r)
  BY ZenonT(40), <1>23 DEF Apply, Kind, Finish, CustomerExists, SideAnswer, Locate
<1>24. CASE Abandon(r)
  BY ZenonT(40), <1>24 DEF Abandon, Fault, Kind, Finish, CustomerExists, SideAnswer, Locate
<1> QED
  BY ZenonT(40), <1>1, <1>2, <1>3, <1>4, <1>5, <1>6, <1>7, <1>8, <1>9, <1>10, <1>11, <1>12,
     <1>13, <1>14,
     <1>15, <1>16, <1>17, <1>18, <1>19, <1>20, <1>21, <1>22, <1>23, <1>24
  DEF Move

\* A step counts one fault or none.
LEMMA Failing ==
  ASSUME NEW r \in Requests, Move(r)
  PROVE  Fault \/ UNCHANGED faults
<1>1. CASE Kind(r) \in {"credit"} /\ CreditStart(r)
  BY <1>1, ZenonT(40) DEF CreditStart, Finds
<1>2. CASE Kind(r) \in {"credit"} /\ LoadFeatureConfig(r)
  BY <1>2, ZenonT(40) DEF LoadFeatureConfig
<1>3. CASE Kind(r) \in {"credit"} /\ GetCustomer(r)
  BY <1>3, ZenonT(40) DEF GetCustomer, ReadsAs
<1>4. CASE Kind(r) \in {"credit", "customer"} /\ RecheckCustomer(r)
  BY <1>4, ZenonT(40) DEF RecheckCustomer, ReadsAs
<1>5. CASE Kind(r) \in {"credit", "customer"} /\ CreateCustomer(r)
  BY <1>5, ZenonT(40) DEF CreateCustomer
<1>6. CASE Kind(r) \in {"credit"} /\ ReloadCustomer(r)
  BY <1>6, ZenonT(40) DEF ReloadCustomer, ReadsAs
<1>7. CASE Kind(r) \in {"customer"} /\ LoadAccountConfig(r)
  BY <1>7, ZenonT(40) DEF LoadAccountConfig
<1>8. CASE Kind(r) \in {"credit", "customer"} /\ GetAccountByCustomerNo(r)
  BY <1>8, ZenonT(40) DEF GetAccountByCustomerNo, ReadsAs
<1>9. CASE Kind(r) \in {"credit", "customer", "openAccount"} /\ CreateAccount(r)
  BY <1>9, ZenonT(40) DEF CreateAccount
<1>10. CASE Kind(r) \in {"credit", "customer", "openAccount"} /\ AccountNoTaken(r)
  BY <1>10, ZenonT(40) DEF AccountNoTaken
<1>11. CASE Kind(r) \in {"credit", "debit", "transfer"} /\ Route(r)
  BY <1>11, ZenonT(40) DEF Route
<1>12. CASE Kind(r) \in {"credit", "debit", "transfer"} /\ ValidateSubmit(r)
  BY <1>12, ZenonT(40) DEF ValidateSubmit
<1>13. CASE Kind(r) \in TxnKinds /\ CreateTransferTxn(r)
  BY <1>13, ZenonT(40) DEF CreateTransferTxn
<1>14. CASE Kind(r) \in {"debit", "transfer"} /\ LocateDebit(r)
  BY <1>14, ZenonT(40) DEF LocateDebit, Finds
<1>15. CASE Kind(r) \in {"debit", "transfer"} /\ LocateCredit(r)
  BY <1>15, ZenonT(40) DEF LocateCredit, Finds
<1>16. CASE Kind(r) \in {"refund"} /\ RefundOrigin(r)
  BY <1>16, ZenonT(40) DEF RefundOrigin
<1>17. CASE Kind(r) \in {"refund"} /\ ValidateRefund(r)
  BY <1>17, ZenonT(40) DEF ValidateRefund
<1>18. CASE Kind(r) \in {"customer"} /\ StartCustomer(r)
  BY <1>18, ZenonT(40) DEF StartCustomer
<1>19. CASE Kind(r) \in {"openAccount"} /\ FindOwner(r)
  BY <1>19, ZenonT(40) DEF FindOwner, ReadsAs
<1>20. CASE Kind(r) \in {"features"} /\ PatchFeatures(r)
  BY <1>20, ZenonT(40) DEF PatchFeatures, handleAdminPatchMerchantFeatures
<1>21. CASE Kind(r) \in {"capability"} /\ PatchFlags(r)
  BY <1>21, ZenonT(40) DEF PatchFlags, handleAdminPatchAccountCapability, PatchCapability, ReadsAs
<1>22. CASE audit(r)
  BY <1>22, ZenonT(40) DEF audit
<1>23. CASE Apply(r)
  BY <1>23, ZenonT(40) DEF Apply
<1>24. CASE Abandon(r)
  BY <1>24, ZenonT(40) DEF Abandon
<1> QED
  BY ZenonT(40), <1>1, <1>2, <1>3, <1>4, <1>5, <1>6, <1>7, <1>8, <1>9, <1>10, <1>11, <1>12,
     <1>13, <1>14,
     <1>15, <1>16, <1>17, <1>18, <1>19, <1>20, <1>21, <1>22, <1>23, <1>24
  DEF Move

\* One step keeps AnswerIsTrue.
LEMMA AnswerStep ==
  ASSUME TypeOK, Asking, AnswerIsTrue, NEW r \in Requests, Move(r)
  PROVE  AnswerIsTrue'
<1> USE NamesAssumption
<1>1. Lasting
  BY Lasts
<1> DEFINE True(q, p, t, failed) ==
             /\ p \in {"SUCCESS", "audit"} => t = q
             /\ p = "DUPLICATE" => t \notin {q, None}
             /\ p \notin {"SUCCESS", "audit", "LOST", "INTERNAL"} => t # q
             /\ p = "INTERNAL" /\ t = q => failed
<1>2. \A q \in Requests : Kind(q) \in TxnKinds => True(q, pc[q], txn[TxnKey(q)], faults > 0)
  BY ZenonT(40) DEF AnswerIsTrue, Kind
<1>3. Fault => faults' > 0
  BY DEF Fault, TypeOK
<1>4. faults > 0 => faults' > 0
  BY <1>3, Failing
<1>5. ASSUME NEW q \in Requests, q # r, Kind(q) \in TxnKinds
      PROVE  True(q, pc'[q], txn'[TxnKey(q)], faults' > 0)
  <2>1. pc'[q] = pc[q]
    BY <1>5, Others, ZenonT(40)
  <2>2. TxnKey(q) \in Merchants \X OutTradeNos
    BY ZenonT(40), Fields
  <2>3. txn[TxnKey(q)] # None => txn'[TxnKey(q)] = txn[TxnKey(q)]
    BY ZenonT(40), <1>1, <2>2 DEF Lasting
  <2>4. txn'[TxnKey(q)] = txn[TxnKey(q)] \/ txn'[TxnKey(q)] = r
    BY ZenonT(40), <2>2, Fields, Writers
    DEF CreateTransferTxn, CreateCustomer, CreateAccount, Apply, TypeOK
  <2> QED  BY ZenonT(40), <1>2, <1>5, <1>4, <2>1, <2>3, <2>4
<1>6. ASSUME Kind(r) \in TxnKinds
      PROVE  True(r, pc'[r], txn'[TxnKey(r)], faults' > 0)
  <2>1. CASE CreateTransferTxn(r)
    <3>1. pc[r] = "insert" /\ TxnKey(r) \in Merchants \X OutTradeNos
      BY ZenonT(40), <2>1, Fields DEF CreateTransferTxn, At
    <3>2. txn[TxnKey(r)] # r
      BY ZenonT(40), <1>2, <1>6, <3>1
    <3>3. CASE /\ txn' = [txn EXCEPT ![TxnKey(r)] = r] /\ Finish(r)
      <4>1. txn'[TxnKey(r)] = r
        BY <3>1, <3>3, ZenonT(40) DEF TypeOK
      <4>2. pc'[r] \in {"audit", "SUCCESS"}
        BY ZenonT(40), <3>3 DEF Finish, Goto, TypeOK
      <4> QED  BY <4>1, <4>2, ZenonT(40)
    <3>4. CASE txn[TxnKey(r)] # None /\ Goto(r, "DUPLICATE") /\ UNCHANGED txn
      <4>1. pc'[r] = "DUPLICATE"
        BY <3>4 DEF Goto, TypeOK
      <4> QED  BY ZenonT(40), <3>2, <3>4, <4>1
    <3>5. CASE Fault /\ Goto(r, "INTERNAL")
      <4>1. pc'[r] = "INTERNAL"
        BY <3>5 DEF Goto, TypeOK
      <4> QED  BY ZenonT(40), <1>3, <3>5, <4>1
    <3> QED  BY <2>1, <3>3, <3>4, <3>5, ZenonT(40) DEF CreateTransferTxn
  <2>2. CASE ~CreateTransferTxn(r)
    BY ZenonT(40), <1>2, <1>6, <1>4, <2>2, Answering
  <2> QED  BY ZenonT(40), <2>1, <2>2
<1>7. \A q \in Requests : Kind(q) \in TxnKinds => True(q, pc'[q], txn'[TxnKey(q)], faults' > 0)
  BY ZenonT(40), <1>5, <1>6
<1> QED  BY ZenonT(40), <1>7 DEF AnswerIsTrue, Kind, TxnKey, Merchant

\* One step keeps PartiesBelong.
LEMMA PartiesStep ==
  ASSUME TypeOK, Asking, CreditParty, Ready, RefundParty, AnswerIsTrue, PartiesBelong,
         TypeOK', CreditParty', NEW r \in Requests, Move(r)
  PROVE  PartiesBelong'
<1> USE NamesAssumption
<1> DEFINE Sides(q) ==
             /\ debit'[q] # None /\ merchantOf'[debit'[q]] = Merchant(q)
             /\ credit'[q] # None /\ merchantOf'[credit'[q]] = Merchant(q)
           User(q) ==
             Kind(q) = "credit" /\ Req[q].creditNo = None =>
               customerNo'[UserKey(q)] # None /\ ownerOf'[credit'[q]] = customerNo'[UserKey(q)]
           Back(q) == Kind(q) = "refund" => Reverses(q, Req[q].origin)'
<1>1. Lasting
  BY Lasts
<1>2. ASSUME NEW o \in Requests, Inserted(o)
      PROVE  Inserted(o)' /\ debit'[o] = debit[o] /\ credit'[o] = credit[o]
  <2>1. txn[TxnKey(o)] = o /\ txn[TxnKey(o)] # None
    BY <1>2 DEF Inserted
  <2>2. txn'[TxnKey(o)] = o
    BY ZenonT(40), <1>1, <2>1, Fields DEF Lasting
  <2>3. Inserted(o)'
    BY ZenonT(40), <1>2, <2>2 DEF Inserted, TxnKey, Merchant
  <2> QED  BY ZenonT(40), <1>2, <2>3, Settled
<1>3. ASSUME NEW q \in Requests, Kind(q) = "refund", Reverses(q, Req[q].origin),
             debit'[q] = debit[q], credit'[q] = credit[q]
      PROVE  Reverses(q, Req[q].origin)'
  <2>1. Req[q].origin \in Requests
    BY ZenonT(40), <1>3, Fields, FieldsAssumption DEF Kind
  <2>2. phase'[Req[q].origin] # "PENDING"
    BY ZenonT(40), <1>1, <1>3, <2>1 DEF Lasting, Reverses
  <2> QED  BY ZenonT(40), <1>2, <1>3, <2>1, <2>2 DEF Reverses
<1>4. ASSUME NEW q \in Requests, debit'[q] = debit[q], credit'[q] = credit[q],
             PartiesKnown(Merchant(q), debit[q], credit[q])
      PROVE  Sides(q) /\ User(q)
  <2>a. PartiesKnown(Merchant(q), debit[q], credit[q])
    BY ZenonT(40), <1>4
  <2>1. debit[q] \in Numbers /\ credit[q] \in Numbers /\ Merchant(q) # None
    BY ZenonT(40), <2>a, PartyTypes DEF PartiesKnown
  <2>2. Sides(q)
    BY ZenonT(40), <1>1, <1>4, <2>1 DEF PartiesKnown, Lasting
  <2>3. User(q)
    BY ZenonT(40), <2>2 DEF CreditParty, OfUser, Kind, UserKey, Merchant
  <2> QED  BY ZenonT(40), <2>2, <2>3
<1>5. ASSUME NEW q \in Requests, Inserted(q) PROVE Sides(q) /\ User(q) /\ Back(q)
  <2>1. debit'[q] = debit[q] /\ credit'[q] = credit[q]
    BY ZenonT(40), <1>2, <1>5
  <2>2. PartiesKnown(Merchant(q), debit[q], credit[q])
    BY ZenonT(40), <1>5 DEF PartiesBelong, PartiesKnown
  <2>3. Kind(q) = "refund" => Reverses(q, Req[q].origin)
    BY ZenonT(40), <1>5 DEF PartiesBelong, Reverses, Kind
  <2> QED  BY ZenonT(40), <1>3, <1>4, <2>1, <2>2, <2>3
<1>6. ASSUME NEW q \in Requests, ~Inserted(q), Inserted(q)' PROVE Sides(q) /\ User(q) /\ Back(q)
  <2>1. Kind(q) \in TxnKinds /\ txn'[TxnKey(q)] = q /\ txn[TxnKey(q)] # q
    BY ZenonT(40), <1>6 DEF Inserted, Kind, TxnKey, Merchant
  <2>2. CreateTransferTxn(r) /\ Kind(r) \in TxnKinds
    BY ZenonT(40), <2>1, Writers DEF CreateCustomer, CreateAccount, Apply
  <2>3. q = r
    BY ZenonT(40), <2>1, <2>2, Fields DEF CreateTransferTxn, TypeOK
  <2>4. pc[r] = "insert" /\ UNCHANGED <<debit, credit>>
    BY <2>2 DEF CreateTransferTxn, At, locals
  <2>5. PartiesKnown(Merchant(q), debit[q], credit[q])
    BY ZenonT(40), <2>3, <2>4 DEF Ready
  <2>6. Kind(q) = "refund" => Reverses(q, Req[q].origin)
    BY <2>3, <2>4 DEF RefundParty
  <2> QED  BY ZenonT(40), <1>3, <1>4, <2>4, <2>5, <2>6
<1>7. \A q \in Requests : Inserted(q)' => Sides(q) /\ User(q) /\ Back(q)
  BY ZenonT(40), <1>5, <1>6
<1> QED  BY ZenonT(40), <1>7 DEF PartiesBelong, Reverses, Kind, Merchant, UserKey

\* One step of the specification keeps the whole invariant.
LEMMA StepInv ==
  ASSUME SubmissionInv, [Next]_vars
  PROVE  SubmissionInv'
<1>1. TypeOK'
  BY TypeStep, ZenonT(40) DEF SubmissionInv
<1>2. ASSUME NEW r \in Requests, Move(r) PROVE SubmissionInv'
  <2>1. Tried' /\ Asking' /\ Opening'
    BY <1>2, TriedStep, AskingStep, OpeningStep, ZenonT(40) DEF SubmissionInv
  <2>2. Customers' /\ Defaults' /\ Owners'
    BY <1>1, <1>2, CustomersStep, DefaultsStep, ZenonT(40) DEF SubmissionInv
  <2>3. CreditParty' /\ Ready' /\ RefundParty' /\ AnswerIsTrue'
    BY <1>1, <1>2, CreditPartyStep, ReadyStep, RefundPartyStep, AnswerStep, ZenonT(40)
    DEF SubmissionInv
  <2>4. PartiesBelong'
    BY <1>1, <1>2, <2>3, PartiesStep DEF SubmissionInv
  <2> QED  BY <1>1, <2>1, <2>2, <2>3, <2>4, ZenonT(40) DEF SubmissionInv
<1>3. CASE UNCHANGED vars
  <2> USE <1>3 DEF vars, tables, locals
  <2>1. Tried' /\ Asking' /\ Opening' /\ Customers' /\ Defaults' /\ Owners'
    BY ZenonT(40)
    DEF SubmissionInv, Tried, Asking, Opening, Customers, Defaults, Owners, Kind, UserKey, Merchant
  <2>2. CreditParty' /\ Ready' /\ RefundParty'
    BY ZenonT(40)
    DEF SubmissionInv, CreditParty, OfUser, Ready, PartiesKnown, RefundParty, Reverses, Inserted,
        Kind,
           UserKey, TxnKey, Merchant
  <2>3. AnswerIsTrue' /\ PartiesBelong'
    BY ZenonT(40)
    DEF SubmissionInv, AnswerIsTrue, PartiesBelong, Inserted, Kind, UserKey, TxnKey, Merchant
  <2> QED  BY ZenonT(40), <1>1, <2>1, <2>2, <2>3 DEF SubmissionInv
<1> QED  BY <1>2, <1>3, Moves

\* The tables of a new service satisfy the invariant.
LEMMA InitInv ==
  ASSUME Init
  PROVE  SubmissionInv
<1> USE AccountsAssumption DEF Init
<1>0. pc \in [Requests -> {"start", "UNSENT"}]
  BY ZenonT(40)
<1>1. TypeOK
  BY <1>0 DEF TypeOK, Steps, Flags, Capabilities, Features
<1>2. Tried /\ Asking
  BY <1>0 DEF Tried, Asking
<1>3. Customers /\ Opening /\ Defaults /\ Owners
  BY <1>0, ZenonT(40) DEF Customers, Opening, Defaults, Owners
<1>4. CreditParty /\ Ready /\ RefundParty
  BY <1>0 DEF CreditParty, Ready, RefundParty
<1>5. \A r \in Requests : txn[TxnKey(r)] = None /\ r # None
  BY ZenonT(40), Fields, NamesAssumption
<1>6. AnswerIsTrue /\ PartiesBelong
  <2>1. \A r \in Requests : pc[r] \in {"start", "UNSENT"}
    BY <1>0
  <2> QED  BY ZenonT(40), <1>5, <2>1 DEF AnswerIsTrue, PartiesBelong, Inserted
<1> QED  BY <1>1, <1>2, <1>3, <1>4, <1>6, ZenonT(40) DEF SubmissionInv
-----------------------------------------------------------------------------
\* Every state of the service satisfies the invariant: the handlers of
\* internal/api and the services they call keep it, in any interleaving and under
\* any number of failed statements, collisions of numbers and crashes.
THEOREM Invariance == Spec => []SubmissionInv
<1>1. Init => SubmissionInv
  BY InitInv
<1>2. SubmissionInv /\ [Next]_vars => SubmissionInv'
  BY StepInv
<1> QED  BY <1>1, <1>2, PTL DEF Spec

\* Type correctness of the tables and of the handlers' locals; a request never counts
\* more tries at an account number than the code allows.
THEOREM TypeCorrect == Spec => []TypeOK
<1>1. SubmissionInv => TypeOK
  BY DEF SubmissionInv
<1> QED  BY <1>1, Invariance, PTL

\* A customer who owns an account is reached by out_user_id, through a default account
\* that is the customer's own: createAccount sets the default with the insert.
THEOREM OwnersHaveDefaults == Spec => []OwnerHasDefault
<1>1. SubmissionInv => OwnerHasDefault
  BY ZenonT(40) DEF SubmissionInv, OwnerHasDefault, Owners, Defaults
<1> QED  BY <1>1, Invariance, PTL

\* The parties of an accepted transaction are accounts of its merchant, a credit to a
\* user goes to that user's account, and a refund reverses the parties of its origin.
THEOREM PartiesAreOfMerchant == Spec => []PartiesBelong
<1>1. SubmissionInv => PartiesBelong
  BY DEF SubmissionInv
<1> QED  BY <1>1, Invariance, PTL

\* The answer to a submission tells the truth about its out_trade_no.
THEOREM AnswersAreTrue == Spec => []AnswerIsTrue
<1>1. SubmissionInv => AnswerIsTrue
  BY DEF SubmissionInv
<1> QED  BY <1>1, Invariance, PTL

\* The account that a user stands for never changes (SetCustomerDefaultAccountIfEmpty).
THEOREM DefaultsAreKept == Spec => DefaultNeverMoves
<1>1. SubmissionInv /\ [Next]_vars =>
        [\A k \in Keys : defaultNo[k] # None => defaultNo'[k] = defaultNo[k]]_vars
  BY Moves, Lasts DEF SubmissionInv, Lasting
<1> QED  BY <1>1, Invariance, PTL DEF Spec, DefaultNeverMoves

=============================================================================
