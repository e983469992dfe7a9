----------------------------- MODULE Submission -----------------------------
(* The synchronous half of the service: the HTTP handlers that open customers
   and accounts, patch what they may do, and turn a request into a row of the
   table txn.  Requests run concurrently; each step of one is one statement (or
   one transaction) of PostgreSQL, so that everything a handler has read may be
   out of date when it writes.

   A read of internal/db/repository.go that fails is reported to its caller as
   "no such row"; ReadsAs and Finds give the reads that outcome as well, at the
   price of a fault.  A customer number is the request that drew it, an account number is
   the smallest free one: the code providers give every number once.           *)
EXTENDS Integers, FiniteSets

CONSTANTS
  Requests,      \* the HTTP requests
  Req,           \* what each of them asks for, a record
  Merchants, Users, OutTradeNos,
  Numbers,       \* account numbers, an interval of Nat
  Budget, Receivable,   \* the system accounts of each merchant
  OpenedFirst,   \* accounts that exist from the start, and whose they are
  OpenedBook,    \* those of them that keep books
  MaxAttempts,   \* tries at a free account number
  MaxFaults,     \* failed statements and crashes
  Batches,       \* the sets of requests that come in together, one of them in a behaviour
  None

VARIABLES
  customerNo,    \* table customer: its number, by merchant and out_user_id
  defaultNo,     \* customer.default_account_no
  merchantOf, ownerOf, caps, books,   \* table account
  features,      \* merchant.auto_create_*
  txn,           \* table txn: the request that made it, by merchant and out_trade_no
  pc,            \* where each request stands, and in the end its answer
  cust, debit, credit, tries, seen,   \* the locals of its handler
  phase,         \* txn.status and refundable_amount of each request's transaction
  audited,       \* table admin_audit_log
  faults

tables == <<customerNo, defaultNo, merchantOf, ownerOf, caps, books, features, txn, phase, audited>>
locals == <<cust, debit, credit, tries, seen>>
vars == <<tables, pc, locals, faults>>

Keys == Merchants \X Users
Capabilities == {"debitOut", "creditIn", "transfer"}
Features == {"account", "customer"}
TxnKinds == {"credit", "debit", "transfer", "refund"}
Steps == {"start", "ensure", "lookup", "recheck", "insertCustomer", "reload", "config",
          "account", "open", "creditSide", "route", "validate", "validateRefund", "insert", "write", "audit"}
Answers == {"SUCCESS", "DUPLICATE", "CONFLICT", "NOT_FOUND", "FORBIDDEN", "INVALID",
            "INTERNAL", "LOST"}
Flags == Capabilities \cup Features

ASSUME RequestsAssumption ==
  Req \in [Requests ->
       [kind : TxnKinds \cup {"customer", "openAccount", "features", "capability"},
        admin : BOOLEAN, merchant : Merchants, out : OutTradeNos, days : Nat, book : BOOLEAN,
        debitNo : Numbers \cup {None}, debitUser : Users \cup {None},
        creditNo : Numbers \cup {None}, creditUser : Users \cup {None},
        ownerNo : Requests \cup {None}, origin : Requests \cup {None}, on : SUBSET Flags, off : SUBSET Flags]]
\* what a handler refuses as INVALID_PARAM is not asked for
ASSUME FieldsAssumption ==
  \A r \in Requests :
    /\ Req[r].kind = "customer" => Req[r].creditUser # None
    /\ Req[r].kind = "refund" => Req[r].origin # None
    /\ Req[r].kind = "capability" => Req[r].creditNo # None
ASSUME NumbersAssumption ==
  Numbers \subseteq Nat
ASSUME NamesAssumption ==
  None \notin Requests \cup Numbers \cup Users \cup Merchants
ASSUME AccountsAssumption ==
  /\ Budget \in [Merchants -> Numbers] /\ Receivable \in [Merchants -> Numbers]
  /\ OpenedFirst \in [Numbers -> Merchants \cup {None}]
  /\ OpenedBook \subseteq Numbers
  /\ MaxAttempts \in Nat \ {0} /\ MaxFaults \in Nat
ASSUME BatchesAssumption == Batches \subseteq SUBSET Requests
-----------------------------------------------------------------------------
Merchant(r) == Req[r].merchant
TxnKey(r) == <<Merchant(r), Req[r].out>>
UserKey(r) == <<Merchant(r), Req[r].creditUser>>

Goto(r, step) == pc' = [pc EXCEPT ![r] = step]
At(r, step) == pc[r] = step

Fault == faults < MaxFaults /\ faults' = faults + 1

\* a read returns the row, or fails and returns what an absent row returns
ReadsAs(row, x) == (x = row /\ UNCHANGED faults) \/ (x = None /\ Fault)

\* the handlers that are administrative leave an audit row before they answer
Finish(r) == Goto(r, IF Req[r].admin THEN "audit" ELSE "SUCCESS")
-----------------------------------------------------------------------------
(* Account location (AccountResolver).  The account and the user are two reads;
   a default account never changes once set, so reading both at the moment of
   the second loses no outcome. *)
FromAccount(m, no) == IF no # None /\ merchantOf[no] = m THEN no ELSE None

GetAccountByOutUserID(m, u) == IF u = None THEN None ELSE defaultNo[<<m, u>>]

\* what the reads find: an outage makes the account, the user or both (GetMerchantByNo
\* fails before them) look absent
Finds(m, no, user, byNo, byUser) ==
  \/ byNo = FromAccount(m, no) /\ byUser = GetAccountByOutUserID(m, user) /\ UNCHANGED faults
  \/ Fault /\ byNo \in {FromAccount(m, no), None} /\ byUser \in {GetAccountByOutUserID(m, user), None}

Conflicting(byNo, byUser) == byNo # None /\ byUser # None /\ byNo # byUser

ResolveCustomerAccount(byNo, byUser) == IF byNo # None THEN byNo ELSE byUser

(* Routing (TransferRoutingService): scene defaults, then the checks that
   TransferService.Submit repeats just before it inserts. *)
DebitDefault(r) == IF Req[r].kind = "credit" /\ debit[r] = None THEN Budget[Merchant(r)] ELSE debit[r]
CreditDefault(r) == IF Req[r].kind = "debit" /\ credit[r] = None THEN Receivable[Merchant(r)] ELSE credit[r]

PartiesKnown(m, d, c) ==
  d # None /\ c # None /\ merchantOf[d] = m /\ merchantOf[c] = m

PartiesAble(kind, d, c) ==
  /\ "debitOut" \in caps[d]
  /\ "creditIn" \in caps[c]
  /\ kind = "transfer" => "transfer" \in caps[d]

\* the API's debit credits no book, a transfer into a book needs an expiry
ExpiryRefused(r, d, c) ==
  \/ Req[r].kind = "debit" /\ ~Req[r].admin /\ c \in books
  \/ Req[r].kind = "transfer" /\ c \in books /\ d \notin books /\ Req[r].days = 0

Route(r) ==
  LET d == DebitDefault(r)
      c == CreditDefault(r)
  IN /\ At(r, "route")
     /\ \/ /\ ~PartiesKnown(Merchant(r), d, c) /\ Goto(r, "NOT_FOUND")
           /\ UNCHANGED <<debit, credit, faults>>
        \/ Fault /\ Goto(r, "NOT_FOUND") /\ UNCHANGED <<debit, credit>>
        \/ /\ PartiesKnown(Merchant(r), d, c)
           /\ debit' = [debit EXCEPT ![r] = d] /\ credit' = [credit EXCEPT ![r] = c]
           /\ Goto(r, CASE ~PartiesAble(Req[r].kind, d, c) -> "FORBIDDEN"
                        [] PartiesAble(Req[r].kind, d, c) /\ ExpiryRefused(r, d, c) -> "INVALID"
                        [] OTHER -> "validate")
           /\ UNCHANGED faults
     /\ UNCHANGED <<tables, cust, tries, seen>>

ValidateSubmit(r) ==
  /\ At(r, "validate")
  /\ \/ Fault /\ Goto(r, "INTERNAL")
     \/ /\ Goto(r, IF /\ PartiesKnown(Merchant(r), debit[r], credit[r])
                      /\ PartiesAble(Req[r].kind, debit[r], credit[r])
                   THEN "insert" ELSE "INTERNAL")
        /\ UNCHANGED faults
  /\ UNCHANGED <<tables, locals>>

CreateTransferTxnTwice(r) ==
  /\ At(r, "insert")
  /\ txn' = [txn EXCEPT ![TxnKey(r)] = r] /\ Finish(r)
  /\ UNCHANGED <<customerNo, defaultNo, merchantOf, ownerOf, caps, books, features, phase, audited>>
  /\ UNCHANGED <<locals, faults>>

\* the unique index decides; an error of the statement leaves no row or, when only the
\* answer to it is lost, the row
CreateTransferTxn(r) ==
  /\ At(r, "insert")
  /\ \/ /\ txn[TxnKey(r)] = None
        /\ txn' = [txn EXCEPT ![TxnKey(r)] = r] /\ Finish(r) /\ UNCHANGED faults
     \/ txn[TxnKey(r)] # None /\ Goto(r, "DUPLICATE") /\ UNCHANGED <<txn, faults>>
     \/ Fault /\ Goto(r, "INTERNAL") /\ UNCHANGED txn
     \/ /\ Fault /\ Goto(r, "INTERNAL")
        /\ txn[TxnKey(r)] = None /\ txn' = [txn EXCEPT ![TxnKey(r)] = r]
  /\ UNCHANGED <<customerNo, defaultNo, merchantOf, ownerOf, caps, books, features, phase, audited>>
  /\ UNCHANGED locals

Submit(r) == Route(r) \/ ValidateSubmit(r) \/ CreateTransferTxn(r)

(* A refund has no route: Submit takes its parties from the origin, which must have
   settled and have the amount left, and checks only that the debit side may pay. *)
Inserted(r) == Req[r].kind \in TxnKinds /\ txn[TxnKey(r)] = r

Refundable(r, o) ==
  Inserted(o) /\ Merchant(o) = Merchant(r) /\ Req[o].kind # "refund" /\ phase[o] = "SETTLED"

RefundOrigin(r) ==
  LET o == Req[r].origin
  IN /\ At(r, "start")
     /\ \/ /\ Refundable(r, o) /\ Goto(r, "validateRefund") /\ UNCHANGED faults
           /\ debit' = [debit EXCEPT ![r] = credit[o]] /\ credit' = [credit EXCEPT ![r] = debit[o]]
        \/ /\ ~Refundable(r, o) /\ UNCHANGED <<debit, credit, faults>>
           /\ Goto(r, IF Inserted(o) /\ Merchant(o) = Merchant(r) THEN "CONFLICT" ELSE "NOT_FOUND")
        \/ Fault /\ Goto(r, "NOT_FOUND") /\ UNCHANGED <<debit, credit>>
     /\ UNCHANGED <<tables, cust, tries, seen>>

ValidateRefund(r) ==
  /\ At(r, "validateRefund")
  /\ \/ Fault /\ Goto(r, "CONFLICT")
     \/ /\ Goto(r, IF /\ PartiesKnown(Merchant(r), debit[r], credit[r])
                      /\ "debitOut" \in caps[debit[r]]
                   THEN "insert" ELSE "CONFLICT")
        /\ UNCHANGED faults
  /\ UNCHANGED <<tables, locals>>

SubmitRefund(r) == RefundOrigin(r) \/ ValidateRefund(r) \/ CreateTransferTxn(r)

\* the pipeline applies a transaction: a transfer settles, a refund uses up its origin.
\* One that fails leaves everything as it is.
Apply(r) ==
  /\ Inserted(r) /\ phase[r] = "PENDING"
  /\ Req[r].kind = "refund" => phase[Req[r].origin] = "SETTLED"
  /\ phase' = [phase EXCEPT ![r] = "SETTLED",
                            ![IF Req[r].kind = "refund" THEN Req[r].origin ELSE r] =
                               IF Req[r].kind = "refund" THEN "SPENT" ELSE "SETTLED"]
  /\ UNCHANGED <<customerNo, defaultNo, merchantOf, ownerOf, caps, books, features, txn, audited>>
  /\ UNCHANGED <<pc, locals, faults>>
-----------------------------------------------------------------------------
(* Opening customers and accounts (CustomerService). *)
LoadFeatureConfig(r) ==
  /\ At(r, "ensure")
  /\ Goto(r, IF "customer" \in features[Merchant(r)] THEN "lookup" ELSE "NOT_FOUND")
  /\ UNCHANGED <<tables, locals, faults>>

GetCustomer(r) ==
  /\ At(r, "lookup")
  /\ \E c \in Requests \cup {None} :
       /\ ReadsAs(customerNo[UserKey(r)], c)
       /\ cust' = [cust EXCEPT ![r] = c]
       /\ Goto(r, IF c # None THEN "account" ELSE "recheck")
  /\ UNCHANGED <<tables, debit, credit, tries, seen>>

CustomerExistsRetries(r) == Goto(r, IF Req[r].kind = "credit" THEN "recheck" ELSE "DUPLICATE")
CustomerExistsUnloaded(r) == Goto(r, IF Req[r].kind = "credit" THEN "account" ELSE "DUPLICATE")

\* ErrCustomerExists: a credit loads the other request's customer, the others give up
CustomerExists(r) == Goto(r, IF Req[r].kind = "credit" THEN "reload" ELSE "DUPLICATE")

RecheckCustomer(r) ==
  /\ At(r, "recheck")
  /\ \E c \in Requests \cup {None} :
       /\ ReadsAs(customerNo[UserKey(r)], c)
       /\ IF c # None THEN CustomerExists(r) ELSE Goto(r, "insertCustomer")
  /\ UNCHANGED <<tables, locals>>

CreateCustomer(r) ==
  /\ At(r, "insertCustomer")
  /\ \/ /\ customerNo[UserKey(r)] = None
        /\ customerNo' = [customerNo EXCEPT ![UserKey(r)] = r]
        /\ cust' = [cust EXCEPT ![r] = r]
        /\ Goto(r, IF Req[r].kind = "credit" THEN "account" ELSE "config")
     \/ /\ customerNo[UserKey(r)] # None /\ CustomerExists(r)
        /\ UNCHANGED <<customerNo, cust>>
  /\ UNCHANGED <<defaultNo, merchantOf, ownerOf, caps, books, features, txn, phase, audited>>
  /\ UNCHANGED <<debit, credit, tries, seen, faults>>

ReloadCustomer(r) ==
  /\ At(r, "reload")
  /\ \E c \in Requests \cup {None} :
       /\ ReadsAs(customerNo[UserKey(r)], c)
       /\ cust' = [cust EXCEPT ![r] = c]
       /\ Goto(r, IF c # None THEN "account" ELSE "INTERNAL")
  /\ UNCHANGED <<tables, debit, credit, tries, seen>>

LoadAccountConfig(r) ==
  /\ At(r, "config")
  /\ IF "account" \in features[Merchant(r)] THEN Goto(r, "account") ELSE Finish(r)
  /\ UNCHANGED <<tables, locals, faults>>

KeysOf(m, c) == {k \in Keys : k[1] = m /\ c # None /\ customerNo[k] = c}

GetAccountByCustomerNo(r) ==
  /\ At(r, "account")
  /\ \E n \in Numbers \cup {None} :
       /\ \/ \E k \in KeysOf(Merchant(r), cust[r]) : ReadsAs(defaultNo[k], n)
          \/ KeysOf(Merchant(r), cust[r]) = {} /\ n = None /\ UNCHANGED faults
       /\ credit' = [credit EXCEPT ![r] = n]
       /\ CASE n = None -> Goto(r, "open")
            [] n # None /\ Req[r].kind = "credit" -> Goto(r, "route")
            [] OTHER -> Finish(r)
  /\ UNCHANGED <<tables, cust, debit, tries, seen>>

Fresh == {n \in Numbers : merchantOf[n] = None /\ \A k \in Numbers : k < n => merchantOf[k] # None}

\* an administrator chooses the flags of an account, the service allows everything
OpenedCaps(r) == IF Req[r].kind = "openAccount" THEN Capabilities \ Req[r].off ELSE Capabilities

SetDefaultAlways(m, c, n) ==
  [k \in Keys |-> IF k \in KeysOf(m, c) THEN n ELSE defaultNo[k]]

\* the account's first insert, its no-expire book, and the customer's default when it has none
SetDefault(m, c, n) ==
  [k \in Keys |-> IF k \in KeysOf(m, c) /\ defaultNo[k] = None THEN n ELSE defaultNo[k]]

CreateAccountOnly(r) ==
  /\ At(r, "open")
  /\ \E n \in Fresh :
       /\ merchantOf' = [merchantOf EXCEPT ![n] = Merchant(r)]
       /\ ownerOf' = [ownerOf EXCEPT ![n] = cust[r]]
       /\ caps' = [caps EXCEPT ![n] = OpenedCaps(r)]
       /\ books' = IF Req[r].kind = "openAccount" /\ ~Req[r].book THEN books ELSE books \cup {n}
       /\ credit' = [credit EXCEPT ![r] = n]
  /\ IF Req[r].kind = "credit" THEN Goto(r, "route") ELSE Finish(r)
  /\ UNCHANGED <<customerNo, defaultNo, features, txn, phase, audited, cust, debit, tries, seen, faults>>

CreateAccount(r) ==
  /\ At(r, "open")
  /\ \E n \in Fresh :
       /\ merchantOf' = [merchantOf EXCEPT ![n] = Merchant(r)]
       /\ ownerOf' = [ownerOf EXCEPT ![n] = cust[r]]
       /\ caps' = [caps EXCEPT ![n] = OpenedCaps(r)]
       /\ books' = IF Req[r].kind = "openAccount" /\ ~Req[r].book THEN books ELSE books \cup {n}
       /\ defaultNo' = SetDefault(Merchant(r), cust[r], n)
       /\ credit' = [credit EXCEPT ![r] = n]
  /\ IF Req[r].kind = "credit" THEN Goto(r, "route") ELSE Finish(r)
  /\ UNCHANGED <<customerNo, features, txn, phase, audited, cust, debit, tries, seen, faults>>

AccountNoTakenOnceMore(r) ==
  /\ At(r, "open")
  /\ tries' = [tries EXCEPT ![r] = @ + 1]
  /\ CASE Req[r].kind = "openAccount" -> Goto(r, "DUPLICATE")
       [] Req[r].kind # "openAccount" /\ tries'[r] > MaxAttempts -> Goto(r, "INTERNAL")
       [] OTHER -> UNCHANGED pc
  /\ UNCHANGED <<tables, cust, debit, credit, seen, faults>>

\* ErrAccountNoExists: the number drawn is taken
AccountNoTaken(r) ==
  /\ At(r, "open")
  /\ tries' = [tries EXCEPT ![r] = @ + 1]
  /\ CASE Req[r].kind = "openAccount" -> Goto(r, "DUPLICATE")
       [] Req[r].kind # "openAccount" /\ tries'[r] = MaxAttempts -> Goto(r, "INTERNAL")
       [] OTHER -> UNCHANGED pc
  /\ UNCHANGED <<tables, cust, debit, credit, seen, faults>>

createCustomerOnly(r) == RecheckCustomer(r) \/ CreateCustomer(r)
ensureDefaultCustomerAccount(r) == GetAccountByCustomerNo(r) \/ CreateAccount(r) \/ AccountNoTaken(r)

EnsureCustomerAccountForCredit(r) ==
  \/ LoadFeatureConfig(r)
  \/ GetCustomer(r)
  \/ createCustomerOnly(r)
  \/ ReloadCustomer(r)
  \/ ensureDefaultCustomerAccount(r)
-----------------------------------------------------------------------------
(* The handlers. *)
Is(r, kind, admin) == Req[r].kind = kind /\ Req[r].admin = admin

Locate(r, d, c) ==
  /\ debit' = [debit EXCEPT ![r] = d] /\ credit' = [credit EXCEPT ![r] = c]
  /\ UNCHANGED <<tables, cust, tries, seen>>

\* a credit locates its credit side; a user without an account is given one
CreditStart(r) ==
  LET no == Req[r].creditNo
      user == Req[r].creditUser
      m == Merchant(r)
  IN /\ At(r, "start")
     /\ \/ user = None /\ Goto(r, "route") /\ Locate(r, Req[r].debitNo, no) /\ UNCHANGED faults
        \/ \E n, u \in Numbers \cup {None} :
             /\ user # None /\ Finds(m, no, user, n, u)
             /\ CASE Conflicting(n, u) -> Goto(r, "CONFLICT")
                  [] ~Conflicting(n, u) /\ ResolveCustomerAccount(n, u) # None -> Goto(r, "route")
                  [] ResolveCustomerAccount(n, u) = None /\ no = None -> Goto(r, "ensure")
                  [] OTHER -> Goto(r, "NOT_FOUND")
             /\ Locate(r, Req[r].debitNo, ResolveCustomerAccount(n, u))

handleCredit(r) ==
  Is(r, "credit", FALSE) /\ (CreditStart(r) \/ EnsureCustomerAccountForCredit(r) \/ Submit(r))

handleAdminCredit(r) ==
  Is(r, "credit", TRUE) /\ (CreditStart(r) \/ EnsureCustomerAccountForCredit(r) \/ Submit(r))

(* A debit and a transfer locate both sides.  The API looks a side up only when
   its user is given and leaves a bare account number to the router; the
   administrator's handlers look up both, and only the debit side of a debit must
   be found.                                                                   *)
Located(r, no, user, n, u) ==
  IF user = None /\ ~Req[r].admin THEN no ELSE ResolveCustomerAccount(n, u)

Unlocated(r, side, user, a) ==
  a = None /\ (IF Req[r].admin THEN side = "debit" /\ Req[r].kind = "debit" ELSE user # None)

SideAnswer(r, side, no, user, n, u, next) ==
  CASE Conflicting(n, u) -> "CONFLICT"
    [] ~Conflicting(n, u) /\ Unlocated(r, side, user, Located(r, no, user, n, u)) -> "NOT_FOUND"
    [] OTHER -> next

LocateDebit(r) ==
  /\ At(r, "start")
  /\ \E n, u \in Numbers \cup {None} :
       /\ Finds(Merchant(r), Req[r].debitNo, Req[r].debitUser, n, u)
       /\ Locate(r, Located(r, Req[r].debitNo, Req[r].debitUser, n, u), None)
       /\ Goto(r, SideAnswer(r, "debit", Req[r].debitNo, Req[r].debitUser, n, u, "creditSide"))

LocateCredit(r) ==
  /\ At(r, "creditSide")
  /\ \E n, u \in Numbers \cup {None} :
       /\ Finds(Merchant(r), Req[r].creditNo, Req[r].creditUser, n, u)
       /\ Locate(r, debit[r], Located(r, Req[r].creditNo, Req[r].creditUser, n, u))
       /\ Goto(r, SideAnswer(r, "credit", Req[r].creditNo, Req[r].creditUser, n, u, "route"))

handleDebit(r) == Is(r, "debit", FALSE) /\ (LocateDebit(r) \/ LocateCredit(r) \/ Submit(r))
handleAdminDebit(r) == Is(r, "debit", TRUE) /\ (LocateDebit(r) \/ LocateCredit(r) \/ Submit(r))
handleTransfer(r) == Is(r, "transfer", FALSE) /\ (LocateDebit(r) \/ LocateCredit(r) \/ Submit(r))
handleAdminTransfer(r) == Is(r, "transfer", TRUE) /\ (LocateDebit(r) \/ LocateCredit(r) \/ Submit(r))

handleRefund(r) == Is(r, "refund", FALSE) /\ SubmitRefund(r)
handleAdminRefund(r) == Is(r, "refund", TRUE) /\ SubmitRefund(r)

handleAdminCreateCustomer(r) ==
  /\ Is(r, "customer", TRUE)
  /\ \/ At(r, "start") /\ Goto(r, "recheck") /\ UNCHANGED <<tables, locals, faults>>
     \/ createCustomerOnly(r)
     \/ LoadAccountConfig(r)
     \/ ensureDefaultCustomerAccount(r)

\* the owner is a user, a customer number, both, or the merchant itself
FindOwner(r) ==
  /\ At(r, "start")
  /\ \E byUser \in Requests \cup {None} :
       LET byNo == IF KeysOf(Merchant(r), Req[r].ownerNo) # {} THEN Req[r].ownerNo ELSE None
           missing == \/ Req[r].creditUser # None /\ byUser = None
                      \/ Req[r].ownerNo # None /\ byNo = None
       IN /\ IF Req[r].creditUser = None THEN byUser = None /\ UNCHANGED faults
                                         ELSE ReadsAs(customerNo[UserKey(r)], byUser)
          /\ cust' = [cust EXCEPT ![r] = IF byNo # None THEN byNo ELSE byUser]
          /\ Goto(r, CASE missing -> "NOT_FOUND"
                       [] ~missing /\ byUser # None /\ byNo # None /\ byUser # byNo -> "CONFLICT"
                       [] OTHER -> "open")
  /\ UNCHANGED <<tables, debit, credit, tries, seen>>

handleAdminCreateAccount(r) ==
  Is(r, "openAccount", TRUE) /\ (FindOwner(r) \/ CreateAccount(r) \/ AccountNoTaken(r))

\* both patches read every flag, change those the request names and write all of them
Patched(r) == (seen[r] \cup Req[r].on) \ Req[r].off

handleAdminPatchMerchantFeatures(r) ==
  /\ Is(r, "features", TRUE)
  /\ \/ /\ At(r, "start") /\ Goto(r, "write")
        /\ seen' = [seen EXCEPT ![r] = features[Merchant(r)]]
        /\ UNCHANGED <<tables, cust, debit, credit, tries, faults>>
     \/ /\ At(r, "write") /\ Finish(r)
        /\ features' = [features EXCEPT ![Merchant(r)] = Patched(r)]
        /\ UNCHANGED <<customerNo, defaultNo, merchantOf, ownerOf, caps, books, txn, phase, audited>>
        /\ UNCHANGED <<locals, faults>>

\* UpdateAccountCapabilities drops the error of its statement
PatchCapability(r) ==
  /\ At(r, "write") /\ Finish(r)
  /\ \/ /\ caps' = [caps EXCEPT ![Req[r].creditNo] = Patched(r)]
        /\ UNCHANGED faults
     \/ Fault /\ UNCHANGED caps
  /\ UNCHANGED <<customerNo, defaultNo, merchantOf, ownerOf, books, features, txn, phase, audited, locals>>

handleAdminPatchAccountCapability(r) ==
  /\ Is(r, "capability", TRUE)
  /\ \/ /\ At(r, "start")
        /\ \E m \in Merchants \cup {None} :
             /\ ReadsAs(merchantOf[Req[r].creditNo], m)
             /\ Goto(r, IF m = None THEN "NOT_FOUND" ELSE "write")
        /\ seen' = [seen EXCEPT ![r] = caps[Req[r].creditNo]]
        /\ UNCHANGED <<tables, cust, debit, credit, tries>>
     \/ PatchCapability(r)

\* the audit row is written after the change, and its error is dropped
audit(r) ==
  /\ At(r, "audit") /\ Goto(r, "SUCCESS")
  /\ \/ audited' = audited \cup {r} /\ UNCHANGED faults
     \/ Fault /\ UNCHANGED audited
  /\ UNCHANGED <<customerNo, defaultNo, merchantOf, ownerOf, caps, books, features, txn, phase, locals>>

\* the process dies, or another write fails, and the client learns nothing of the outcome
Abandon(r) ==
  /\ pc[r] \in Steps /\ Fault /\ Goto(r, "LOST")
  /\ UNCHANGED <<tables, locals>>
-----------------------------------------------------------------------------
Init ==
  /\ customerNo = [k \in Keys |-> None]
  /\ defaultNo = [k \in Keys |-> None]
  /\ merchantOf = OpenedFirst
  /\ ownerOf = [n \in Numbers |-> None]
  /\ caps = [n \in Numbers |-> IF OpenedFirst[n] # None THEN Capabilities ELSE {}]
  /\ books = OpenedBook
  /\ features = [m \in Merchants |-> Features]
  /\ txn = [k \in Merchants \X OutTradeNos |-> None]
  /\ \E sent \in Batches :
       pc = [r \in Requests |-> IF r \in sent THEN "start" ELSE "UNSENT"]
  /\ cust = [r \in Requests |-> None]
  /\ debit = [r \in Requests |-> None]
  /\ credit = [r \in Requests |-> None]
  /\ tries = [r \in Requests |-> 0]
  /\ seen = [r \in Requests |-> {}]
  /\ phase = [r \in Requests |-> "PENDING"]
  /\ audited = {} /\ faults = 0

Handle(r) ==
  \/ handleCredit(r) \/ handleAdminCredit(r)
  \/ handleDebit(r) \/ handleAdminDebit(r)
  \/ handleTransfer(r) \/ handleAdminTransfer(r)
  \/ handleRefund(r) \/ handleAdminRefund(r)
  \/ handleAdminCreateCustomer(r)
  \/ handleAdminCreateAccount(r)
  \/ handleAdminPatchMerchantFeatures(r)
  \/ handleAdminPatchAccountCapability(r)
  \/ audit(r)

Next == \E r \in Requests : Handle(r) \/ Apply(r) \/ Abandon(r)

Spec == Init /\ [][Next]_vars

\* a handler that can go on does: the HTTP server runs every request in a goroutine
FairSpec == Spec /\ \A r \in Requests : WF_vars(Handle(r))
-----------------------------------------------------------------------------
(* Properties *)

\* Type correctness of the tables and of the handlers' locals.
TypeOK ==
  /\ customerNo \in [Keys -> Requests \cup {None}]
  /\ defaultNo \in [Keys -> Numbers \cup {None}]
  /\ merchantOf \in [Numbers -> Merchants \cup {None}]
  /\ ownerOf \in [Numbers -> Requests \cup {None}]
  /\ caps \in [Numbers -> SUBSET Flags]
  /\ books \subseteq Numbers
  /\ features \in [Merchants -> SUBSET Flags]
  /\ txn \in [Merchants \X OutTradeNos -> Requests \cup {None}]
  /\ pc \in [Requests -> Steps \cup Answers \cup {"UNSENT"}]
  /\ cust \in [Requests -> Requests \cup {None}]
  /\ debit \in [Requests -> Numbers \cup {None}]
  /\ credit \in [Requests -> Numbers \cup {None}]
  /\ tries \in [Requests -> 0..MaxAttempts]
  /\ seen \in [Requests -> SUBSET Flags]
  /\ phase \in [Requests -> {"PENDING", "SETTLED", "SPENT"}]
  /\ audited \subseteq Requests /\ faults \in 0..MaxFaults

(* A customer who owns an account can be reached by out_user_id: the customer has a
   default account, and it is one of the customer's own in the customer's merchant.
   It holds whatever two credits, a customer creation and an account opening for the
   same user do between each other's reads (createAccount sets the default in the
   transaction that inserts the account). *)
OwnerHasDefault ==
  \A n \in Numbers : ownerOf[n] # None =>
    \E k \in Keys :
      /\ customerNo[k] = ownerOf[n] /\ merchantOf[n] = k[1]
      /\ defaultNo[k] # None
      /\ ownerOf[defaultNo[k]] = customerNo[k] /\ merchantOf[defaultNo[k]] = k[1]

(* The account a user_id stands for never changes once there is one, although an
   account may be opened for the same customer by several requests at once
   (SetCustomerDefaultAccountIfEmpty). *)
DefaultNeverMoves ==
  [][\A k \in Keys : defaultNo[k] # None => defaultNo'[k] = defaultNo[k]]_vars

(* The parties of an accepted transaction are accounts of its merchant, and a credit
   given only a user_id goes to an account of that user, even when the customer was
   created by a concurrent request or a read failed on the way.  A refund runs between
   the parties of its origin, exchanged, and only when that origin has settled. *)
PartiesBelong ==
  \A r \in Requests : Inserted(r) =>
    /\ debit[r] # None /\ merchantOf[debit[r]] = Merchant(r)
    /\ credit[r] # None /\ merchantOf[credit[r]] = Merchant(r)
    /\ (Req[r].kind = "credit" /\ Req[r].creditNo = None) =>
         customerNo[UserKey(r)] # None /\ ownerOf[credit[r]] = customerNo[UserKey(r)]
    /\ Req[r].kind = "refund" =>
         /\ Inserted(Req[r].origin) /\ phase[Req[r].origin] # "PENDING"
         /\ debit[r] = credit[Req[r].origin] /\ credit[r] = debit[Req[r].origin]

(* An answer tells the truth about out_trade_no: success means that this request's
   transaction exists, DUPLICATE that another request's does, and any other answer
   that this request left none.  The exceptions are a lost answer and INTERNAL_ERROR
   after a statement failed, when the row may be there although the INSERT reported an
   error: API.md has the client look out_trade_no up after both. *)
AnswerIsTrue ==
  \A r \in Requests : Req[r].kind \in TxnKinds =>
    /\ pc[r] \in {"SUCCESS", "audit"} => txn[TxnKey(r)] = r
    /\ pc[r] = "DUPLICATE" => txn[TxnKey(r)] \notin {r, None}
    /\ pc[r] \notin {"SUCCESS", "audit", "LOST", "INTERNAL"} => txn[TxnKey(r)] # r
    /\ pc[r] = "INTERNAL" /\ txn[TxnKey(r)] = r => faults > 0

(* Every request is answered: the customer and account races are settled in a bounded
   number of tries. *)
Answered == <>(\A r \in Requests : pc[r] \notin Steps)
-----------------------------------------------------------------------------
(* What the documentation says *)

(* API.md: the capabilities of an account "可部分更新", can be updated in part: a patch
   changes no flag it does not name. *)
PatchIsPartial ==
  [][\A r \in Requests, n \in Numbers :
       (Req[r].kind = "capability" /\ Req[r].creditNo = n /\ pc[r] = "write" /\ pc'[r] = "audit") =>
         /\ caps'[n] \ caps[n] \subseteq Req[r].on
         /\ caps[n] \ caps'[n] \subseteq Req[r].off]_vars
=============================================================================
