----------------------------- MODULE AdminSetup -----------------------------
(* The first-run setup of the console, the handlers that open a merchant, and the
   rotation of a merchant's secret.  Setup is a chain of separate statements under
   a session-level advisory lock: nothing but the lock keeps two setups apart, and
   a setup that dies half way is taken up by the next.  The connection that holds
   the lock comes from the pool the statements under the lock are served from.

   A request opens one merchant at most and rotates at most one secret, so the
   merchant and the credential row are named by the request that made them.     *)
EXTENDS Integers, FiniteSets

CONSTANTS
  Setups, Creates, AdminCreates, Rotates, AdminRotates,   \* the requests, by route
  Processes, ServedBy,   \* the server processes, each with a pool, and who serves what
  PoolSize,              \* connections of one process
  Users, UserOf,         \* the admin_username of each setup
  MaxFaults,             \* failed statements, crashes and broken lock sessions
  None

Requests == Setups \cup Creates \cup AdminCreates \cup Rotates \cup AdminRotates

VARIABLES
  setup,      \* the row of admin_setup_state
  admin,      \* table admin_user: whose password each user has
  created, featured, hooked,   \* tables merchant, merchant_feature_config, webhook_config
  version,    \* per merchant: the highest secret_version
  active,     \* per merchant: its active credential rows
  lock,       \* the holder of the advisory lock
  conns,      \* setups that hold a connection for the lock
  rowLock,    \* per merchant: the rotation that holds its row
  pc,         \* where each request stands, and in the end its answer
  saw,        \* the locals of a request: the state row it read,
  mno,        \*   its merchant,
  told,       \*   and the version of the secret it drew
  audited,    \* requests with a row in admin_audit_log
  severed,    \* setups whose lock session broke under them
  faults

tables == <<setup, admin, created, featured, hooked, version, active, audited>>
locals == <<saw, mno, told>>
locks == <<lock, conns, rowLock, severed>>
vars == <<tables, locals, locks, pc, faults>>

Answers == {"SUCCESS", "ALREADY", "EXISTS", "NOT_FOUND", "INTERNAL", "LOST"}
Steps == {"start", "wait", "state", "user", "ensureUser", "createUser", "progress", "merchant",
          "create", "saveMerchant", "features", "webhook", "rotate", "lockRow", "insert",
          "mark", "audit", "reply"}
Row == [done : BOOLEAN, user : Users \cup {None}, merchant : Requests \cup {None}]

ASSUME SetupAssumption ==
  /\ UserOf \in [Setups -> Users] /\ ServedBy \in [Requests -> Processes]
  /\ PoolSize \in Nat \ {0} /\ MaxFaults \in Nat
  /\ None \notin Requests \cup Users
  /\ Setups \cap (Creates \cup AdminCreates \cup Rotates \cup AdminRotates) = {}

-----------------------------------------------------------------------------
\* The pool of a process: its lock sessions and open rotations each keep a connection.

Busy(p) == Cardinality({r \in conns : ServedBy[r] = p})
           + Cardinality({r \in Requests : ServedBy[r] = p /\ pc[r] \in {"lockRow", "insert"}})

Free(r) == Busy(ServedBy[r]) < PoolSize

Goto(r, from, to) == pc[r] = from /\ pc' = [pc EXCEPT ![r] = to]

\* A statement of the repository, on a connection borrowed for its duration.
Statement(r, from, to) == Goto(r, from, to) /\ Free(r)

\* The return of WithAdminSetupLock: the lock and its connection go back.
ReleaseKeepingLock(r) == conns' = conns \ {r} /\ UNCHANGED <<lock, severed>>
Release(r) ==
  /\ conns' = conns \ {r}
  /\ lock' = IF lock = r THEN None ELSE lock
  /\ UNCHANGED severed

\* The end of a request: what it held is released, an open rotation rolls back.
End(r, answer) ==
  /\ pc' = [pc EXCEPT ![r] = answer]
  /\ Release(r)
  /\ rowLock' = [m \in Requests |-> IF rowLock[m] = r THEN None ELSE rowLock[m]]
  /\ UNCHANGED <<tables, locals>>

-----------------------------------------------------------------------------
\* handleInitialize.

AcquireConn(r) ==
  /\ r \in Setups /\ Statement(r, "start", "wait")
  /\ conns' = conns \cup {r}
  /\ UNCHANGED <<tables, locals, lock, rowLock, severed, faults>>

LockSetup(r) ==
  /\ lock = None /\ Goto(r, "wait", "state")
  /\ lock' = r
  /\ UNCHANGED <<tables, locals, conns, rowLock, severed, faults>>

GetAdminSetupStateUnchecked(r) ==
  /\ Statement(r, "state", "user")
  /\ saw' = [saw EXCEPT ![r] = setup.merchant]
  /\ UNCHANGED <<tables, mno, told, locks, faults>>
GetAdminSetupState(r) ==
  /\ ~setup.done /\ Statement(r, "state", "user")
  /\ saw' = [saw EXCEPT ![r] = setup.merchant]
  /\ UNCHANGED <<tables, mno, told, locks, faults>>

AlreadyInitialized(r) ==
  pc[r] = "state" /\ setup.done /\ Free(r) /\ End(r, "ALREADY") /\ UNCHANGED faults

GetAdminUserByUsername(r) ==
  /\ pc[r] = "user"
  /\ Statement(r, "user", IF admin[UserOf[r]] # None THEN "ensureUser" ELSE "createUser")
  /\ UNCHANGED <<tables, locals, locks, faults>>

\* An upsert: a user that is there gets the new password and is active again.
EnsureAdminUser(r) ==
  /\ Statement(r, "ensureUser", "progress")
  /\ admin' = [admin EXCEPT ![UserOf[r]] = r]
  /\ UNCHANGED <<setup, created, featured, hooked, version, active, audited, locals, locks, faults>>

CreateAdminUser(r) ==
  /\ Statement(r, "createUser", "progress") /\ admin[UserOf[r]] = None
  /\ admin' = [admin EXCEPT ![UserOf[r]] = r]
  /\ UNCHANGED <<setup, created, featured, hooked, version, active, audited, locals, locks, faults>>

AdminUserExists(r) ==
  /\ pc[r] = "createUser" /\ Free(r) /\ admin[UserOf[r]] # None
  /\ End(r, "EXISTS") /\ UNCHANGED faults

\* An empty merchant_no leaves the recorded one in place.
Kept(row, user, m) == [row EXCEPT !.user = user, !.merchant = IF m = None THEN @ ELSE m]

SaveAdminSetupProgress(r) ==
  /\ Statement(r, "progress", "merchant")
  /\ setup' = Kept(setup, UserOf[r], saw[r])
  /\ UNCHANGED <<admin, created, featured, hooked, version, active, audited, locals, locks, faults>>

\* GetMerchantByNo reports a failed read as a merchant that is not there.
GetMerchantConfigByNoTrusting(r) ==
  /\ r \in Setups /\ Statement(r, "merchant", "features")
  /\ mno' = [mno EXCEPT ![r] = saw[r]]
  /\ UNCHANGED <<tables, saw, told, locks, faults>>
GetMerchantConfigByNo(r) ==
  /\ r \in Setups /\ Statement(r, "merchant", IF saw[r] \in created THEN "features" ELSE "create")
  /\ mno' = [mno EXCEPT ![r] = saw[r]]
  /\ UNCHANGED <<tables, saw, told, locks, faults>>

\* The merchant and its budget, receivable and write-off account, in one transaction.
CreateMerchant(r) ==
  /\ Statement(r, IF r \in Setups THEN "create" ELSE "start",
               IF r \in Setups THEN "saveMerchant" ELSE "features")
  /\ r \notin Rotates \cup AdminRotates
  /\ created' = created \cup {r} /\ mno' = [mno EXCEPT ![r] = r]
  /\ UNCHANGED <<setup, admin, featured, hooked, version, active, audited, saw, told, locks, faults>>

SaveMerchantAndMark(r) ==
  /\ Statement(r, "saveMerchant", "features")
  /\ setup' = [Kept(setup, UserOf[r], mno[r]) EXCEPT !.done = TRUE]
  /\ UNCHANGED <<admin, created, featured, hooked, version, active, audited, locals, locks, faults>>
SaveMerchant(r) ==
  /\ Statement(r, "saveMerchant", "features")
  /\ setup' = Kept(setup, UserOf[r], mno[r])
  /\ UNCHANGED <<admin, created, featured, hooked, version, active, audited, locals, locks, faults>>

UpsertMerchantFeatureConfig(r) ==
  /\ Statement(r, "features", IF r \in Setups THEN "webhook" ELSE "rotate")
  /\ featured' = featured \cup {mno[r]}
  /\ UNCHANGED <<setup, admin, created, hooked, version, active, audited, locals, locks, faults>>

UpsertWebhookConfig(r) ==
  /\ Statement(r, "webhook", "rotate")
  /\ hooked' = hooked \cup {mno[r]}
  /\ UNCHANGED <<setup, admin, created, featured, version, active, audited, locals, locks, faults>>

MarkWithoutFlag(r) ==
  /\ Statement(r, "mark", "reply")
  /\ setup' = Kept(setup, UserOf[r], mno[r])
  /\ UNCHANGED <<admin, created, featured, hooked, version, active, audited, locals, locks, faults>>
MarkAdminSetupInitialized(r) ==
  /\ Statement(r, "mark", "reply")
  /\ setup' = [Kept(setup, UserOf[r], mno[r]) EXCEPT !.done = TRUE]
  /\ UNCHANGED <<admin, created, featured, hooked, version, active, audited, locals, locks, faults>>

-----------------------------------------------------------------------------
\* MerchantSecretManager.RotateSecret, one transaction, and the handlers around it.

\* A rotation route names a merchant that exists; the console looks it up first.
FindMerchant(r) ==
  /\ r \in Rotates \cup AdminRotates /\ (r \in AdminRotates => Free(r))
  /\ Goto(r, "start", "rotate")
  /\ \E m \in created : mno' = [mno EXCEPT ![r] = m]
  /\ UNCHANGED <<tables, saw, told, locks, faults>>

BeginRotate(r) ==
  /\ Statement(r, "rotate", "lockRow")
  /\ UNCHANGED <<tables, locals, locks, faults>>

\* SELECT ... FOR UPDATE on the merchant, then MAX(secret_version).
LockMerchantNoShared(r) ==
  /\ Goto(r, "lockRow", "insert")
  /\ rowLock' = [rowLock EXCEPT ![mno[r]] = r]
  /\ told' = [told EXCEPT ![r] = version[mno[r]] + 1]
  /\ UNCHANGED <<tables, saw, mno, lock, conns, severed, faults>>
LockMerchantNo(r) ==
  /\ Goto(r, "lockRow", "insert") /\ rowLock[mno[r]] = None
  /\ rowLock' = [rowLock EXCEPT ![mno[r]] = r]
  /\ told' = [told EXCEPT ![r] = version[mno[r]] + 1]
  /\ UNCHANGED <<tables, saw, mno, lock, conns, severed, faults>>

AfterRotate(r) ==
  IF r \in Setups THEN "mark" ELSE IF r \in AdminCreates \cup AdminRotates THEN "audit" ELSE "reply"

\* DeactivateActiveMerchantSecrets, InsertMerchantSecretCredential and the commit.
InsertSecret(r) ==
  /\ Goto(r, "insert", AfterRotate(r))
  /\ version' = [version EXCEPT ![mno[r]] = told[r]]
  /\ active' = [active EXCEPT ![mno[r]] = {r}]
  /\ rowLock' = [rowLock EXCEPT ![mno[r]] = None]
  /\ UNCHANGED <<setup, admin, created, featured, hooked, audited, locals, lock, conns, severed, faults>>

\* The console's audit row; the handler ignores a failure to write it.
Audit(r) ==
  /\ Goto(r, "audit", "reply")
  /\ \/ Free(r) /\ audited' = audited \cup {r} /\ UNCHANGED faults
     \/ ~Free(r) /\ UNCHANGED <<audited, faults>>
     \/ faults < MaxFaults /\ faults' = faults + 1 /\ UNCHANGED audited
  /\ UNCHANGED <<setup, admin, created, featured, hooked, version, active, locals, locks>>

Reply(r) == pc[r] = "reply" /\ End(r, "SUCCESS") /\ UNCHANGED faults

-----------------------------------------------------------------------------
\* What goes wrong.

\* A merchant lookup takes any error for a merchant that is not there.
Error(r) ==
  IF pc[r] = "merchant"
  THEN /\ Goto(r, "merchant", "create") /\ mno' = [mno EXCEPT ![r] = saw[r]]
       /\ UNCHANGED <<tables, saw, told, locks>>
  ELSE End(r, IF r \in AdminRotates /\ pc[r] = "start" THEN "NOT_FOUND" ELSE "INTERNAL")

\* The deadline of a call passes while it waits for a connection or for a lock.
Timeout(r) ==
  /\ \/ pc[r] \in Steps \ {"wait", "lockRow", "insert", "audit", "reply"} /\ ~Free(r)
        /\ (pc[r] = "start" => r \notin Rotates)
     \/ pc[r] = "wait" /\ lock # None
     \/ pc[r] = "lockRow" /\ rowLock[mno[r]] # None
  /\ Error(r)
  /\ UNCHANGED faults

StatementFails(r) ==
  /\ faults < MaxFaults /\ faults' = faults + 1
  /\ pc[r] \in Steps \ {"audit", "reply"} /\ (pc[r] = "start" => r \notin Rotates)
  /\ Error(r)

\* A process dies with all it serves: PostgreSQL ends its sessions and transactions.
Crash(p) ==
  LET dead == {r \in Requests : ServedBy[r] = p /\ pc[r] \in Steps \ {"start"}}
  IN /\ faults < MaxFaults /\ faults' = faults + 1
     /\ dead # {}
     /\ pc' = [r \in Requests |-> IF r \in dead THEN "LOST" ELSE pc[r]]
     /\ conns' = conns \ dead
     /\ lock' = IF lock \in dead THEN None ELSE lock
     /\ rowLock' = [m \in Requests |-> IF rowLock[m] \in dead THEN None ELSE rowLock[m]]
     /\ UNCHANGED <<tables, locals, severed>>

\* The session that holds the lock breaks; the callback runs on, unaware.
LockSessionBreaks(r) ==
  /\ faults < MaxFaults /\ faults' = faults + 1
  /\ lock = r
  /\ lock' = None /\ severed' = severed \cup {r}
  /\ UNCHANGED <<tables, locals, conns, rowLock, pc>>

-----------------------------------------------------------------------------
Init ==
  /\ setup = [done |-> FALSE, user |-> None, merchant |-> None]
  /\ admin \in [Users -> {None}]
  /\ created = {} /\ featured = {} /\ hooked = {} /\ audited = {}
  /\ version = [m \in Requests |-> 0] /\ active = [m \in Requests |-> {}]
  /\ lock = None /\ conns = {} /\ rowLock = [m \in Requests |-> None]
  /\ pc = [r \in Requests |-> "start"]
  /\ saw = [r \in Requests |-> None] /\ mno = [r \in Requests |-> None]
  /\ told = [r \in Requests |-> 0]
  /\ severed = {} /\ faults = 0

InitializeStep(r) ==
  \/ AcquireConn(r) \/ LockSetup(r) \/ GetAdminSetupState(r) \/ AlreadyInitialized(r)
  \/ GetAdminUserByUsername(r) \/ EnsureAdminUser(r) \/ CreateAdminUser(r) \/ AdminUserExists(r)
  \/ SaveAdminSetupProgress(r) \/ GetMerchantConfigByNo(r) \/ SaveMerchant(r)
  \/ UpsertWebhookConfig(r) \/ MarkAdminSetupInitialized(r)

MerchantStep(r) ==
  \/ CreateMerchant(r) \/ UpsertMerchantFeatureConfig(r)
  \/ FindMerchant(r) \/ BeginRotate(r) \/ LockMerchantNo(r) \/ InsertSecret(r)
  \/ Audit(r) \/ Reply(r)

Step(r) == InitializeStep(r) \/ MerchantStep(r) \/ Timeout(r)

Next ==
  \/ \E r \in Requests : Step(r) \/ StatementFails(r) \/ LockSessionBreaks(r)
  \/ \E p \in Processes : Crash(p)

Spec == Init /\ [][Next]_vars

\* A setup that can take a step takes it: the server runs the handler, and every
\* call in it has a deadline.  Nothing is asked of the other requests.
FairSpec == Spec /\ \A r \in Setups : WF_vars(Step(r))

-----------------------------------------------------------------------------
\* Every table and local holds what its column or variable can hold; a merchant that
\* does not exist gets no feature and no webhook row, and only console requests are audited.
TypeOK ==
  /\ setup \in Row /\ admin \in [Users -> Requests \cup {None}]
  /\ created \subseteq Requests /\ featured \subseteq created /\ hooked \subseteq created
  /\ version \in [Requests -> Nat] /\ active \in [Requests -> SUBSET Requests]
  /\ lock \in Requests \cup {None} /\ conns \subseteq Setups /\ severed \subseteq Setups
  /\ rowLock \in [Requests -> Requests \cup {None}]
  /\ pc \in [Requests -> Steps \cup Answers]
  /\ saw \in [Requests -> Requests \cup {None}] /\ mno \in [Requests -> Requests \cup {None}]
  /\ told \in [Requests -> Nat]
  /\ audited \subseteq AdminCreates \cup AdminRotates
  /\ faults \in 0..MaxFaults

\* a merchant with its feature and webhook row and an active secret
Complete(m) == m \in created \cap featured \cap hooked /\ active[m] # {}

\* What the flag admin_setup_state.initialized promises, whatever failed, crashed or lost
\* its lock on the way and whoever took the setup up again: the recorded user has an
\* account, the recorded merchant exists, and some merchant is complete.  While no lock
\* session breaks the complete one is the recorded one; after a break a second setup
\* may record a merchant over it that it has not finished, and may never finish.
InitializedIsComplete ==
  setup.done =>
    /\ setup.user # None /\ admin[setup.user] # None
    /\ setup.merchant \in created
    /\ \E m \in Requests : Complete(m)
    /\ severed = {} => Complete(setup.merchant)

\* handleInitialize is done once, while no lock session breaks: of all setups at most
\* one is told a secret.  (With a broken one, two may be.)
OneInitialization ==
  severed = {} => \A r, s \in Setups : pc[r] = "SUCCESS" /\ pc[s] = "SUCCESS" => r = s

\* Once initialized, and while no lock session breaks, no setup that was still waiting
\* changes the recorded row or the password of an administrator.
InitializedIsFinal ==
  [][setup.done /\ severed' = {} => setup' = setup /\ admin' = admin]_vars

\* RotateSecret: a merchant has one active secret, the one that carries its
\* highest version, and no two requests were told the same version of it.
SecretsAgree ==
  /\ \A m \in Requests : version[m] > 0 => \E r \in Requests : active[m] = {r} /\ told[r] = version[m]
  /\ \A r, s \in Requests :
       pc[r] = "SUCCESS" /\ pc[s] = "SUCCESS" /\ mno[r] = mno[s] /\ told[r] = told[s] => r = s

\* nothing breaks, and no other request holds the merchant row that a setup waits for
Undisturbed ==
  /\ faults = 0
  /\ \A s \in Setups : pc[s] = "lockRow" => rowLock[mno[s]] \in Setups \cup {None}

\* Setups that starve each other of connections cannot all fail: left to themselves, one
\* of them gets through.  This takes a pool with two connections besides those that the
\* rotations of other requests may keep.
SetupGoesThrough == <>(Undisturbed => setup.done)
=============================================================================
