-------------------------- MODULE AdminSetupProofs --------------------------
(* Proofs of what AdminSetup promises, for any number of requests and processes,
   any size of the pools and any number of faults.                             *)
EXTENDS AdminSetup, TLAPS

\* the time that the provers have for a step
USE SMTT(40), ZenonT(40)

\* Steps of a setup under the advisory lock, and those of them that may write.
UnderLock == Steps \ {"start", "wait"}
Writing == UnderLock \ {"state", "audit", "reply"}

\* Steps that only a setup takes.
SetupOnly == {"wait", "state", "user", "ensureUser", "createUser", "progress", "merchant",
              "create", "saveMerchant", "webhook", "mark"}

\* A request that has its merchant, and one that has drawn its secret.
Named == {"saveMerchant", "features", "webhook", "rotate", "lockRow", "insert",
          "mark", "audit", "reply", "SUCCESS"}
Won == {"mark", "audit", "reply", "SUCCESS"}

Routes ==
  \A r \in Requests : /\ pc[r] \in SetupOnly => r \in Setups
                      /\ pc[r] = "audit" => r \in AdminCreates \cup AdminRotates

Owned == \A r \in Requests : pc[r] \in Named => mno[r] \in created

\* What a setup has done by the time it gets to a step.
Prepared ==
  \A r \in Setups :
    /\ pc[r] \in Writing \ {"user", "ensureUser", "createUser"} => admin[UserOf[r]] # None
    /\ pc[r] \in {"webhook", "rotate", "lockRow", "insert", "mark"} => mno[r] \in featured
    /\ pc[r] \in {"rotate", "lockRow", "insert", "mark"} => mno[r] \in hooked
    /\ pc[r] = "mark" => active[mno[r]] # {}

Exclusion ==
  /\ lock \in Setups \cup {None}
  /\ \A r \in Setups : pc[r] \in UnderLock => lock = r \/ r \in severed

\* Once the flag is set nobody is on the way to write, and it is set before a reply.
Quiet == severed = {} /\ setup.done => \A r \in Setups : pc[r] \notin Writing
Marked == \A r \in Setups : pc[r] \in {"reply", "SUCCESS"} => setup.done
OnlyOne ==
  severed = {} =>
    \A r, s \in Setups : pc[r] \in {"reply", "SUCCESS"} /\ pc[s] \in {"reply", "SUCCESS"} => r = s

\* A rotation between its two statements holds the row; a drawn version is in the table.
Versions ==
  \A r \in Requests :
    /\ pc[r] = "insert" => rowLock[mno[r]] = r /\ told[r] = version[mno[r]] + 1
    /\ pc[r] \in Won => told[r] <= version[mno[r]]

Distinct ==
  \A r, s \in Requests :
    pc[r] \in Won /\ pc[s] \in Won /\ mno[r] = mno[s] /\ told[r] = told[s] => r = s

Carried ==
  \A m \in Requests :
    /\ \A r \in active[m] : pc[r] \in Won \cup Answers
    /\ version[m] > 0 => \E r \in Requests : active[m] = {r} /\ told[r] = version[m]

\* What the flag promises while no lock session breaks, and what it promises in any case.
Recorded ==
  setup.done /\ severed = {} =>
    /\ setup.merchant \in created \cap featured \cap hooked
    /\ active[setup.merchant] # {}
    /\ setup.user # None /\ admin[setup.user] # None

Promised ==
  /\ setup.merchant \in created \cup {None}
  /\ \A r \in Requests : saw[r] \in created \cup {None}
  /\ setup.user # None => admin[setup.user] # None
  /\ setup.done => /\ setup.user # None /\ setup.merchant # None
                   /\ \E m \in Requests : Complete(m)

SetupInv ==
  /\ TypeOK /\ Routes /\ Owned
  /\ Prepared /\ Exclusion /\ Quiet /\ Marked /\ OnlyOne /\ Recorded /\ Promised

SecretInv == Versions /\ Distinct /\ Carried

-----------------------------------------------------------------------------
\* A request ends, or takes a merchant it could not read for one that is not there.
Ended(r) == \E a \in Answers : End(r, a) /\ (a = "SUCCESS" => pc[r] = "reply")
Misread(r) ==
  /\ pc[r] = "merchant" /\ pc' = [pc EXCEPT ![r] = "create"] /\ mno' = [mno EXCEPT ![r] = saw[r]]
  /\ UNCHANGED <<tables, saw, told, locks>>
Fails(r) == (Ended(r) \/ Misread(r)) /\ faults' \in 0..MaxFaults

\* Every answer and every error of a request is an end or a misread merchant.
LEMMA Failures ==
  ASSUME NEW r \in Requests, TypeOK,
         \/ AlreadyInitialized(r) \/ AdminUserExists(r) \/ Reply(r)
         \/ Timeout(r) \/ StatementFails(r)
  PROVE  Fails(r)
<1>1. CASE AlreadyInitialized(r)
  BY <1>1 DEF AlreadyInitialized, Fails, Ended, Answers, TypeOK
<1>2. CASE AdminUserExists(r)
  BY <1>2 DEF AdminUserExists, Fails, Ended, Answers, TypeOK
<1>3. CASE Reply(r)
  BY <1>3 DEF Reply, Fails, Ended, Answers, TypeOK
<1>4. ASSUME Error(r) PROVE Ended(r) \/ Misread(r)
  BY <1>4 DEF Error, Goto, Ended, Misread, Answers
<1>5. CASE Timeout(r)
  BY <1>4, <1>5 DEF Timeout, Fails, TypeOK
<1>6. CASE StatementFails(r)
  BY <1>4, <1>6, SetupAssumption DEF StatementFails, Fails, TypeOK
<1> QED  BY <1>1, <1>2, <1>3, <1>5, <1>6

\* SaveAdminSetupProgress and MarkAdminSetupInitialized write a well-formed row, and
\* neither clears the flag.
LEMMA KeptRow ==
  ASSUME NEW row \in Row, NEW u \in Users, NEW m \in Requests \cup {None}
  PROVE  /\ Kept(row, u, m) \in Row
         /\ [Kept(row, u, m) EXCEPT !.done = TRUE] \in Row
         /\ Kept(row, u, m).done <=> row.done
         /\ Kept(row, u, m).user = u
         /\ Kept(row, u, m).merchant = IF m = None THEN row.merchant ELSE m
         /\ [Kept(row, u, m) EXCEPT !.done = TRUE].done
         /\ [Kept(row, u, m) EXCEPT !.done = TRUE].user = u
         /\ [Kept(row, u, m) EXCEPT !.done = TRUE].merchant = IF m = None THEN row.merchant ELSE m
BY ZenonT(40) DEF Kept, Row

\* One step keeps the types.
LEMMA TypeStep ==
  ASSUME TypeOK, Routes, Owned, Exclusion, [Next]_vars
  PROVE  TypeOK'
<1> USE SetupAssumption DEF TypeOK, Steps, Answers, Requests, SetupOnly, Named, Routes, Owned,
        Exclusion
<1> USE DEF Statement, Goto, tables, locals, locks, vars
<1>1. ASSUME NEW r \in Requests, AcquireConn(r) PROVE TypeOK'
  BY <1>1, ZenonT(40) DEF AcquireConn
<1>2. ASSUME NEW r \in Requests, LockSetup(r) PROVE TypeOK'
  BY <1>2, ZenonT(40) DEF LockSetup
<1>3. ASSUME NEW r \in Requests, GetAdminSetupState(r) PROVE TypeOK'
  <2>1. setup.merchant \in Requests \cup {None}
    BY ZenonT(40) DEF Row
  <2> QED  BY <1>3, <2>1 DEF GetAdminSetupState
<1>4. ASSUME NEW r \in Requests, GetAdminUserByUsername(r) PROVE TypeOK'
  BY <1>4, ZenonT(40) DEF GetAdminUserByUsername
<1>5. ASSUME NEW r \in Requests, EnsureAdminUser(r) PROVE TypeOK'
  BY <1>5, ZenonT(40) DEF EnsureAdminUser
<1>6. ASSUME NEW r \in Requests, CreateAdminUser(r) PROVE TypeOK'
  BY <1>6, ZenonT(40) DEF CreateAdminUser
<1>7. ASSUME NEW r \in Requests, SaveAdminSetupProgress(r) PROVE TypeOK'
  <2>1. r \in Setups /\ UserOf[r] \in Users /\ saw[r] \in Requests \cup {None}
    BY <1>7 DEF SaveAdminSetupProgress
  <2>2. setup' \in Row
    BY <1>7, <2>1, KeptRow, ZenonT(40) DEF SaveAdminSetupProgress
  <2> QED  BY <1>7, <2>1, <2>2, ZenonT(40) DEF SaveAdminSetupProgress
<1>8. ASSUME NEW r \in Requests, GetMerchantConfigByNo(r) PROVE TypeOK'
  BY <1>8, ZenonT(40) DEF GetMerchantConfigByNo
<1>9. ASSUME NEW r \in Requests, SaveMerchant(r) PROVE TypeOK'
  <2>1. r \in Setups /\ UserOf[r] \in Users /\ mno[r] \in Requests \cup {None}
    BY <1>9 DEF SaveMerchant
  <2>2. setup' \in Row
    BY <1>9, <2>1, KeptRow, ZenonT(40) DEF SaveMerchant
  <2> QED  BY <1>9, <2>1, <2>2, ZenonT(40) DEF SaveMerchant
<1>10. ASSUME NEW r \in Requests, UpsertWebhookConfig(r) PROVE TypeOK'
  BY <1>10 DEF UpsertWebhookConfig
<1>11. ASSUME NEW r \in Requests, MarkAdminSetupInitialized(r) PROVE TypeOK'
  <2>1. r \in Setups /\ UserOf[r] \in Users /\ mno[r] \in Requests \cup {None}
    BY <1>11, ZenonT(40) DEF MarkAdminSetupInitialized
  <2>2. setup' \in Row
    BY <1>11, <2>1, KeptRow, ZenonT(40) DEF MarkAdminSetupInitialized
  <2> QED  BY <1>11, <2>1, <2>2, ZenonT(40) DEF MarkAdminSetupInitialized
<1>12. ASSUME NEW r \in Requests, CreateMerchant(r) PROVE TypeOK'
  BY <1>12, ZenonT(40) DEF CreateMerchant
<1>13. ASSUME NEW r \in Requests, UpsertMerchantFeatureConfig(r) PROVE TypeOK'
  BY <1>13 DEF UpsertMerchantFeatureConfig
<1>14. ASSUME NEW r \in Requests, FindMerchant(r) PROVE TypeOK'
  BY <1>14 DEF FindMerchant
<1>15. ASSUME NEW r \in Requests, BeginRotate(r) PROVE TypeOK'
  BY <1>15, ZenonT(40) DEF BeginRotate
<1>16. ASSUME NEW r \in Requests, LockMerchantNo(r) PROVE TypeOK'
  BY <1>16 DEF LockMerchantNo
<1>17. ASSUME NEW r \in Requests, InsertSecret(r) PROVE TypeOK'
  BY <1>17 DEF InsertSecret, AfterRotate
<1>18. ASSUME NEW r \in Requests, Audit(r) PROVE TypeOK'
  BY <1>18 DEF Audit
<1>19. ASSUME NEW r \in Requests, Fails(r) PROVE TypeOK'
  BY <1>19 DEF Fails, Ended, Misread, End, Release
<1>20. ASSUME NEW r \in Requests, LockSessionBreaks(r) PROVE TypeOK'
  BY <1>20 DEF LockSessionBreaks
<1>21. ASSUME NEW p \in Processes, Crash(p) PROVE TypeOK'
  BY <1>21 DEF Crash
<1>22. CASE UNCHANGED vars
  BY <1>22, ZenonT(40)
<1> HIDE DEF TypeOK, Steps, Answers, Requests, SetupOnly, Named, Routes, Owned, Exclusion
<1> HIDE DEF Statement, Goto, tables, locals, locks, vars
<1> QED
  BY <1>1, <1>2, <1>3, <1>4, <1>5, <1>6, <1>7, <1>8, <1>9, <1>10, <1>11,
     <1>12, <1>13, <1>14, <1>15, <1>16, <1>17, <1>18, <1>19, <1>20, <1>21, <1>22, Failures,
     ZenonT(40)
  DEF Next, Step, InitializeStep, MerchantStep

\* Only a setup takes the steps of handleInitialize, only the console audits.
LEMMA RoutesStep ==
  ASSUME TypeOK, Routes, [Next]_vars
  PROVE  Routes'
<1> USE SetupAssumption DEF TypeOK, Steps, Answers, Requests, SetupOnly, Routes
<1> USE DEF Statement, Goto, tables, locals, locks, vars
<1>1. ASSUME NEW r \in Requests, AcquireConn(r) PROVE Routes'
  BY <1>1, ZenonT(40) DEF AcquireConn
<1>2. ASSUME NEW r \in Requests, LockSetup(r) PROVE Routes'
  BY <1>2, ZenonT(40) DEF LockSetup
<1>3. ASSUME NEW r \in Requests, GetAdminSetupState(r) PROVE Routes'
  BY <1>3, ZenonT(40) DEF GetAdminSetupState
<1>4. ASSUME NEW r \in Requests, GetAdminUserByUsername(r) PROVE Routes'
  BY <1>4, ZenonT(40) DEF GetAdminUserByUsername
<1>5. ASSUME NEW r \in Requests, EnsureAdminUser(r) PROVE Routes'
  BY <1>5, ZenonT(40) DEF EnsureAdminUser
<1>6. ASSUME NEW r \in Requests, CreateAdminUser(r) PROVE Routes'
  BY <1>6, ZenonT(40) DEF CreateAdminUser
<1>7. ASSUME NEW r \in Requests, SaveAdminSetupProgress(r) PROVE Routes'
  BY <1>7, ZenonT(40) DEF SaveAdminSetupProgress
<1>8. ASSUME NEW r \in Requests, GetMerchantConfigByNo(r) PROVE Routes'
  BY <1>8, ZenonT(40) DEF GetMerchantConfigByNo
<1>9. ASSUME NEW r \in Requests, SaveMerchant(r) PROVE Routes'
  BY <1>9, ZenonT(40) DEF SaveMerchant
<1>10. ASSUME NEW r \in Requests, UpsertWebhookConfig(r) PROVE Routes'
  BY <1>10, ZenonT(40) DEF UpsertWebhookConfig
<1>11. ASSUME NEW r \in Requests, MarkAdminSetupInitialized(r) PROVE Routes'
  BY <1>11, ZenonT(40) DEF MarkAdminSetupInitialized
<1>12. ASSUME NEW r \in Requests, CreateMerchant(r) PROVE Routes'
  BY <1>12, ZenonT(40) DEF CreateMerchant
<1>13. ASSUME NEW r \in Requests, UpsertMerchantFeatureConfig(r) PROVE Routes'
  BY <1>13, ZenonT(40) DEF UpsertMerchantFeatureConfig
<1>14. ASSUME NEW r \in Requests, FindMerchant(r) PROVE Routes'
  BY <1>14, ZenonT(40) DEF FindMerchant
<1>15. ASSUME NEW r \in Requests, BeginRotate(r) PROVE Routes'
  BY <1>15, ZenonT(40) DEF BeginRotate
<1>16. ASSUME NEW r \in Requests, LockMerchantNo(r) PROVE Routes'
  BY <1>16, ZenonT(40) DEF LockMerchantNo
<1>17. ASSUME NEW r \in Requests, InsertSecret(r) PROVE Routes'
  BY <1>17 DEF InsertSecret, AfterRotate
<1>18. ASSUME NEW r \in Requests, Audit(r) PROVE Routes'
  BY <1>18, ZenonT(40) DEF Audit
<1>19. ASSUME NEW r \in Requests, Fails(r) PROVE Routes'
  BY <1>19 DEF Fails, Ended, Misread, End, Release
<1>20. ASSUME NEW r \in Requests, LockSessionBreaks(r) PROVE Routes'
  BY <1>20, ZenonT(40) DEF LockSessionBreaks
<1>21. ASSUME NEW p \in Processes, Crash(p) PROVE Routes'
  BY <1>21, ZenonT(40) DEF Crash
<1>22. CASE UNCHANGED vars
  BY <1>22, ZenonT(40)
<1> HIDE DEF TypeOK, Steps, Answers, Requests, SetupOnly, Routes
<1> HIDE DEF Statement, Goto, tables, locals, locks, vars
<1> QED
  BY <1>1, <1>2, <1>3, <1>4, <1>5, <1>6, <1>7, <1>8, <1>9, <1>10, <1>11,
     <1>12, <1>13, <1>14, <1>15, <1>16, <1>17, <1>18, <1>19, <1>20, <1>21, <1>22, Failures,
     ZenonT(40)
  DEF Next, Step, InitializeStep, MerchantStep

\* A request past the lookup or the creation of its merchant has one that exists.
LEMMA OwnedStep ==
  ASSUME TypeOK, Owned, [Next]_vars
  PROVE  Owned'
<1> USE SetupAssumption DEF TypeOK, Steps, Answers, Requests, Named, Owned
<1> USE DEF Statement, Goto, tables, locals, locks, vars
<1>1. ASSUME NEW r \in Requests, AcquireConn(r) PROVE Owned'
  BY <1>1, ZenonT(40) DEF AcquireConn
<1>2. ASSUME NEW r \in Requests, LockSetup(r) PROVE Owned'
  BY <1>2, ZenonT(40) DEF LockSetup
<1>3. ASSUME NEW r \in Requests, GetAdminSetupState(r) PROVE Owned'
  BY <1>3, ZenonT(40) DEF GetAdminSetupState
<1>4. ASSUME NEW r \in Requests, GetAdminUserByUsername(r) PROVE Owned'
  BY <1>4, ZenonT(40) DEF GetAdminUserByUsername
<1>5. ASSUME NEW r \in Requests, EnsureAdminUser(r) PROVE Owned'
  BY <1>5, ZenonT(40) DEF EnsureAdminUser
<1>6. ASSUME NEW r \in Requests, CreateAdminUser(r) PROVE Owned'
  BY <1>6, ZenonT(40) DEF CreateAdminUser
<1>7. ASSUME NEW r \in Requests, SaveAdminSetupProgress(r) PROVE Owned'
  BY <1>7, ZenonT(40) DEF SaveAdminSetupProgress
<1>8. ASSUME NEW r \in Requests, GetMerchantConfigByNo(r) PROVE Owned'
  BY <1>8, ZenonT(40) DEF GetMerchantConfigByNo
<1>9. ASSUME NEW r \in Requests, SaveMerchant(r) PROVE Owned'
  BY <1>9, ZenonT(40) DEF SaveMerchant
<1>10. ASSUME NEW r \in Requests, UpsertWebhookConfig(r) PROVE Owned'
  BY <1>10, ZenonT(40) DEF UpsertWebhookConfig
<1>11. ASSUME NEW r \in Requests, MarkAdminSetupInitialized(r) PROVE Owned'
  BY <1>11, ZenonT(40) DEF MarkAdminSetupInitialized
<1>12. ASSUME NEW r \in Requests, CreateMerchant(r) PROVE Owned'
  BY <1>12, ZenonT(40) DEF CreateMerchant
<1>13. ASSUME NEW r \in Requests, UpsertMerchantFeatureConfig(r) PROVE Owned'
  BY <1>13, ZenonT(40) DEF UpsertMerchantFeatureConfig
<1>14. ASSUME NEW r \in Requests, FindMerchant(r) PROVE Owned'
  BY <1>14 DEF FindMerchant
<1>15. ASSUME NEW r \in Requests, BeginRotate(r) PROVE Owned'
  BY <1>15, ZenonT(40) DEF BeginRotate
<1>16. ASSUME NEW r \in Requests, LockMerchantNo(r) PROVE Owned'
  BY <1>16, ZenonT(40) DEF LockMerchantNo
<1>17. ASSUME NEW r \in Requests, InsertSecret(r) PROVE Owned'
  BY <1>17, ZenonT(40) DEF InsertSecret, AfterRotate
<1>18. ASSUME NEW r \in Requests, Audit(r) PROVE Owned'
  BY <1>18, ZenonT(40) DEF Audit
<1>19. ASSUME NEW r \in Requests, Fails(r) PROVE Owned'
  BY <1>19 DEF Fails, Ended, Misread, End, Release
<1>20. ASSUME NEW r \in Requests, LockSessionBreaks(r) PROVE Owned'
  BY <1>20, ZenonT(40) DEF LockSessionBreaks
<1>21. ASSUME NEW p \in Processes, Crash(p) PROVE Owned'
  BY <1>21, ZenonT(40) DEF Crash
<1>22. CASE UNCHANGED vars
  BY <1>22, ZenonT(40)
<1> HIDE DEF TypeOK, Steps, Answers, Requests, Named, Owned
<1> HIDE DEF Statement, Goto, tables, locals, locks, vars
<1> QED
  BY <1>1, <1>2, <1>3, <1>4, <1>5, <1>6, <1>7, <1>8, <1>9, <1>10, <1>11,
     <1>12, <1>13, <1>14, <1>15, <1>16, <1>17, <1>18, <1>19, <1>20, <1>21, <1>22, Failures
  DEF Next, Step, InitializeStep, MerchantStep

\* A setup gets to a step only by way of the steps before it.
LEMMA PreparedStep ==
  ASSUME TypeOK, Routes, Owned, Prepared, [Next]_vars
  PROVE  Prepared'
<1> USE SetupAssumption DEF TypeOK, Steps, Answers, Requests, SetupOnly, Named, UnderLock,
        Writing, Routes, Owned, Prepared
<1> USE DEF Statement, Goto, tables, locals, locks, vars
<1>1. ASSUME NEW r \in Requests, AcquireConn(r) PROVE Prepared'
  BY <1>1, ZenonT(40) DEF AcquireConn
<1>2. ASSUME NEW r \in Requests, LockSetup(r) PROVE Prepared'
  BY <1>2, ZenonT(40) DEF LockSetup
<1>3. ASSUME NEW r \in Requests, GetAdminSetupState(r) PROVE Prepared'
  BY <1>3, ZenonT(40) DEF GetAdminSetupState
<1>4. ASSUME NEW r \in Requests, GetAdminUserByUsername(r) PROVE Prepared'
  BY <1>4, ZenonT(40) DEF GetAdminUserByUsername
<1>5. ASSUME NEW r \in Requests, EnsureAdminUser(r) PROVE Prepared'
  BY <1>5, ZenonT(40) DEF EnsureAdminUser
<1>6. ASSUME NEW r \in Requests, CreateAdminUser(r) PROVE Prepared'
  BY <1>6 DEF CreateAdminUser
<1>7. ASSUME NEW r \in Requests, SaveAdminSetupProgress(r) PROVE Prepared'
  BY <1>7, ZenonT(40) DEF SaveAdminSetupProgress
<1>8. ASSUME NEW r \in Requests, GetMerchantConfigByNo(r) PROVE Prepared'
  BY <1>8 DEF GetMerchantConfigByNo
<1>9. ASSUME NEW r \in Requests, SaveMerchant(r) PROVE Prepared'
  BY <1>9 DEF SaveMerchant
<1>10. ASSUME NEW r \in Requests, UpsertWebhookConfig(r) PROVE Prepared'
  BY <1>10, ZenonT(40) DEF UpsertWebhookConfig
<1>11. ASSUME NEW r \in Requests, MarkAdminSetupInitialized(r) PROVE Prepared'
  BY <1>11, ZenonT(40) DEF MarkAdminSetupInitialized
<1>12. ASSUME NEW r \in Requests, CreateMerchant(r) PROVE Prepared'
  BY <1>12 DEF CreateMerchant
<1>13. ASSUME NEW r \in Requests, UpsertMerchantFeatureConfig(r) PROVE Prepared'
  BY <1>13 DEF UpsertMerchantFeatureConfig
<1>14. ASSUME NEW r \in Requests, FindMerchant(r) PROVE Prepared'
  BY <1>14 DEF FindMerchant
<1>15. ASSUME NEW r \in Requests, BeginRotate(r) PROVE Prepared'
  BY <1>15, ZenonT(40) DEF BeginRotate
<1>16. ASSUME NEW r \in Requests, LockMerchantNo(r) PROVE Prepared'
  BY <1>16, ZenonT(40) DEF LockMerchantNo
<1>17. ASSUME NEW r \in Requests, InsertSecret(r) PROVE Prepared'
  BY <1>17 DEF InsertSecret, AfterRotate
<1>18. ASSUME NEW r \in Requests, Audit(r) PROVE Prepared'
  BY <1>18 DEF Audit
<1>19. ASSUME NEW r \in Requests, Fails(r) PROVE Prepared'
  BY <1>19 DEF Fails, Ended, Misread, End, Release
<1>20. ASSUME NEW r \in Requests, LockSessionBreaks(r) PROVE Prepared'
  BY <1>20, ZenonT(40) DEF LockSessionBreaks
<1>21. ASSUME NEW p \in Processes, Crash(p) PROVE Prepared'
  BY <1>21, ZenonT(40) DEF Crash
<1>22. CASE UNCHANGED vars
  BY <1>22, ZenonT(40)
<1> HIDE DEF TypeOK, Steps, Answers, Requests, SetupOnly, Named, UnderLock, Writing, Routes,
             Owned, Prepared
<1> HIDE DEF Statement, Goto, tables, locals, locks, vars
<1> QED
  BY <1>1, <1>2, <1>3, <1>4, <1>5, <1>6, <1>7, <1>8, <1>9, <1>10, <1>11,
     <1>12, <1>13, <1>14, <1>15, <1>16, <1>17, <1>18, <1>19, <1>20, <1>21, <1>22, Failures,
     ZenonT(40)
  DEF Next, Step, InitializeStep, MerchantStep

\* Only the holder of the advisory lock, or a setup whose lock session broke, is past it.
LEMMA ExclusionStep ==
  ASSUME TypeOK, Routes, Exclusion, [Next]_vars
  PROVE  Exclusion'
<1> USE SetupAssumption DEF TypeOK, Steps, Answers, Requests, SetupOnly, UnderLock, Routes,
        Exclusion
<1> USE DEF Statement, Goto, tables, locals, locks, vars
<1>1. ASSUME NEW r \in Requests, AcquireConn(r) PROVE Exclusion'
  BY <1>1, ZenonT(40) DEF AcquireConn
<1>2. ASSUME NEW r \in Requests, LockSetup(r) PROVE Exclusion'
  BY <1>2, ZenonT(40) DEF LockSetup
<1>3. ASSUME NEW r \in Requests, GetAdminSetupState(r) PROVE Exclusion'
  BY <1>3, ZenonT(40) DEF GetAdminSetupState
<1>4. ASSUME NEW r \in Requests, GetAdminUserByUsername(r) PROVE Exclusion'
  BY <1>4, ZenonT(40) DEF GetAdminUserByUsername
<1>5. ASSUME NEW r \in Requests, EnsureAdminUser(r) PROVE Exclusion'
  BY <1>5, ZenonT(40) DEF EnsureAdminUser
<1>6. ASSUME NEW r \in Requests, CreateAdminUser(r) PROVE Exclusion'
  BY <1>6, ZenonT(40) DEF CreateAdminUser
<1>7. ASSUME NEW r \in Requests, SaveAdminSetupProgress(r) PROVE Exclusion'
  BY <1>7, ZenonT(40) DEF SaveAdminSetupProgress
<1>8. ASSUME NEW r \in Requests, GetMerchantConfigByNo(r) PROVE Exclusion'
  BY <1>8, ZenonT(40) DEF GetMerchantConfigByNo
<1>9. ASSUME NEW r \in Requests, SaveMerchant(r) PROVE Exclusion'
  BY <1>9, ZenonT(40) DEF SaveMerchant
<1>10. ASSUME NEW r \in Requests, UpsertWebhookConfig(r) PROVE Exclusion'
  BY <1>10, ZenonT(40) DEF UpsertWebhookConfig
<1>11. ASSUME NEW r \in Requests, MarkAdminSetupInitialized(r) PROVE Exclusion'
  BY <1>11, ZenonT(40) DEF MarkAdminSetupInitialized
<1>12. ASSUME NEW r \in Requests, CreateMerchant(r) PROVE Exclusion'
  BY <1>12 DEF CreateMerchant
<1>13. ASSUME NEW r \in Requests, UpsertMerchantFeatureConfig(r) PROVE Exclusion'
  BY <1>13, ZenonT(40) DEF UpsertMerchantFeatureConfig
<1>14. ASSUME NEW r \in Requests, FindMerchant(r) PROVE Exclusion'
  BY <1>14 DEF FindMerchant
<1>15. ASSUME NEW r \in Requests, BeginRotate(r) PROVE Exclusion'
  BY <1>15, ZenonT(40) DEF BeginRotate
<1>16. ASSUME NEW r \in Requests, LockMerchantNo(r) PROVE Exclusion'
  BY <1>16, ZenonT(40) DEF LockMerchantNo
<1>17. ASSUME NEW r \in Requests, InsertSecret(r) PROVE Exclusion'
  BY <1>17, ZenonT(40) DEF InsertSecret, AfterRotate
<1>18. ASSUME NEW r \in Requests, Audit(r) PROVE Exclusion'
  BY <1>18, ZenonT(40) DEF Audit
<1>19. ASSUME NEW r \in Requests, Fails(r) PROVE Exclusion'
  BY <1>19 DEF Fails, Ended, Misread, End, Release
<1>20. ASSUME NEW r \in Requests, LockSessionBreaks(r) PROVE Exclusion'
  BY <1>20, ZenonT(40) DEF LockSessionBreaks
<1>21. ASSUME NEW p \in Processes, Crash(p) PROVE Exclusion'
  BY <1>21, ZenonT(40) DEF Crash
<1>22. CASE UNCHANGED vars
  BY <1>22, ZenonT(40)
<1> HIDE DEF TypeOK, Steps, Answers, Requests, SetupOnly, UnderLock, Routes, Exclusion
<1> HIDE DEF Statement, Goto, tables, locals, locks, vars
<1> QED
  BY <1>1, <1>2, <1>3, <1>4, <1>5, <1>6, <1>7, <1>8, <1>9, <1>10, <1>11,
     <1>12, <1>13, <1>14, <1>15, <1>16, <1>17, <1>18, <1>19, <1>20, <1>21, <1>22, Failures,
     ZenonT(40)
  DEF Next, Step, InitializeStep, MerchantStep

\* When the flag is set no other setup is on its way to write, for it would hold the lock.
LEMMA QuietStep ==
  ASSUME TypeOK, Routes, Exclusion, Quiet, [Next]_vars
  PROVE  Quiet'
<1> USE SetupAssumption DEF TypeOK, Steps, Answers, Requests, SetupOnly, UnderLock, Writing,
        Routes, Exclusion, Quiet
<1> USE DEF Statement, Goto, tables, locals, locks, vars
<1>1. ASSUME NEW r \in Requests, AcquireConn(r) PROVE Quiet'
  BY <1>1, ZenonT(40) DEF AcquireConn
<1>2. ASSUME NEW r \in Requests, LockSetup(r) PROVE Quiet'
  BY <1>2, ZenonT(40) DEF LockSetup
<1>3. ASSUME NEW r \in Requests, GetAdminSetupState(r) PROVE Quiet'
  BY <1>3, ZenonT(40) DEF GetAdminSetupState
<1>4. ASSUME NEW r \in Requests, GetAdminUserByUsername(r) PROVE Quiet'
  BY <1>4, ZenonT(40) DEF GetAdminUserByUsername
<1>5. ASSUME NEW r \in Requests, EnsureAdminUser(r) PROVE Quiet'
  BY <1>5, ZenonT(40) DEF EnsureAdminUser
<1>6. ASSUME NEW r \in Requests, CreateAdminUser(r) PROVE Quiet'
  BY <1>6, ZenonT(40) DEF CreateAdminUser
<1>7. ASSUME NEW r \in Requests, SaveAdminSetupProgress(r) PROVE Quiet'
  <2>1. r \in Setups /\ UserOf[r] \in Users /\ saw[r] \in Requests \cup {None}
    BY <1>7 DEF SaveAdminSetupProgress
  <2>2. setup'.done <=> setup.done
    BY <1>7, <2>1, KeptRow, ZenonT(40) DEF SaveAdminSetupProgress
  <2> QED  BY <1>7, <2>1, <2>2, ZenonT(40) DEF SaveAdminSetupProgress
<1>8. ASSUME NEW r \in Requests, GetMerchantConfigByNo(r) PROVE Quiet'
  BY <1>8 DEF GetMerchantConfigByNo
<1>9. ASSUME NEW r \in Requests, SaveMerchant(r) PROVE Quiet'
  <2>1. r \in Setups /\ UserOf[r] \in Users /\ mno[r] \in Requests \cup {None}
    BY <1>9 DEF SaveMerchant
  <2>2. setup'.done <=> setup.done
    BY <1>9, <2>1, KeptRow, ZenonT(40) DEF SaveMerchant
  <2> QED  BY <1>9, <2>1, <2>2, ZenonT(40) DEF SaveMerchant
<1>10. ASSUME NEW r \in Requests, UpsertWebhookConfig(r) PROVE Quiet'
  BY <1>10 DEF UpsertWebhookConfig
<1>11. ASSUME NEW r \in Requests, MarkAdminSetupInitialized(r) PROVE Quiet'
  <2>1. r \in Setups /\ UserOf[r] \in Users /\ mno[r] \in Requests \cup {None}
    BY <1>11, ZenonT(40) DEF MarkAdminSetupInitialized
  <2>2. setup'.done <=> TRUE
    BY <1>11, <2>1, KeptRow, ZenonT(40) DEF MarkAdminSetupInitialized
  <2> QED  BY <1>11, <2>1, <2>2, ZenonT(40) DEF MarkAdminSetupInitialized
<1>12. ASSUME NEW r \in Requests, CreateMerchant(r) PROVE Quiet'
  BY <1>12 DEF CreateMerchant
<1>13. ASSUME NEW r \in Requests, UpsertMerchantFeatureConfig(r) PROVE Quiet'
  BY <1>13 DEF UpsertMerchantFeatureConfig
<1>14. ASSUME NEW r \in Requests, FindMerchant(r) PROVE Quiet'
  BY <1>14 DEF FindMerchant
<1>15. ASSUME NEW r \in Requests, BeginRotate(r) PROVE Quiet'
  BY <1>15 DEF BeginRotate
<1>16. ASSUME NEW r \in Requests, LockMerchantNo(r) PROVE Quiet'
  BY <1>16 DEF LockMerchantNo
<1>17. ASSUME NEW r \in Requests, InsertSecret(r) PROVE Quiet'
  BY <1>17, ZenonT(40) DEF InsertSecret, AfterRotate
<1>18. ASSUME NEW r \in Requests, Audit(r) PROVE Quiet'
  BY <1>18, ZenonT(40) DEF Audit
<1>19. ASSUME NEW r \in Requests, Fails(r) PROVE Quiet'
  BY <1>19 DEF Fails, Ended, Misread, End, Release
<1>20. ASSUME NEW r \in Requests, LockSessionBreaks(r) PROVE Quiet'
  BY <1>20 DEF LockSessionBreaks
<1>21. ASSUME NEW p \in Processes, Crash(p) PROVE Quiet'
  BY <1>21, ZenonT(40) DEF Crash
<1>22. CASE UNCHANGED vars
  BY <1>22, ZenonT(40)
<1> HIDE DEF TypeOK, Steps, Answers, Requests, SetupOnly, UnderLock, Writing, Routes, Exclusion,
             Quiet
<1> HIDE DEF Statement, Goto, tables, locals, locks, vars
<1> QED
  BY <1>1, <1>2, <1>3, <1>4, <1>5, <1>6, <1>7, <1>8, <1>9, <1>10, <1>11,
     <1>12, <1>13, <1>14, <1>15, <1>16, <1>17, <1>18, <1>19, <1>20, <1>21, <1>22, Failures
  DEF Next, Step, InitializeStep, MerchantStep

\* A setup is answered with success only after it set the flag.
LEMMA MarkedStep ==
  ASSUME TypeOK, Routes, Marked, [Next]_vars
  PROVE  Marked'
<1> USE SetupAssumption DEF TypeOK, Steps, Answers, Requests, SetupOnly, Routes, Marked
<1> USE DEF Statement, Goto, tables, locals, locks, vars
<1>1. ASSUME NEW r \in Requests, AcquireConn(r) PROVE Marked'
  BY <1>1, ZenonT(40) DEF AcquireConn
<1>2. ASSUME NEW r \in Requests, LockSetup(r) PROVE Marked'
  BY <1>2, ZenonT(40) DEF LockSetup
<1>3. ASSUME NEW r \in Requests, GetAdminSetupState(r) PROVE Marked'
  BY <1>3, ZenonT(40) DEF GetAdminSetupState
<1>4. ASSUME NEW r \in Requests, GetAdminUserByUsername(r) PROVE Marked'
  BY <1>4, ZenonT(40) DEF GetAdminUserByUsername
<1>5. ASSUME NEW r \in Requests, EnsureAdminUser(r) PROVE Marked'
  BY <1>5, ZenonT(40) DEF EnsureAdminUser
<1>6. ASSUME NEW r \in Requests, CreateAdminUser(r) PROVE Marked'
  BY <1>6, ZenonT(40) DEF CreateAdminUser
<1>7. ASSUME NEW r \in Requests, SaveAdminSetupProgress(r) PROVE Marked'
  <2>1. r \in Setups /\ UserOf[r] \in Users /\ saw[r] \in Requests \cup {None}
    BY <1>7 DEF SaveAdminSetupProgress
  <2>2. setup'.done <=> setup.done
    BY <1>7, <2>1, KeptRow, ZenonT(40) DEF SaveAdminSetupProgress
  <2> QED  BY <1>7, <2>1, <2>2, ZenonT(40) DEF SaveAdminSetupProgress
<1>8. ASSUME NEW r \in Requests, GetMerchantConfigByNo(r) PROVE Marked'
  BY <1>8, ZenonT(40) DEF GetMerchantConfigByNo
<1>9. ASSUME NEW r \in Requests, SaveMerchant(r) PROVE Marked'
  <2>1. r \in Setups /\ UserOf[r] \in Users /\ mno[r] \in Requests \cup {None}
    BY <1>9 DEF SaveMerchant
  <2>2. setup'.done <=> setup.done
    BY <1>9, <2>1, KeptRow, ZenonT(40) DEF SaveMerchant
  <2> QED  BY <1>9, <2>1, <2>2, ZenonT(40) DEF SaveMerchant
<1>10. ASSUME NEW r \in Requests, UpsertWebhookConfig(r) PROVE Marked'
  BY <1>10 DEF UpsertWebhookConfig
<1>11. ASSUME NEW r \in Requests, MarkAdminSetupInitialized(r) PROVE Marked'
  <2>1. r \in Setups /\ UserOf[r] \in Users /\ mno[r] \in Requests \cup {None}
    BY <1>11, ZenonT(40) DEF MarkAdminSetupInitialized
  <2>2. setup'.done <=> TRUE
    BY <1>11, <2>1, KeptRow, ZenonT(40) DEF MarkAdminSetupInitialized
  <2> QED  BY <1>11, <2>1, <2>2, ZenonT(40) DEF MarkAdminSetupInitialized
<1>12. ASSUME NEW r \in Requests, CreateMerchant(r) PROVE Marked'
  BY <1>12, ZenonT(40) DEF CreateMerchant
<1>13. ASSUME NEW r \in Requests, UpsertMerchantFeatureConfig(r) PROVE Marked'
  BY <1>13, ZenonT(40) DEF UpsertMerchantFeatureConfig
<1>14. ASSUME NEW r \in Requests, FindMerchant(r) PROVE Marked'
  BY <1>14, ZenonT(40) DEF FindMerchant
<1>15. ASSUME NEW r \in Requests, BeginRotate(r) PROVE Marked'
  BY <1>15, ZenonT(40) DEF BeginRotate
<1>16. ASSUME NEW r \in Requests, LockMerchantNo(r) PROVE Marked'
  BY <1>16, ZenonT(40) DEF LockMerchantNo
<1>17. ASSUME NEW r \in Requests, InsertSecret(r) PROVE Marked'
  BY <1>17, ZenonT(40) DEF InsertSecret, AfterRotate
<1>18. ASSUME NEW r \in Requests, Audit(r) PROVE Marked'
  BY <1>18, ZenonT(40) DEF Audit
<1>19. ASSUME NEW r \in Requests, Fails(r) PROVE Marked'
  BY <1>19 DEF Fails, Ended, Misread, End, Release
<1>20. ASSUME NEW r \in Requests, LockSessionBreaks(r) PROVE Marked'
  BY <1>20, ZenonT(40) DEF LockSessionBreaks
<1>21. ASSUME NEW p \in Processes, Crash(p) PROVE Marked'
  BY <1>21, ZenonT(40) DEF Crash
<1>22. CASE UNCHANGED vars
  BY <1>22, ZenonT(40)
<1> HIDE DEF TypeOK, Steps, Answers, Requests, SetupOnly, Routes, Marked
<1> HIDE DEF Statement, Goto, tables, locals, locks, vars
<1> QED
  BY <1>1, <1>2, <1>3, <1>4, <1>5, <1>6, <1>7, <1>8, <1>9, <1>10, <1>11,
     <1>12, <1>13, <1>14, <1>15, <1>16, <1>17, <1>18, <1>19, <1>20, <1>21, <1>22, Failures,
     ZenonT(40)
  DEF Next, Step, InitializeStep, MerchantStep

\* A second setup cannot get to the reply.
LEMMA OnlyOneStep ==
  ASSUME TypeOK, Routes, Exclusion, Quiet, Marked, OnlyOne, [Next]_vars
  PROVE  OnlyOne'
<1> USE SetupAssumption DEF TypeOK, Steps, Answers, Requests, SetupOnly, UnderLock, Writing,
        Routes, Exclusion, Quiet, Marked, OnlyOne
<1> USE DEF Statement, Goto, tables, locals, locks, vars
<1>1. ASSUME NEW r \in Requests, AcquireConn(r) PROVE OnlyOne'
  BY <1>1, ZenonT(40) DEF AcquireConn
<1>2. ASSUME NEW r \in Requests, LockSetup(r) PROVE OnlyOne'
  BY <1>2, ZenonT(40) DEF LockSetup
<1>3. ASSUME NEW r \in Requests, GetAdminSetupState(r) PROVE OnlyOne'
  BY <1>3, ZenonT(40) DEF GetAdminSetupState
<1>4. ASSUME NEW r \in Requests, GetAdminUserByUsername(r) PROVE OnlyOne'
  BY <1>4, ZenonT(40) DEF GetAdminUserByUsername
<1>5. ASSUME NEW r \in Requests, EnsureAdminUser(r) PROVE OnlyOne'
  BY <1>5, ZenonT(40) DEF EnsureAdminUser
<1>6. ASSUME NEW r \in Requests, CreateAdminUser(r) PROVE OnlyOne'
  BY <1>6, ZenonT(40) DEF CreateAdminUser
<1>7. ASSUME NEW r \in Requests, SaveAdminSetupProgress(r) PROVE OnlyOne'
  BY <1>7, ZenonT(40) DEF SaveAdminSetupProgress
<1>8. ASSUME NEW r \in Requests, GetMerchantConfigByNo(r) PROVE OnlyOne'
  BY <1>8, ZenonT(40) DEF GetMerchantConfigByNo
<1>9. ASSUME NEW r \in Requests, SaveMerchant(r) PROVE OnlyOne'
  BY <1>9, ZenonT(40) DEF SaveMerchant
<1>10. ASSUME NEW r \in Requests, UpsertWebhookConfig(r) PROVE OnlyOne'
  BY <1>10, ZenonT(40) DEF UpsertWebhookConfig
<1>11. ASSUME NEW r \in Requests, MarkAdminSetupInitialized(r) PROVE OnlyOne'
  BY <1>11, ZenonT(40) DEF MarkAdminSetupInitialized
<1>12. ASSUME NEW r \in Requests, CreateMerchant(r) PROVE OnlyOne'
  BY <1>12, ZenonT(40) DEF CreateMerchant
<1>13. ASSUME NEW r \in Requests, UpsertMerchantFeatureConfig(r) PROVE OnlyOne'
  BY <1>13, ZenonT(40) DEF UpsertMerchantFeatureConfig
<1>14. ASSUME NEW r \in Requests, FindMerchant(r) PROVE OnlyOne'
  BY <1>14, ZenonT(40) DEF FindMerchant
<1>15. ASSUME NEW r \in Requests, BeginRotate(r) PROVE OnlyOne'
  BY <1>15, ZenonT(40) DEF BeginRotate
<1>16. ASSUME NEW r \in Requests, LockMerchantNo(r) PROVE OnlyOne'
  BY <1>16, ZenonT(40) DEF LockMerchantNo
<1>17. ASSUME NEW r \in Requests, InsertSecret(r) PROVE OnlyOne'
  BY <1>17 DEF InsertSecret, AfterRotate
<1>18. ASSUME NEW r \in Requests, Audit(r) PROVE OnlyOne'
  BY <1>18 DEF Audit
<1>19. ASSUME NEW r \in Requests, Fails(r) PROVE OnlyOne'
  BY <1>19 DEF Fails, Ended, Misread, End, Release
<1>20. ASSUME NEW r \in Requests, LockSessionBreaks(r) PROVE OnlyOne'
  BY <1>20, ZenonT(40) DEF LockSessionBreaks
<1>21. ASSUME NEW p \in Processes, Crash(p) PROVE OnlyOne'
  BY <1>21, ZenonT(40) DEF Crash
<1>22. CASE UNCHANGED vars
  BY <1>22, ZenonT(40)
<1> HIDE DEF TypeOK, Steps, Answers, Requests, SetupOnly, UnderLock, Writing, Routes, Exclusion,
             Quiet, Marked, OnlyOne
<1> HIDE DEF Statement, Goto, tables, locals, locks, vars
<1> QED
  BY <1>1, <1>2, <1>3, <1>4, <1>5, <1>6, <1>7, <1>8, <1>9, <1>10, <1>11,
     <1>12, <1>13, <1>14, <1>15, <1>16, <1>17, <1>18, <1>19, <1>20, <1>21, <1>22, Failures,
     ZenonT(40)
  DEF Next, Step, InitializeStep, MerchantStep

\* While no lock session breaks, the merchant that is recorded when the flag is set is
\* complete, and stays so.
LEMMA CompleteStep ==
  ASSUME TypeOK, Routes, Owned, Prepared, Exclusion, Quiet, Recorded, [Next]_vars
  PROVE  Recorded'
<1> USE SetupAssumption DEF TypeOK, Steps, Answers, Requests, SetupOnly, Named, UnderLock,
        Writing, Routes, Owned, Prepared, Exclusion, Quiet, Recorded
<1> USE DEF Statement, Goto, tables, locals, locks, vars
<1>1. ASSUME NEW r \in Requests, AcquireConn(r) PROVE Recorded'
  BY <1>1, ZenonT(40) DEF AcquireConn
<1>2. ASSUME NEW r \in Requests, LockSetup(r) PROVE Recorded'
  BY <1>2, ZenonT(40) DEF LockSetup
<1>3. ASSUME NEW r \in Requests, GetAdminSetupState(r) PROVE Recorded'
  BY <1>3 DEF GetAdminSetupState
<1>4. ASSUME NEW r \in Requests, GetAdminUserByUsername(r) PROVE Recorded'
  BY <1>4, ZenonT(40) DEF GetAdminUserByUsername
<1>5. ASSUME NEW r \in Requests, EnsureAdminUser(r) PROVE Recorded'
  BY <1>5, ZenonT(40) DEF EnsureAdminUser
<1>6. ASSUME NEW r \in Requests, CreateAdminUser(r) PROVE Recorded'
  BY <1>6 DEF CreateAdminUser
<1>7. ASSUME NEW r \in Requests, SaveAdminSetupProgress(r) PROVE Recorded'
  <2>1. r \in Setups /\ UserOf[r] \in Users /\ saw[r] \in Requests \cup {None}
    BY <1>7, ZenonT(40) DEF SaveAdminSetupProgress
  <2>2. setup'.done <=> setup.done
    BY <1>7, <2>1, KeptRow, ZenonT(40) DEF SaveAdminSetupProgress
  <2> QED  BY <1>7, <2>1, <2>2, ZenonT(40) DEF SaveAdminSetupProgress
<1>8. ASSUME NEW r \in Requests, GetMerchantConfigByNo(r) PROVE Recorded'
  BY <1>8, ZenonT(40) DEF GetMerchantConfigByNo
<1>9. ASSUME NEW r \in Requests, SaveMerchant(r) PROVE Recorded'
  <2>1. r \in Setups /\ UserOf[r] \in Users /\ mno[r] \in Requests \cup {None}
    BY <1>9, ZenonT(40) DEF SaveMerchant
  <2>2. setup'.done <=> setup.done
    BY <1>9, <2>1, KeptRow, ZenonT(40) DEF SaveMerchant
  <2> QED  BY <1>9, <2>1, <2>2, ZenonT(40) DEF SaveMerchant
<1>10. ASSUME NEW r \in Requests, UpsertWebhookConfig(r) PROVE Recorded'
  BY <1>10, ZenonT(40) DEF UpsertWebhookConfig
<1>11. ASSUME NEW r \in Requests, MarkAdminSetupInitialized(r) PROVE Recorded'
  <2>1. r \in Setups /\ UserOf[r] \in Users /\ mno[r] \in Requests \cup {None}
    BY <1>11, ZenonT(40) DEF MarkAdminSetupInitialized
  <2>2. setup'.done <=> TRUE
    BY <1>11, <2>1, KeptRow, ZenonT(40) DEF MarkAdminSetupInitialized
  <2>3. setup'.user = UserOf[r] /\ setup'.merchant = IF mno[r] = None THEN setup.merchant ELSE mno[r]
    BY <1>11, <2>1, KeptRow DEF MarkAdminSetupInitialized
  <2> QED  BY <1>11, <2>1, <2>2, <2>3 DEF MarkAdminSetupInitialized
<1>12. ASSUME NEW r \in Requests, CreateMerchant(r) PROVE Recorded'
  BY <1>12, ZenonT(40) DEF CreateMerchant
<1>13. ASSUME NEW r \in Requests, UpsertMerchantFeatureConfig(r) PROVE Recorded'
  BY <1>13, ZenonT(40) DEF UpsertMerchantFeatureConfig
<1>14. ASSUME NEW r \in Requests, FindMerchant(r) PROVE Recorded'
  BY <1>14, ZenonT(40) DEF FindMerchant
<1>15. ASSUME NEW r \in Requests, BeginRotate(r) PROVE Recorded'
  BY <1>15, ZenonT(40) DEF BeginRotate
<1>16. ASSUME NEW r \in Requests, LockMerchantNo(r) PROVE Recorded'
  BY <1>16, ZenonT(40) DEF LockMerchantNo
<1>17. ASSUME NEW r \in Requests, InsertSecret(r) PROVE Recorded'
  BY <1>17, ZenonT(40) DEF InsertSecret, AfterRotate
<1>18. ASSUME NEW r \in Requests, Audit(r) PROVE Recorded'
  BY <1>18, ZenonT(40) DEF Audit
<1>19. ASSUME NEW r \in Requests, Fails(r) PROVE Recorded'
  BY <1>19 DEF Fails, Ended, Misread, End, Release
<1>20. ASSUME NEW r \in Requests, LockSessionBreaks(r) PROVE Recorded'
  BY <1>20, ZenonT(40) DEF LockSessionBreaks
<1>21. ASSUME NEW p \in Processes, Crash(p) PROVE Recorded'
  BY <1>21, ZenonT(40) DEF Crash
<1>22. CASE UNCHANGED vars
  BY <1>22, ZenonT(40)
<1> HIDE DEF TypeOK, Steps, Answers, Requests, SetupOnly, Named, UnderLock, Writing, Routes,
             Owned, Prepared, Exclusion, Quiet, Recorded
<1> HIDE DEF Statement, Goto, tables, locals, locks, vars
<1> QED
  BY <1>1, <1>2, <1>3, <1>4, <1>5, <1>6, <1>7, <1>8, <1>9, <1>10, <1>11,
     <1>12, <1>13, <1>14, <1>15, <1>16, <1>17, <1>18, <1>19, <1>20, <1>21, <1>22, Failures,
     ZenonT(40)
  DEF Next, Step, InitializeStep, MerchantStep

\* The recorded merchant, and the one a setup read there, exist; the recorded user has an
\* account; and once the flag is set some merchant is complete.  No lock is needed for it.
LEMMA PromisedStep ==
  ASSUME TypeOK, Routes, Owned, Prepared, Promised, [Next]_vars
  PROVE  Promised'
<1> USE SetupAssumption DEF TypeOK, Requests, Promised, Complete
<1> USE DEF Statement, Goto, tables, locals, locks, vars
<1>1. ASSUME NEW r \in Requests, AcquireConn(r) PROVE Promised'
  BY <1>1, ZenonT(40) DEF AcquireConn
<1>2. ASSUME NEW r \in Requests, LockSetup(r) PROVE Promised'
  BY <1>2, ZenonT(40) DEF LockSetup
<1>3. ASSUME NEW r \in Requests, GetAdminSetupState(r) PROVE Promised'
  BY <1>3 DEF GetAdminSetupState
<1>4. ASSUME NEW r \in Requests, GetAdminUserByUsername(r) PROVE Promised'
  BY <1>4, ZenonT(40) DEF GetAdminUserByUsername
<1>5. ASSUME NEW r \in Requests, EnsureAdminUser(r) PROVE Promised'
  BY <1>5 DEF EnsureAdminUser
<1>6. ASSUME NEW r \in Requests, CreateAdminUser(r) PROVE Promised'
  BY <1>6 DEF CreateAdminUser
<1>7. ASSUME NEW r \in Requests, SaveAdminSetupProgress(r) PROVE Promised'
  <2>1. r \in Setups /\ UserOf[r] \in Users /\ saw[r] \in Requests \cup {None}
    BY <1>7, ZenonT(40) DEF SaveAdminSetupProgress, Routes, SetupOnly
  <2>2. setup \in Row /\ setup' = Kept(setup, UserOf[r], saw[r])
    BY <1>7, ZenonT(40) DEF SaveAdminSetupProgress
  <2>3. setup'.done <=> setup.done
    BY <1>7, <2>1, KeptRow, ZenonT(40) DEF SaveAdminSetupProgress
  <2>4. setup'.user = UserOf[r] /\ setup'.merchant = IF saw[r] = None THEN setup.merchant ELSE saw[r]
    <3> HIDE DEF TypeOK, Requests, Promised, Complete, Statement, Goto, tables, locals, locks, vars
    <3> QED  BY <2>1, <2>2 DEF Kept, Row
  <2>5. admin[UserOf[r]] # None
    BY <1>7, <2>1, ZenonT(40) DEF SaveAdminSetupProgress, Owned, Named, Prepared, Writing, UnderLock, Steps
  <2> QED  BY <1>7, <2>1, <2>3, <2>4, <2>5 DEF SaveAdminSetupProgress
<1>8. ASSUME NEW r \in Requests, GetMerchantConfigByNo(r) PROVE Promised'
  BY <1>8, ZenonT(40) DEF GetMerchantConfigByNo
<1>9. ASSUME NEW r \in Requests, SaveMerchant(r) PROVE Promised'
  <2>1. r \in Setups /\ UserOf[r] \in Users /\ mno[r] \in Requests \cup {None}
    BY <1>9, ZenonT(40) DEF SaveMerchant, Routes, SetupOnly
  <2>2. setup \in Row /\ setup' = Kept(setup, UserOf[r], mno[r])
    BY <1>9, ZenonT(40) DEF SaveMerchant
  <2>3. setup'.done <=> setup.done
    BY <1>9, <2>1, KeptRow, ZenonT(40) DEF SaveMerchant
  <2>4. setup'.user = UserOf[r] /\ setup'.merchant = IF mno[r] = None THEN setup.merchant ELSE mno[r]
    <3> HIDE DEF TypeOK, Requests, Promised, Complete, Statement, Goto, tables, locals, locks, vars
    <3> QED  BY <2>1, <2>2 DEF Kept, Row
  <2>5. admin[UserOf[r]] # None /\ mno[r] \in created
    BY <1>9, <2>1, ZenonT(40) DEF SaveMerchant, Owned, Named, Prepared, Writing, UnderLock, Steps
  <2> QED  BY <1>9, <2>1, <2>3, <2>4, <2>5 DEF SaveMerchant
<1>10. ASSUME NEW r \in Requests, UpsertWebhookConfig(r) PROVE Promised'
  BY <1>10 DEF UpsertWebhookConfig
<1>11. ASSUME NEW r \in Requests, MarkAdminSetupInitialized(r) PROVE Promised'
  <2>1. r \in Setups /\ UserOf[r] \in Users /\ mno[r] \in Requests \cup {None}
    BY <1>11, ZenonT(40) DEF MarkAdminSetupInitialized, Routes, SetupOnly
  <2>2. setup \in Row /\ setup' = [Kept(setup, UserOf[r], mno[r]) EXCEPT !.done = TRUE]
    BY <1>11, ZenonT(40) DEF MarkAdminSetupInitialized
  <2>3. setup'.done <=> TRUE
    BY <1>11, <2>1, KeptRow, ZenonT(40) DEF MarkAdminSetupInitialized
  <2>4. setup'.user = UserOf[r] /\ setup'.merchant = IF mno[r] = None THEN setup.merchant ELSE mno[r]
    <3> HIDE DEF TypeOK, Requests, Promised, Complete, Statement, Goto, tables, locals, locks, vars
    <3> QED  BY <2>1, <2>2 DEF Kept, Row
  <2>5. admin[UserOf[r]] # None /\ mno[r] \in created /\ Complete(mno[r])
    BY <1>11, <2>1, ZenonT(40) DEF MarkAdminSetupInitialized, Owned, Named, Prepared, Writing, UnderLock, Steps
  <2> QED  BY <1>11, <2>1, <2>3, <2>4, <2>5 DEF MarkAdminSetupInitialized
<1>12. ASSUME NEW r \in Requests, CreateMerchant(r) PROVE Promised'
  BY <1>12 DEF CreateMerchant
<1>13. ASSUME NEW r \in Requests, UpsertMerchantFeatureConfig(r) PROVE Promised'
  BY <1>13 DEF UpsertMerchantFeatureConfig
<1>14. ASSUME NEW r \in Requests, FindMerchant(r) PROVE Promised'
  BY <1>14, ZenonT(40) DEF FindMerchant
<1>15. ASSUME NEW r \in Requests, BeginRotate(r) PROVE Promised'
  BY <1>15, ZenonT(40) DEF BeginRotate
<1>16. ASSUME NEW r \in Requests, LockMerchantNo(r) PROVE Promised'
  BY <1>16, ZenonT(40) DEF LockMerchantNo
<1>17. ASSUME NEW r \in Requests, InsertSecret(r) PROVE Promised'
  BY <1>17, ZenonT(40) DEF InsertSecret
<1>18. ASSUME NEW r \in Requests, Audit(r) PROVE Promised'
  BY <1>18, ZenonT(40) DEF Audit
<1>19. ASSUME NEW r \in Requests, Fails(r) PROVE Promised'
  BY <1>19, ZenonT(40) DEF Fails, Ended, Misread, End
<1>20. ASSUME NEW r \in Requests, LockSessionBreaks(r) PROVE Promised'
  BY <1>20, ZenonT(40) DEF LockSessionBreaks
<1>21. ASSUME NEW p \in Processes, Crash(p) PROVE Promised'
  BY <1>21, ZenonT(40) DEF Crash
<1>22. CASE UNCHANGED vars
  BY <1>22, ZenonT(40)
<1> HIDE DEF TypeOK, Requests, Promised, Complete
<1> HIDE DEF Statement, Goto, tables, locals, locks, vars
<1> QED
  BY <1>1, <1>2, <1>3, <1>4, <1>5, <1>6, <1>7, <1>8, <1>9, <1>10, <1>11,
     <1>12, <1>13, <1>14, <1>15, <1>16, <1>17, <1>18, <1>19, <1>20, <1>21, <1>22, Failures,
     ZenonT(40)
  DEF Next, Step, InitializeStep, MerchantStep

\* The row lock of the merchant keeps a drawn version the next one until it is inserted.
LEMMA VersionsStep ==
  ASSUME TypeOK, Owned, Versions, [Next]_vars
  PROVE  Versions'
<1> USE SetupAssumption DEF TypeOK, Steps, Answers, Requests, Named, Won, Owned, Versions
<1> USE DEF Statement, Goto, tables, locals, locks, vars
<1>1. ASSUME NEW r \in Requests, AcquireConn(r) PROVE Versions'
  BY <1>1, ZenonT(40) DEF AcquireConn
<1>2. ASSUME NEW r \in Requests, LockSetup(r) PROVE Versions'
  BY <1>2 DEF LockSetup
<1>3. ASSUME NEW r \in Requests, GetAdminSetupState(r) PROVE Versions'
  BY <1>3, ZenonT(40) DEF GetAdminSetupState
<1>4. ASSUME NEW r \in Requests, GetAdminUserByUsername(r) PROVE Versions'
  BY <1>4, ZenonT(40) DEF GetAdminUserByUsername
<1>5. ASSUME NEW r \in Requests, EnsureAdminUser(r) PROVE Versions'
  BY <1>5, ZenonT(40) DEF EnsureAdminUser
<1>6. ASSUME NEW r \in Requests, CreateAdminUser(r) PROVE Versions'
  BY <1>6, ZenonT(40) DEF CreateAdminUser
<1>7. ASSUME NEW r \in Requests, SaveAdminSetupProgress(r) PROVE Versions'
  BY <1>7, ZenonT(40) DEF SaveAdminSetupProgress
<1>8. ASSUME NEW r \in Requests, GetMerchantConfigByNo(r) PROVE Versions'
  BY <1>8, ZenonT(40) DEF GetMerchantConfigByNo
<1>9. ASSUME NEW r \in Requests, SaveMerchant(r) PROVE Versions'
  BY <1>9, ZenonT(40) DEF SaveMerchant
<1>10. ASSUME NEW r \in Requests, UpsertWebhookConfig(r) PROVE Versions'
  BY <1>10, ZenonT(40) DEF UpsertWebhookConfig
<1>11. ASSUME NEW r \in Requests, MarkAdminSetupInitialized(r) PROVE Versions'
  BY <1>11, ZenonT(40) DEF MarkAdminSetupInitialized
<1>12. ASSUME NEW r \in Requests, CreateMerchant(r) PROVE Versions'
  BY <1>12, ZenonT(40) DEF CreateMerchant
<1>13. ASSUME NEW r \in Requests, UpsertMerchantFeatureConfig(r) PROVE Versions'
  BY <1>13, ZenonT(40) DEF UpsertMerchantFeatureConfig
<1>14. ASSUME NEW r \in Requests, FindMerchant(r) PROVE Versions'
  BY <1>14 DEF FindMerchant
<1>15. ASSUME NEW r \in Requests, BeginRotate(r) PROVE Versions'
  BY <1>15, ZenonT(40) DEF BeginRotate
<1>16. ASSUME NEW r \in Requests, LockMerchantNo(r) PROVE Versions'
  BY <1>16 DEF LockMerchantNo
<1>17. ASSUME NEW r \in Requests, InsertSecret(r) PROVE Versions'
  BY <1>17 DEF InsertSecret, AfterRotate
<1>18. ASSUME NEW r \in Requests, Audit(r) PROVE Versions'
  BY <1>18, ZenonT(40) DEF Audit
<1>19. ASSUME NEW r \in Requests, Fails(r) PROVE Versions'
  BY <1>19 DEF Fails, Ended, Misread, End, Release
<1>20. ASSUME NEW r \in Requests, LockSessionBreaks(r) PROVE Versions'
  BY <1>20 DEF LockSessionBreaks
<1>21. ASSUME NEW p \in Processes, Crash(p) PROVE Versions'
  BY <1>21, ZenonT(40) DEF Crash
<1>22. CASE UNCHANGED vars
  BY <1>22, ZenonT(40)
<1> HIDE DEF TypeOK, Steps, Answers, Requests, Named, Won, Owned, Versions
<1> HIDE DEF Statement, Goto, tables, locals, locks, vars
<1> QED
  BY <1>1, <1>2, <1>3, <1>4, <1>5, <1>6, <1>7, <1>8, <1>9, <1>10, <1>11,
     <1>12, <1>13, <1>14, <1>15, <1>16, <1>17, <1>18, <1>19, <1>20, <1>21, <1>22, Failures
  DEF Next, Step, InitializeStep, MerchantStep

\* A version that is inserted is above all that were told before.
LEMMA DistinctStep ==
  ASSUME TypeOK, Owned, Versions, Distinct, [Next]_vars
  PROVE  Distinct'
<1> USE SetupAssumption DEF TypeOK, Steps, Answers, Requests, Named, Won, Owned, Versions, Distinct
<1> USE DEF Statement, Goto, tables, locals, locks, vars
<1>1. ASSUME NEW r \in Requests, AcquireConn(r) PROVE Distinct'
  BY <1>1, ZenonT(40) DEF AcquireConn
<1>2. ASSUME NEW r \in Requests, LockSetup(r) PROVE Distinct'
  BY <1>2 DEF LockSetup
<1>3. ASSUME NEW r \in Requests, GetAdminSetupState(r) PROVE Distinct'
  BY <1>3, ZenonT(40) DEF GetAdminSetupState
<1>4. ASSUME NEW r \in Requests, GetAdminUserByUsername(r) PROVE Distinct'
  BY <1>4, ZenonT(40) DEF GetAdminUserByUsername
<1>5. ASSUME NEW r \in Requests, EnsureAdminUser(r) PROVE Distinct'
  BY <1>5, ZenonT(40) DEF EnsureAdminUser
<1>6. ASSUME NEW r \in Requests, CreateAdminUser(r) PROVE Distinct'
  BY <1>6 DEF CreateAdminUser
<1>7. ASSUME NEW r \in Requests, SaveAdminSetupProgress(r) PROVE Distinct'
  BY <1>7, ZenonT(40) DEF SaveAdminSetupProgress
<1>8. ASSUME NEW r \in Requests, GetMerchantConfigByNo(r) PROVE Distinct'
  BY <1>8 DEF GetMerchantConfigByNo
<1>9. ASSUME NEW r \in Requests, SaveMerchant(r) PROVE Distinct'
  BY <1>9, ZenonT(40) DEF SaveMerchant
<1>10. ASSUME NEW r \in Requests, UpsertWebhookConfig(r) PROVE Distinct'
  BY <1>10, ZenonT(40) DEF UpsertWebhookConfig
<1>11. ASSUME NEW r \in Requests, MarkAdminSetupInitialized(r) PROVE Distinct'
  BY <1>11 DEF MarkAdminSetupInitialized
<1>12. ASSUME NEW r \in Requests, CreateMerchant(r) PROVE Distinct'
  BY <1>12, ZenonT(40) DEF CreateMerchant
<1>13. ASSUME NEW r \in Requests, UpsertMerchantFeatureConfig(r) PROVE Distinct'
  BY <1>13, ZenonT(40) DEF UpsertMerchantFeatureConfig
<1>14. ASSUME NEW r \in Requests, FindMerchant(r) PROVE Distinct'
  BY <1>14 DEF FindMerchant
<1>15. ASSUME NEW r \in Requests, BeginRotate(r) PROVE Distinct'
  BY <1>15, ZenonT(40) DEF BeginRotate
<1>16. ASSUME NEW r \in Requests, LockMerchantNo(r) PROVE Distinct'
  <2> HIDE DEF Owned, Versions, Distinct
  <2>1. \A s \in Requests : pc'[s] \in Won => pc[s] \in Won
    BY <1>16 DEF LockMerchantNo
  <2>2. mno' = mno /\ \A s \in Requests : pc'[s] \in Won => told'[s] = told[s]
    BY <1>16 DEF LockMerchantNo
  <2> QED BY <2>1, <2>2, ZenonT(40) DEF Distinct
<1>17. ASSUME NEW r \in Requests, InsertSecret(r) PROVE Distinct'
  <2> HIDE DEF Owned, Versions, Distinct
  <2>1. \A s \in Requests : pc'[s] \in Won => s = r \/ pc[s] \in Won
    BY <1>17 DEF InsertSecret
  <2>2. mno' = mno /\ told' = told
    BY <1>17 DEF InsertSecret
  <2>3. pc[r] = "insert" /\ version[mno[r]] \in Nat
    BY <1>17 DEF InsertSecret, Owned
  <2>4. \A s \in Requests : pc[s] \in Won /\ mno[s] = mno[r] => told[s] # told[r]
    BY <2>3 DEF Versions
  <2> QED BY <2>1, <2>2, <2>4, ZenonT(40) DEF Distinct
<1>18. ASSUME NEW r \in Requests, Audit(r) PROVE Distinct'
  <2> HIDE DEF Owned, Versions, Distinct
  <2>1. \A s \in Requests : pc'[s] \in Won => pc[s] \in Won
    BY <1>18 DEF Audit
  <2>2. mno' = mno /\ told' = told
    BY <1>18 DEF Audit
  <2> QED BY <2>1, <2>2, ZenonT(40) DEF Distinct
<1>19. ASSUME NEW r \in Requests, Fails(r) PROVE Distinct'
  BY <1>19 DEF Fails, Ended, Misread, End, Release
<1>20. ASSUME NEW r \in Requests, LockSessionBreaks(r) PROVE Distinct'
  BY <1>20, ZenonT(40) DEF LockSessionBreaks
<1>21. ASSUME NEW p \in Processes, Crash(p) PROVE Distinct'
  <2> HIDE DEF Owned, Versions, Distinct
  <2>1. \A s \in Requests : pc'[s] \in Won => pc[s] \in Won
    BY <1>21 DEF Crash
  <2>2. mno' = mno /\ \A s \in Requests : pc'[s] \in Won => told'[s] = told[s]
    BY <1>21 DEF Crash
  <2> QED BY <2>1, <2>2, ZenonT(40) DEF Distinct
<1>22. CASE UNCHANGED vars
  BY <1>22, ZenonT(40)
<1> HIDE DEF TypeOK, Steps, Answers, Requests, Named, Won, Owned, Versions, Distinct
<1> HIDE DEF Statement, Goto, tables, locals, locks, vars
<1> QED
  BY <1>1, <1>2, <1>3, <1>4, <1>5, <1>6, <1>7, <1>8, <1>9, <1>10, <1>11,
     <1>12, <1>13, <1>14, <1>15, <1>16, <1>17, <1>18, <1>19, <1>20, <1>21, <1>22, Failures
  DEF Next, Step, InitializeStep, MerchantStep

\* The active secret is the one of the latest rotation.
LEMMA CarriedStep ==
  ASSUME TypeOK, Owned, Carried, [Next]_vars
  PROVE  Carried'
<1> USE SetupAssumption DEF TypeOK, Steps, Answers, Requests, Named, Won, Owned, Carried
<1> USE DEF Statement, Goto, tables, locals, locks, vars
<1>1. ASSUME NEW r \in Requests, AcquireConn(r) PROVE Carried'
  BY <1>1, ZenonT(40) DEF AcquireConn
<1>2. ASSUME NEW r \in Requests, LockSetup(r) PROVE Carried'
  BY <1>2 DEF LockSetup
<1>3. ASSUME NEW r \in Requests, GetAdminSetupState(r) PROVE Carried'
  BY <1>3, ZenonT(40) DEF GetAdminSetupState
<1>4. ASSUME NEW r \in Requests, GetAdminUserByUsername(r) PROVE Carried'
  BY <1>4, ZenonT(40) DEF GetAdminUserByUsername
<1>5. ASSUME NEW r \in Requests, EnsureAdminUser(r) PROVE Carried'
  BY <1>5, ZenonT(40) DEF EnsureAdminUser
<1>6. ASSUME NEW r \in Requests, CreateAdminUser(r) PROVE Carried'
  BY <1>6, ZenonT(40) DEF CreateAdminUser
<1>7. ASSUME NEW r \in Requests, SaveAdminSetupProgress(r) PROVE Carried'
  BY <1>7 DEF SaveAdminSetupProgress
<1>8. ASSUME NEW r \in Requests, GetMerchantConfigByNo(r) PROVE Carried'
  BY <1>8, ZenonT(40) DEF GetMerchantConfigByNo
<1>9. ASSUME NEW r \in Requests, SaveMerchant(r) PROVE Carried'
  BY <1>9, ZenonT(40) DEF SaveMerchant
<1>10. ASSUME NEW r \in Requests, UpsertWebhookConfig(r) PROVE Carried'
  BY <1>10, ZenonT(40) DEF UpsertWebhookConfig
<1>11. ASSUME NEW r \in Requests, MarkAdminSetupInitialized(r) PROVE Carried'
  BY <1>11 DEF MarkAdminSetupInitialized
<1>12. ASSUME NEW r \in Requests, CreateMerchant(r) PROVE Carried'
  BY <1>12, ZenonT(40) DEF CreateMerchant
<1>13. ASSUME NEW r \in Requests, UpsertMerchantFeatureConfig(r) PROVE Carried'
  BY <1>13, ZenonT(40) DEF UpsertMerchantFeatureConfig
<1>14. ASSUME NEW r \in Requests, FindMerchant(r) PROVE Carried'
  BY <1>14 DEF FindMerchant
<1>15. ASSUME NEW r \in Requests, BeginRotate(r) PROVE Carried'
  BY <1>15, ZenonT(40) DEF BeginRotate
<1>16. ASSUME NEW r \in Requests, LockMerchantNo(r) PROVE Carried'
  BY <1>16, ZenonT(40) DEF LockMerchantNo
<1>17. ASSUME NEW r \in Requests, InsertSecret(r) PROVE Carried'
  BY <1>17 DEF InsertSecret, AfterRotate
<1>18. ASSUME NEW r \in Requests, Audit(r) PROVE Carried'
  BY <1>18, ZenonT(40) DEF Audit
<1>19. ASSUME NEW r \in Requests, Fails(r) PROVE Carried'
  BY <1>19 DEF Fails, Ended, Misread, End, Release
<1>20. ASSUME NEW r \in Requests, LockSessionBreaks(r) PROVE Carried'
  BY <1>20 DEF LockSessionBreaks
<1>21. ASSUME NEW p \in Processes, Crash(p) PROVE Carried'
  BY <1>21, ZenonT(40) DEF Crash
<1>22. CASE UNCHANGED vars
  BY <1>22
<1> HIDE DEF TypeOK, Steps, Answers, Requests, Named, Won, Owned, Carried
<1> HIDE DEF Statement, Goto, tables, locals, locks, vars
<1> QED
  BY <1>1, <1>2, <1>3, <1>4, <1>5, <1>6, <1>7, <1>8, <1>9, <1>10, <1>11,
     <1>12, <1>13, <1>14, <1>15, <1>16, <1>17, <1>18, <1>19, <1>20, <1>21, <1>22, Failures
  DEF Next, Step, InitializeStep, MerchantStep

-----------------------------------------------------------------------------
\* Every reachable state of the setup and of the rotations.
THEOREM Invariance == Spec => [](SetupInv /\ SecretInv)
<1>1. Init => SetupInv /\ SecretInv
  <2> SUFFICES ASSUME Init PROVE SetupInv /\ SecretInv
    BY ZenonT(40)
  <2> USE SetupAssumption DEF Init, Requests
  <2>1. setup \in Row /\ ~setup.done
    BY ZenonT(40) DEF Row
  <2>2. TypeOK
    BY <2>1 DEF TypeOK, Steps
  <2>3. Routes /\ Owned /\ Prepared /\ Exclusion /\ Marked
    BY ZenonT(40)
    DEF Routes, SetupOnly, Owned, Named, Prepared, Exclusion, UnderLock, Writing, Marked
  <2>4. Quiet /\ OnlyOne /\ Recorded /\ Promised
    BY <2>1, ZenonT(40) DEF Quiet, OnlyOne, Recorded, Promised
  <2>5. SecretInv
    BY DEF SecretInv, Versions, Distinct, Carried, Won
  <2> QED  BY <2>2, <2>3, <2>4, <2>5 DEF SetupInv
<1>2. SetupInv /\ SecretInv /\ [Next]_vars => (SetupInv /\ SecretInv)'
  BY TypeStep, RoutesStep, OwnedStep, PreparedStep, ExclusionStep, QuietStep, MarkedStep,
     OnlyOneStep, CompleteStep, PromisedStep, VersionsStep, DistinctStep, CarriedStep
  DEF SetupInv, SecretInv
<1> QED  BY <1>1, <1>2, PTL DEF Spec

\* The tables and locals have their types, whatever fails, crashes or times out.
THEOREM TypeCorrect == Spec => []TypeOK
BY Invariance, PTL DEF SetupInv

\* handleInitialize: however many attempts died on the way, and though lock sessions broke,
\* the flag stands over an existing administrator, an existing merchant and a complete one,
\* which is the recorded one while no lock session broke.
THEOREM InitializationIsComplete == Spec => []InitializedIsComplete
<1>1. SetupInv => InitializedIsComplete
  BY DEF SetupInv, Recorded, Promised, Complete, InitializedIsComplete
<1> QED  BY <1>1, Invariance, PTL

\* handleInitialize: while no lock session breaks, at most one setup reports success.
THEOREM InitializesOnce == Spec => []OneInitialization
<1>1. SetupInv => OneInitialization
  BY DEF SetupInv, OnlyOne, OneInitialization
<1> QED  BY <1>1, Invariance, PTL

\* handleInitialize: while no lock session breaks, what was recorded when the flag was
\* set stays: neither the row nor a password changes.
THEOREM InitializationIsFinal == Spec => InitializedIsFinal
<1>1. ASSUME SetupInv, [Next]_vars, setup.done, severed' = {}
      PROVE  setup' = setup /\ admin' = admin
  <2>1. severed = {}
    BY <1>1, Failures, ZenonT(40)
    DEF Next, Step, InitializeStep, MerchantStep, AcquireConn, LockSetup, GetAdminSetupState,
        GetAdminUserByUsername, EnsureAdminUser, CreateAdminUser, SaveAdminSetupProgress,
        GetMerchantConfigByNo, SaveMerchant, UpsertWebhookConfig, MarkAdminSetupInitialized,
        CreateMerchant, UpsertMerchantFeatureConfig, FindMerchant, BeginRotate, LockMerchantNo,
        InsertSecret, Audit, Fails, Ended, Misread, End, Release, LockSessionBreaks, Crash,
        locks, vars, SetupInv
  <2>2. \A r \in Requests : pc[r] \notin {"ensureUser", "createUser", "progress", "saveMerchant", "mark"}
    BY <1>1, <2>1 DEF SetupInv, Quiet, Writing, UnderLock, Steps, Routes, SetupOnly
  <2>3. ASSUME NEW r \in Requests
        PROVE  /\ ~EnsureAdminUser(r) /\ ~CreateAdminUser(r) /\ ~SaveAdminSetupProgress(r)
               /\ ~SaveMerchant(r) /\ ~MarkAdminSetupInitialized(r)
    BY <2>2 DEF EnsureAdminUser, CreateAdminUser, SaveAdminSetupProgress, SaveMerchant,
                MarkAdminSetupInitialized, Statement, Goto
  <2> QED
    BY <1>1, <2>3, Failures, ZenonT(40)
    DEF Next, Step, InitializeStep, MerchantStep, AcquireConn, LockSetup, GetAdminSetupState,
        GetAdminUserByUsername, GetMerchantConfigByNo, UpsertWebhookConfig, CreateMerchant,
        UpsertMerchantFeatureConfig, FindMerchant, BeginRotate, LockMerchantNo, InsertSecret,
        Audit, Fails, Ended, Misread, End, LockSessionBreaks, Crash, tables, vars, SetupInv
<1>2. SetupInv /\ [Next]_vars => [setup.done /\ severed' = {} => setup' = setup /\ admin' = admin]_vars
  BY <1>1
<1> QED  BY <1>2, Invariance, PTL DEF Spec, InitializedIsFinal

\* RotateSecret: with any number of rotations of one merchant under way, it has one
\* active secret, the one with its highest version, and no version is told twice.
THEOREM SecretsAreConsistent == Spec => []SecretsAgree
<1>1. SetupInv /\ SecretInv => SecretsAgree
  BY DEF SecretInv, Carried, Distinct, Won, SecretsAgree
<1> QED  BY <1>1, Invariance, PTL
=============================================================================
