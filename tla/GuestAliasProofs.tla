-------------------------- MODULE GuestAliasProofs --------------------------
(***************************************************************************)
(* Proofs about GuestAlias, for any number of users, certificates and      *)
(* invocations.                                                            *)
(*                                                                         *)
(* PassedMeansClean is not inductive.  That a test case has passed says    *)
(* nothing of the guest itself; what does is the chain of invocations that *)
(* have each exited with 0.  ToolInv is what holds within an invocation,   *)
(* TestInv what each phase of the test case has established.  The latter   *)
(* rests on the guest user's being the test's own: nobody else's alias can *)
(* stand ahead of the test user's, so that the first alias of each         *)
(* certificate tells all.                                                  *)
(***************************************************************************)
EXTENDS GuestAlias, FiniteSetTheorems, TLAPS

(* Within an invocation.                                                   *)
ToolInv ==
    /\ byHand => phase = "skipped"
    /\ step = "read" => operation = "PerformGuestOps"
    /\ step = "verify" => operation \in Changes
    /\ step \notin {"disconnect", "exited"} => result = "none"

(* What has become of the aliases of the test's own guest user.            *)
AliasesInv ==
    ~ byHand =>
      /\ \A c \in Certs : aliases[c] \subseteq {TestUser}
      /\ phase = "remove" /\ result = "ok" => ~ IsMapped(TestUser)
      /\ phase \in {"logs", "delete", "passed"} => ~ IsMapped(TestUser)

(* What else the phases behind the test case have established.             *)
TestInv ==
    ~ byHand =>
      /\ phase \notin ToolPhases => result = "none"
      /\ phase = "perform" /\ result = "ok" => served
      /\ phase \in {"remove", "logs", "delete", "passed"} => served
      /\ phase = "passed" => ~ domainUser
      /\ step = "exited" /\ phase # "failed" /\ result # "error" => ~ session

IInv == TypeOK /\ ToolInv /\ AliasesInv /\ TestInv

-----------------------------------------------------------------------------
(* The phases and their order, spelled out.                                *)
LEMMA PhaseFacts ==
    /\ ToolPhases = {"add", "perform", "remove"}
    /\ OperationOf.add = "AddGuestAlias"
    /\ OperationOf.perform = "PerformGuestOps"
    /\ OperationOf.remove = "RemoveGuestAlias"
    /\ \A p \in ToolPhases : OperationOf[p] \in Operations
    /\ \A p \in DOMAIN PhaseAfter : PhaseAfter[p] \in Phases
    /\ Phases = {"setup", "domainUser", "guestUser", "add", "perform", "remove", "logs",
                 "delete", "passed", "failed", "skipped"}
    /\ PhaseAfter.setup = "domainUser" /\ PhaseAfter.domainUser = "guestUser"
    /\ PhaseAfter.guestUser = "add" /\ PhaseAfter.add = "perform"
    /\ PhaseAfter.perform = "remove" /\ PhaseAfter.remove = "logs"
    /\ PhaseAfter.logs = "delete" /\ PhaseAfter.delete = "passed"
  BY DEF ToolPhases, OperationOf, Operations, PhaseAfter, Phases

(* A change adds or removes the test user's alias, whatever it is asked of.*)
LEMMA ChangeTypes ==
    ASSUME TypeOK
    PROVE  /\ Change(operation) \in [Certs -> SUBSET Subjects]
           /\ \A c \in Certs : Change(operation)[c] \subseteq aliases[c] \cup {TestUser}
  BY DEF TypeOK, Change, With, Without, Subjects

(* The first aliases of the mappings are aliases of the guest user, and    *)
(* each certificate that has an alias contributes one.                     *)
LEMMA FirstAliasesFacts ==
    ASSUME NEW firsts \in FirstAliases
    PROVE  /\ \A user \in SsoUsers(firsts) : IsMapped(user)
           /\ \A c \in Certs :
                aliases[c] # {} => \E user \in SsoUsers(firsts) : user \in aliases[c]
  BY DEF FirstAliases, SsoUsers, IsMapped

(* Every step preserves the types.                                         *)
LEMMA TypeOKStep ==
    ASSUME IInv, [Next]_vars
    PROVE  TypeOK'
<1> USE PhaseFacts DEF IInv, TypeOK, ToolInv, TestInv, vars, world, test, tool,
            Begin, At, Ends, NextPhase, Steps, Changes
<1>1. CASE GetAdminToken
  BY <1>1 DEF GetAdminToken
<1>2. CASE Connect
  BY <1>2 DEF Connect
<1>3. CASE FindVm
  BY <1>3 DEF FindVm
<1>4. CASE CertFromToken
  BY <1>4 DEF CertFromToken
<1>5. CASE NoSuchVm
  BY <1>5 DEF NoSuchVm
<1>6. CASE Raises
  BY <1>6 DEF Raises
<1>7. CASE ConnectRaises
  BY <1>7 DEF ConnectRaises
<1>8. CASE ChangeAlias
  <2>1. aliases' \in [Certs -> SUBSET Subjects]
    BY <1>8, ChangeTypes DEF ChangeAlias
  <2> QED
    BY <1>8, <2>1 DEF ChangeAlias
<1>9. CASE ChangeAliasRaises
  <2>1. aliases' \in [Certs -> SUBSET Subjects]
    BY <1>9, ChangeTypes DEF ChangeAliasRaises
  <2> QED
    BY <1>9, <2>1 DEF ChangeAliasRaises
<1>10. CASE ListGuestAlias
  BY <1>10 DEF ListGuestAlias
<1>11. CASE VerifyAlias
  BY <1>11 DEF VerifyAlias
<1>12. CASE GetTestToken
  BY <1>12 DEF GetTestToken
<1>13. CASE ReadEnvironment
  BY <1>13 DEF ReadEnvironment
<1>14. CASE DisconnectSession
  BY <1>14 DEF DisconnectSession
<1>15. CASE DisconnectRaises
  BY <1>15 DEF DisconnectRaises
<1>16. CASE SkipTestCase
  BY <1>16 DEF SkipTestCase
<1>17. CASE AddDomainUser
  BY <1>17 DEF AddDomainUser
<1>18. CASE DeleteDomainUser
  BY <1>18 DEF DeleteDomainUser
<1>19. CASE OtherTask
  BY <1>19 DEF OtherTask
<1>20. CASE RunTool
  BY <1>20 DEF RunTool
<1>21. CASE CheckResult
  BY <1>21 DEF CheckResult
<1>22. ASSUME NEW op \in Operations, RunToolByHand(op)
       PROVE  TypeOK'
  <2>1. calls' \in 0..MaxCalls
    BY <1>22, GuestAliasAssumption DEF RunToolByHand
  <2> QED
    BY <1>22, <2>1 DEF RunToolByHand
<1>23. ASSUME NEW c \in Certs, NEW user \in Subjects \ {TestUser},
             OthersChangeAlias(c, user)
       PROVE  TypeOK'
  <2>1. aliases' \in [Certs -> SUBSET Subjects]
    BY <1>23 DEF OthersChangeAlias, With, Without
  <2> QED
    BY <1>23, <2>1 DEF OthersChangeAlias
<1>24. ASSUME NEW c \in Certs, RenewCertificate(c)
       PROVE  TypeOK'
  BY <1>24 DEF RenewCertificate
<1>25. CASE UNCHANGED vars
  BY <1>25
<1> QED
  BY <1>1, <1>2, <1>3, <1>4, <1>5, <1>6, <1>7, <1>8, <1>9, <1>10,
     <1>11, <1>12, <1>13, <1>14, <1>15, <1>16, <1>17, <1>18, <1>19, <1>20,
     <1>21, <1>22, <1>23, <1>24, <1>25
     DEF Next, Tool

(* Every step preserves what holds within an invocation.                   *)
LEMMA ToolInvStep ==
    ASSUME IInv, [Next]_vars
    PROVE  ToolInv'
<1> USE PhaseFacts DEF IInv, TypeOK, ToolInv, vars, world, test, tool,
            Begin, At, Ends, NextPhase, Steps, Changes
<1>1. CASE GetAdminToken
  BY <1>1 DEF GetAdminToken
<1>2. CASE Connect
  BY <1>2 DEF Connect
<1>3. CASE FindVm
  BY <1>3 DEF FindVm
<1>4. CASE CertFromToken
  BY <1>4 DEF CertFromToken
<1>5. CASE NoSuchVm
  BY <1>5 DEF NoSuchVm
<1>6. CASE Raises
  BY <1>6 DEF Raises
<1>7. CASE ConnectRaises
  BY <1>7 DEF ConnectRaises
<1>8. CASE ChangeAlias
  BY <1>8 DEF ChangeAlias
<1>9. CASE ChangeAliasRaises
  BY <1>9 DEF ChangeAliasRaises
<1>10. CASE ListGuestAlias
  BY <1>10 DEF ListGuestAlias
<1>11. CASE VerifyAlias
  BY <1>11 DEF VerifyAlias
<1>12. CASE GetTestToken
  BY <1>12 DEF GetTestToken
<1>13. CASE ReadEnvironment
  BY <1>13 DEF ReadEnvironment
<1>14. CASE DisconnectSession
  BY <1>14 DEF DisconnectSession
<1>15. CASE DisconnectRaises
  BY <1>15 DEF DisconnectRaises
<1>16. CASE SkipTestCase
  BY <1>16 DEF SkipTestCase
<1>17. CASE AddDomainUser
  BY <1>17 DEF AddDomainUser
<1>18. CASE DeleteDomainUser
  BY <1>18 DEF DeleteDomainUser
<1>19. CASE OtherTask
  BY <1>19 DEF OtherTask
<1>20. CASE RunTool
  BY <1>20 DEF RunTool
<1>21. CASE CheckResult
  BY <1>21 DEF CheckResult
<1>22. ASSUME NEW op \in Operations, RunToolByHand(op)
       PROVE  ToolInv'
  BY <1>22 DEF RunToolByHand
<1>23. ASSUME NEW c \in Certs, NEW user \in Subjects \ {TestUser},
             OthersChangeAlias(c, user)
       PROVE  ToolInv'
  BY <1>23 DEF OthersChangeAlias
<1>24. ASSUME NEW c \in Certs, RenewCertificate(c)
       PROVE  ToolInv'
  BY <1>24 DEF RenewCertificate
<1>25. CASE UNCHANGED vars
  BY <1>25
<1> QED
  BY <1>1, <1>2, <1>3, <1>4, <1>5, <1>6, <1>7, <1>8, <1>9, <1>10,
     <1>11, <1>12, <1>13, <1>14, <1>15, <1>16, <1>17, <1>18, <1>19, <1>20,
     <1>21, <1>22, <1>23, <1>24, <1>25
     DEF Next, Tool

(* What becomes of the aliases: only a removal that has been verified with *)
(* the first alias of each certificate exits with 0.                       *)
LEMMA AliasesInvStep ==
    ASSUME IInv, [Next]_vars
    PROVE  AliasesInv'
<1> USE PhaseFacts DEF IInv, TypeOK, ToolInv, AliasesInv, TestInv,
            vars, world, test, tool, Begin, At, Ends, NextPhase, Changes, IsMapped
<1>1. CASE GetAdminToken
  BY <1>1 DEF GetAdminToken
<1>2. CASE Connect
  BY <1>2 DEF Connect
<1>3. CASE FindVm
  BY <1>3 DEF FindVm
<1>4. CASE CertFromToken
  BY <1>4 DEF CertFromToken
<1>5. CASE NoSuchVm
  BY <1>5 DEF NoSuchVm
<1>6. CASE Raises
  BY <1>6 DEF Raises
<1>7. CASE ConnectRaises
  BY <1>7 DEF ConnectRaises
<1>8. CASE ChangeAlias
  <2>1. \A c \in Certs : aliases'[c] \subseteq aliases[c] \cup {TestUser}
    BY <1>8, ChangeTypes DEF ChangeAlias
  <2> QED
    BY <1>8, <2>1 DEF ChangeAlias
<1>9. CASE ChangeAliasRaises
  <2>1. \A c \in Certs : aliases'[c] \subseteq aliases[c] \cup {TestUser}
    BY <1>9, ChangeTypes DEF ChangeAliasRaises
  <2> QED
    BY <1>9, <2>1 DEF ChangeAliasRaises
<1>10. CASE ListGuestAlias
  BY <1>10 DEF ListGuestAlias
<1>11. CASE VerifyAlias
  <2>1. PICK firsts \in FirstAliases :
           result' = "ok" => Verified(SsoUsers(firsts))
    BY <1>11 DEF VerifyAlias
  <2>2. ASSUME ~ byHand, phase = "remove", result' = "ok"
        PROVE  ~ IsMapped(TestUser)
    <3>1. TestUser \notin SsoUsers(firsts)
      BY <1>11, <2>1, <2>2 DEF VerifyAlias, Verified
    <3> QED
      BY <2>2, <3>1, FirstAliasesFacts
  <2> QED
    BY <1>11, <2>2 DEF VerifyAlias
<1>12. CASE GetTestToken
  BY <1>12 DEF GetTestToken
<1>13. CASE ReadEnvironment
  BY <1>13 DEF ReadEnvironment
<1>14. CASE DisconnectSession
  BY <1>14 DEF DisconnectSession
<1>15. CASE DisconnectRaises
  BY <1>15 DEF DisconnectRaises
<1>16. CASE SkipTestCase
  BY <1>16 DEF SkipTestCase
<1>17. CASE AddDomainUser
  BY <1>17 DEF AddDomainUser
<1>18. CASE DeleteDomainUser
  BY <1>18 DEF DeleteDomainUser
<1>19. CASE OtherTask
  BY <1>19 DEF OtherTask
<1>20. CASE RunTool
  BY <1>20 DEF RunTool
<1>21. CASE CheckResult
  BY <1>21 DEF CheckResult
<1>22. ASSUME NEW op \in Operations, RunToolByHand(op)
       PROVE  AliasesInv'
  BY <1>22 DEF RunToolByHand
<1>23. ASSUME NEW c \in Certs, NEW user \in Subjects \ {TestUser},
             OthersChangeAlias(c, user)
       PROVE  AliasesInv'
  BY <1>23 DEF OthersChangeAlias
<1>24. ASSUME NEW c \in Certs, RenewCertificate(c)
       PROVE  AliasesInv'
  BY <1>24 DEF RenewCertificate
<1>25. CASE UNCHANGED vars
  BY <1>25
<1> QED
  BY <1>1, <1>2, <1>3, <1>4, <1>5, <1>6, <1>7, <1>8, <1>9, <1>10,
     <1>11, <1>12, <1>13, <1>14, <1>15, <1>16, <1>17, <1>18, <1>19, <1>20,
     <1>21, <1>22, <1>23, <1>24, <1>25
     DEF Next, Tool

(* Every step preserves what the phases have established.                  *)
LEMMA TestInvStep ==
    ASSUME IInv, [Next]_vars
    PROVE  TestInv'
<1> USE PhaseFacts DEF IInv, TypeOK, ToolInv, TestInv, vars, world, test, tool,
            Begin, At, Ends, NextPhase, Steps, Changes
<1>1. CASE GetAdminToken
  BY <1>1 DEF GetAdminToken
<1>2. CASE Connect
  BY <1>2 DEF Connect
<1>3. CASE FindVm
  BY <1>3 DEF FindVm
<1>4. CASE CertFromToken
  BY <1>4 DEF CertFromToken
<1>5. CASE NoSuchVm
  BY <1>5 DEF NoSuchVm
<1>6. CASE Raises
  BY <1>6 DEF Raises
<1>7. CASE ConnectRaises
  BY <1>7 DEF ConnectRaises
<1>8. CASE ChangeAlias
  BY <1>8 DEF ChangeAlias
<1>9. CASE ChangeAliasRaises
  BY <1>9 DEF ChangeAliasRaises
<1>10. CASE ListGuestAlias
  BY <1>10 DEF ListGuestAlias
<1>11. CASE VerifyAlias
  BY <1>11 DEF VerifyAlias
<1>12. CASE GetTestToken
  BY <1>12 DEF GetTestToken
<1>13. CASE ReadEnvironment
  BY <1>13 DEF ReadEnvironment
<1>14. CASE DisconnectSession
  BY <1>14 DEF DisconnectSession
<1>15. CASE DisconnectRaises
  BY <1>15 DEF DisconnectRaises
<1>16. CASE SkipTestCase
  BY <1>16 DEF SkipTestCase
<1>17. CASE AddDomainUser
  BY <1>17 DEF AddDomainUser
<1>18. CASE DeleteDomainUser
  BY <1>18 DEF DeleteDomainUser
<1>19. CASE OtherTask
  BY <1>19 DEF OtherTask
<1>20. CASE RunTool
  BY <1>20 DEF RunTool
<1>21. CASE CheckResult
  BY <1>21 DEF CheckResult
<1>22. ASSUME NEW op \in Operations, RunToolByHand(op)
       PROVE  TestInv'
  BY <1>22 DEF RunToolByHand
<1>23. ASSUME NEW c \in Certs, NEW user \in Subjects \ {TestUser},
             OthersChangeAlias(c, user)
       PROVE  TestInv'
  BY <1>23 DEF OthersChangeAlias
<1>24. ASSUME NEW c \in Certs, RenewCertificate(c)
       PROVE  TestInv'
  BY <1>24 DEF RenewCertificate
<1>25. CASE UNCHANGED vars
  BY <1>25
<1> QED
  BY <1>1, <1>2, <1>3, <1>4, <1>5, <1>6, <1>7, <1>8, <1>9, <1>10,
     <1>11, <1>12, <1>13, <1>14, <1>15, <1>16, <1>17, <1>18, <1>19, <1>20,
     <1>21, <1>22, <1>23, <1>24, <1>25
     DEF Next, Tool

-----------------------------------------------------------------------------
(* The initial states are those of the invariant.                          *)
LEMMA InitIInv == Init => IInv
<1> SUFFICES ASSUME Init
             PROVE  IInv
  OBVIOUS
<1> USE PhaseFacts DEF Init
<1>1. TypeOK
  <2>1. aliases \in [Certs -> SUBSET Subjects]
    BY {} \in SUBSET Subjects
  <2>2. phase \in Phases /\ 0 \in 0..MaxCalls
    BY GuestAliasAssumption
  <2>3. byHand \in BOOLEAN /\ domainUser \in BOOLEAN
    OBVIOUS
  <2> QED
    BY <2>1, <2>2, <2>3 DEF TypeOK, Steps, Operations
<1>2. ToolInv /\ AliasesInv /\ TestInv
  BY DEF ToolInv, AliasesInv, TestInv, IsMapped
<1> QED
  BY <1>1, <1>2 DEF IInv

(* The invariant holds in every reachable state.                           *)
LEMMA Invariance == Spec => []IInv
<1>1. IInv /\ [Next]_vars => IInv'
  BY TypeOKStep, ToolInvStep, AliasesInvStep, TestInvStep DEF IInv
<1> QED
  BY <1>1, InitIInv, PTL DEF Spec

(* Types, and what is set by when: the tool runs only in the phases that   *)
(* call for it, and service_instance is set exactly from the login on.     *)
THEOREM TypeCorrect == Spec => []TypeOK
<1>1. IInv => TypeOK
  BY DEF IInv
<1> QED
  BY <1>1, Invariance, PTL

(* A passed test case leaves neither alias nor domain user nor session     *)
(* behind, and the guest has accepted the domain user's token.             *)
THEOREM PassedClean == Spec => []PassedMeansClean
<1>1. IInv => PassedMeansClean
  BY PhaseFacts DEF IInv, TypeOK, ToolInv, AliasesInv, TestInv, PassedMeansClean
<1> QED
  BY <1>1, Invariance, PTL

-----------------------------------------------------------------------------
(* Where aliases are distinct, the first alias is the only one.            *)
LEMMA OnlyAlias ==
    ASSUME TypeOK, Distinct, NEW c \in Certs, NEW user \in aliases[c]
    PROVE  aliases[c] = {user}
<1>1. IsFiniteSet(aliases[c])
  <2>1. IsFiniteSet(Subjects)
    <3>1. IsFiniteSet(OtherUsers \cup {TestUser})
      BY GuestAliasAssumption, FS_AddElement
    <3>2. Subjects = (OtherUsers \cup {TestUser}) \cup {AnyUser}
      BY DEF Subjects
    <3> QED
      BY <3>1, <3>2, FS_AddElement
  <2> QED
    BY <2>1, FS_Subset DEF TypeOK
<1>2. Cardinality(aliases[c]) \in Nat /\ Cardinality(aliases[c]) <= 1
  BY <1>1, FS_CardinalityType DEF Distinct
<1>3. Cardinality(aliases[c]) # 0
  BY <1>1, FS_EmptySet
<1>4. Cardinality(aliases[c]) = 1
  BY <1>2, <1>3
<1> QED
  BY <1>1, <1>4, FS_Singleton

(* What VerifyAlias finds in the first aliases, in terms of all of them.   *)
LEMMA VerifiedFacts ==
    ASSUME TypeOK, NEW firsts \in FirstAliases,
           operation \in Changes
    PROVE  /\ Verified(SsoUsers(firsts)) =>
                IF operation = "AddGuestAlias"
                THEN IsMapped(TestUser)
                ELSE \A c \in Certs : aliases[c] # {TestUser}
           /\ Distinct =>
                (Verified(SsoUsers(firsts))
                   <=> (operation = "AddGuestAlias" <=> IsMapped(TestUser)))
<1>1. CASE TestUser \in SsoUsers(firsts)
  BY <1>1, FirstAliasesFacts DEF Verified, Changes
<1>2. CASE TestUser \notin SsoUsers(firsts)
  <2>1. \A c \in Certs : aliases[c] # {TestUser}
    BY <1>2, FirstAliasesFacts
  <2>2. Distinct => ~ IsMapped(TestUser)
    BY <2>1, OnlyAlias DEF IsMapped
  <2> QED
    BY <1>2, <2>1, <2>2 DEF Verified, Changes
<1> QED
  BY <1>1, <1>2

(* The verdict of a change is true, for any number of users and            *)
(* certificates, although only first aliases are looked at.                *)
THEOREM VerdictTrue == Spec => VerdictIsTrue
<1> DEFINE Tells ==
      step = "verify" =>
        /\ result' = "ok" =>
             IF operation = "AddGuestAlias"
             THEN IsMapped(TestUser)
             ELSE \A c \in Certs : aliases[c] # {TestUser}
        /\ Distinct /\ result' \in {"ok", "failed"} =>
             (result' = "ok") = (operation = "AddGuestAlias" <=> IsMapped(TestUser))
<1>1. ASSUME IInv, [Next]_vars
      PROVE  [Tells]_vars
  <2>1. CASE step = "verify" /\ VerifyAlias
    <3>1. PICK firsts \in FirstAliases :
             result' = IF AnyUser \in SsoUsers(firsts) THEN "error"
                       ELSE IF Verified(SsoUsers(firsts)) THEN "ok" ELSE "failed"
      BY <2>1 DEF VerifyAlias, Ends
    <3>2. TypeOK /\ operation \in Changes
      BY <1>1, <2>1 DEF IInv, ToolInv
    <3> QED
      BY <3>1, <3>2, VerifiedFacts
  <2>2. CASE step = "verify" /\ ~ VerifyAlias
    <3>1. result' \in {"none", "error"}
      BY <1>1, <2>2 DEF IInv, TypeOK, ToolInv, TestInv, Next, Tool, vars, world, test, tool,
         Begin, At, Ends, Changes, GetAdminToken, Connect, FindVm,
         CertFromToken, NoSuchVm, Raises, ConnectRaises, ChangeAlias,
         ChangeAliasRaises, ListGuestAlias, VerifyAlias, GetTestToken,
         ReadEnvironment, DisconnectSession, DisconnectRaises, SkipTestCase,
         AddDomainUser, DeleteDomainUser, OtherTask, RunTool, CheckResult,
         RunToolByHand, OthersChangeAlias, RenewCertificate
    <3> QED
      BY <3>1
  <2> QED
    BY <2>1, <2>2
<1> QED
  BY <1>1, Invariance, PTL DEF Spec, VerdictIsTrue
=============================================================================
