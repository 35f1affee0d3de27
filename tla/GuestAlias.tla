----------------------------- MODULE GuestAlias -----------------------------
(***************************************************************************)
(* tools/vgauth_guestops.py and the test case that drives it,              *)
(* linux/host_verify_saml_token.  An invocation of the tool logs in to     *)
(* vCenter Server and lists, adds or removes the alias that lets a domain  *)
(* user act as a guest user, or reads the guest user's environment through *)
(* such an alias.  The test case uses a guest user of its own; by hand the *)
(* tool is used with any guest user, whose aliases others change, too.     *)
(*                                                                         *)
(* vCenter Server and the guest are external.  Each call to them may raise, *)
(* before or after it has taken effect, and a change may be answered       *)
(* without having been made: that is what the tool lists the aliases for.  *)
(***************************************************************************)
EXTENDS FiniteSets, Naturals

CONSTANTS
    TestUser,     \* test_user@domain
    OtherUsers,   \* other domain users with an alias for the guest user
    AnyUser,      \* subject of an alias for whoever has the certificate
    Certs,        \* certificates that vCenter Server may sign tokens with
    MaxCalls      \* bound: invocations by hand

Subjects == OtherUsers \cup {TestUser, AnyUser}

ASSUME GuestAliasAssumption ==
    /\ TestUser # AnyUser
    /\ {TestUser, AnyUser} \cap OtherUsers = {}
    /\ IsFiniteSet(OtherUsers)
    /\ Certs # {}
    /\ MaxCalls \in Nat

VARIABLES
    aliases,      \* of the guest user: the subjects mapped for each certificate
    cert,         \* what vCenter Server signs tokens with
    domainUser,   \* the test user exists
    session,      \* the invocation has a session at vCenter Server
    byHand,       \* the tool is not used by the test case
    calls,        \* number of invocations by hand
    phase,        \* what the test case has come to
    step,         \* what main() has come to, "exited" without an invocation
    operation,    \* args.operation
    si,           \* service_instance is set
    base64Cert,   \* the certificate of admin_saml_token
    token,        \* the certificate of the test user's saml_token
    result,       \* "ok" exits with 0, "failed" (its own exceptions), "error" with 1
    served        \* history: the guest has accepted the test user's token

world == <<aliases, cert, domainUser, session>>
test == <<byHand, calls, phase>>
tool == <<step, operation, si, base64Cert, token, result>>
vars == <<world, test, tool, served>>

-----------------------------------------------------------------------------
Operations == {"ListGuestAlias", "AddGuestAlias", "RemoveGuestAlias", "PerformGuestOps"}

(* The phases in which the test case runs the tool, and those without.     *)
OperationOf ==
    [add |-> "AddGuestAlias", perform |-> "PerformGuestOps", remove |-> "RemoveGuestAlias"]
ToolPhases == DOMAIN OperationOf

PhaseAfter ==
    [setup |-> "domainUser", domainUser |-> "guestUser", guestUser |-> "add", add |-> "perform",
     perform |-> "remove", remove |-> "logs", logs |-> "delete", delete |-> "passed"]
Phases == DOMAIN PhaseAfter \cup {"passed", "failed", "skipped"}

Steps == {"token", "connect", "find", "cert", "run", "read", "verify", "disconnect", "exited"}

IsMapped(user) == \E c \in Certs : user \in aliases[c]

(* list_guest_alias: of each mapping's aliases the first one is looked at; *)
(* their order is the guest's.                                             *)
FirstAliases ==
    LET mapped == {c \in Certs : aliases[c] # {}}
    IN  {f \in [mapped -> Subjects] : \A c \in mapped : f[c] \in aliases[c]}

SsoUsers(firsts) == {firsts[c] : c \in DOMAIN firsts}

Init ==
    /\ byHand \in BOOLEAN
    /\ aliases \in [Certs -> IF byHand THEN SUBSET Subjects ELSE {{}}]
    /\ cert \in Certs
    /\ domainUser = byHand
    /\ session = FALSE
    /\ calls = 0
    /\ phase = IF byHand THEN "skipped" ELSE "setup"
    /\ step = "exited"
    /\ operation = "ListGuestAlias"
    /\ si = FALSE
    /\ base64Cert = cert
    /\ token = cert
    /\ result = "none"
    /\ served = FALSE

-----------------------------------------------------------------------------
(* The tool.  main() up to the operation.                                  *)
Begin(op) ==
    /\ step = "exited"
    /\ step' = "token"
    /\ operation' = op
    /\ result' = "none"
    /\ si' = FALSE
    /\ session' = FALSE
    /\ UNCHANGED <<aliases, cert, domainUser, base64Cert, token, served>>

At(here, next) == step = here /\ step' = next

GetAdminToken ==
    /\ At("token", "connect")
    /\ base64Cert' = cert
    /\ UNCHANGED <<world, test, operation, si, token, result, served>>

(* Mutant: get_si_with_token does not return what SmartConnect has.        *)
ConnectsUnseen ==
    /\ At("connect", "find")
    /\ session' = TRUE
    /\ UNCHANGED <<aliases, cert, domainUser, test, operation, si, base64Cert, token, result, served>>

Connect ==
    /\ At("connect", "find")
    /\ session' = TRUE
    /\ si' = TRUE
    /\ UNCHANGED <<aliases, cert, domainUser, test, operation, base64Cert, token, result, served>>

FindVm ==
    /\ At("find", "cert")
    /\ UNCHANGED <<world, test, operation, si, base64Cert, token, result, served>>

CertFromToken ==
    /\ At("cert", "run")
    /\ UNCHANGED <<world, test, operation, si, base64Cert, token, result, served>>

(* return or except, with the finally section ahead.                       *)
Ends(outcome) ==
    /\ result' = outcome
    /\ step' = IF si THEN "disconnect" ELSE "exited"
    /\ UNCHANGED <<operation, si, base64Cert>>

(* find_vm_by_name returns None.                                           *)
NoSuchVm ==
    /\ step = "find"
    /\ Ends("failed")
    /\ UNCHANGED <<world, test, token, served>>

(* An exception ends the operation: of a call that had no effect, or of an *)
(* answer that cannot be read (no certificate in the token).               *)
Raises ==
    /\ step \notin {"disconnect", "exited"}
    /\ Ends("error")
    /\ UNCHANGED <<world, test, token, served>>

(* SmartConnect logs in and raises when it asks for the content.           *)
ConnectRaises ==
    /\ step = "connect"
    /\ session' = TRUE
    /\ Ends("error")
    /\ UNCHANGED <<aliases, cert, domainUser, test, token, served>>

-----------------------------------------------------------------------------
With(c, user) == [aliases EXCEPT ![c] = @ \cup {user}]
Without(c, user) == [aliases EXCEPT ![c] = @ \ {user}]

(* AddGuestAlias and RemoveGuestAlias of the alias manager.                *)
Change(op) ==
    IF op = "AddGuestAlias"
    THEN With(base64Cert, TestUser)
    ELSE Without(base64Cert, TestUser)

Changes == {"AddGuestAlias", "RemoveGuestAlias"}

ChangeAlias ==
    /\ At("run", "verify")
    /\ operation \in Changes
    /\ aliases' \in {aliases, Change(operation)}
    /\ UNCHANGED <<cert, domainUser, session, test, operation, si, base64Cert, token, result, served>>

(* The answer is lost.                                                     *)
ChangeAliasRaises ==
    /\ step = "run"
    /\ operation \in Changes
    /\ aliases' = Change(operation)
    /\ Ends("error")
    /\ UNCHANGED <<cert, domainUser, session, test, token, served>>

(* An alias for any user has no name: AttributeError.                      *)
ListGuestAlias ==
    /\ step = "run"
    /\ operation = "ListGuestAlias"
    /\ \E firsts \in FirstAliases :
         Ends(IF AnyUser \in SsoUsers(firsts) THEN "error" ELSE "ok")
    /\ UNCHANGED <<world, test, token, served>>

(* Mutant: remove_guest_alias does not look at what has become of it.      *)
TrustsRemoval(users) ==
    operation = "RemoveGuestAlias" \/ TestUser \in users

Verified(users) ==
    operation = "AddGuestAlias" <=> TestUser \in users

VerifyAlias ==
    /\ step = "verify"
    /\ \E firsts \in FirstAliases :
         LET users == SsoUsers(firsts)
         IN  Ends(IF AnyUser \in users THEN "error"
                  ELSE IF Verified(users) THEN "ok" ELSE "failed")
    /\ UNCHANGED <<world, test, token, served>>

(* perform_guest_ops: a token for the test user, and a guest operation     *)
(* with it, which the guest accepts if there is an alias for it.           *)
GetTestToken ==
    /\ At("run", "read")
    /\ operation = "PerformGuestOps"
    /\ domainUser
    /\ token' = cert
    /\ UNCHANGED <<world, test, operation, si, base64Cert, result, served>>

ReadEnvironment ==
    /\ step = "read"
    /\ aliases[token] \cap {TestUser, AnyUser} # {}
    /\ Ends("ok")
    /\ served' = TRUE
    /\ UNCHANGED <<world, test, token>>

(* finally: what Disconnect raises replaces the return value.              *)
DisconnectSession ==
    /\ At("disconnect", "exited")
    /\ session' = FALSE
    /\ UNCHANGED <<aliases, cert, domainUser, test, operation, si, base64Cert, token, result, served>>

DisconnectRaises ==
    /\ At("disconnect", "exited")
    /\ result' = "error"
    /\ session' \in BOOLEAN
    /\ UNCHANGED <<aliases, cert, domainUser, test, operation, si, base64Cert, token, served>>

Tool ==
    \/ GetAdminToken \/ Connect \/ FindVm \/ CertFromToken
    \/ NoSuchVm \/ Raises \/ ConnectRaises
    \/ ChangeAlias \/ ChangeAliasRaises \/ ListGuestAlias \/ VerifyAlias
    \/ GetTestToken \/ ReadEnvironment
    \/ DisconnectSession \/ DisconnectRaises
-----------------------------------------------------------------------------
(* host_verify_saml_token.yml.                                             *)
NextPhase == phase' = PhaseAfter[phase]

SkipTestCase ==
    /\ phase = "setup"
    /\ phase' = "skipped"
    /\ UNCHANGED <<world, byHand, calls, tool, served>>

(* A domain user that was created may still miss its group.                *)
AddDomainUser ==
    /\ phase = "domainUser"
    /\ \/ NextPhase /\ domainUser' = TRUE
       \/ phase' = "failed" /\ domainUser' \in BOOLEAN
    /\ UNCHANGED <<aliases, cert, session, byHand, calls, tool, served>>

DeleteDomainUser ==
    /\ phase = "delete"
    /\ \/ NextPhase /\ domainUser' = FALSE
       \/ phase' = "failed" /\ domainUser' \in BOOLEAN
    /\ UNCHANGED <<aliases, cert, session, byHand, calls, tool, served>>

(* The set-up, the guest user, debug logging, the logs of VGAuthService.   *)
OtherTask ==
    /\ phase \in {"setup", "guestUser", "logs"}
    /\ phase' \in {PhaseAfter[phase], "failed"}
    /\ UNCHANGED <<world, byHand, calls, tool, served>>

(* ansible.builtin.command with the tool, ignore_errors; the assertions    *)
(* that follow.  Also in the end: the environment must name the guest user. *)
RunTool ==
    /\ phase \in ToolPhases
    /\ result = "none"
    /\ Begin(OperationOf[phase])
    /\ UNCHANGED test

(* Mutant: the task with the tool is not followed by an assertion.         *)
ErrorsAreIgnored ==
    /\ phase \in ToolPhases
    /\ step = "exited"
    /\ result # "none"
    /\ NextPhase
    /\ result' = "none"
    /\ UNCHANGED <<world, byHand, calls, step, operation, si, base64Cert, token, served>>

CheckResult ==
    /\ phase \in ToolPhases
    /\ step = "exited"
    /\ result # "none"
    /\ phase' \in IF result = "ok" THEN {PhaseAfter[phase], "failed"} ELSE {"failed"}
    /\ result' = "none"
    /\ UNCHANGED <<world, byHand, calls, step, operation, si, base64Cert, token, served>>

-----------------------------------------------------------------------------
(* Others: the tool by hand, changes of a shared guest user's aliases, and *)
(* the renewal of the signing certificate.                                 *)
RunToolByHand(op) ==
    /\ byHand
    /\ calls < MaxCalls
    /\ calls' = calls + 1
    /\ Begin(op)
    /\ UNCHANGED <<byHand, phase>>

OthersChangeAlias(c, user) ==
    /\ byHand
    /\ aliases' \in {With(c, user), Without(c, user)}
    /\ UNCHANGED <<cert, domainUser, session, test, tool, served>>

RenewCertificate(c) ==
    /\ cert' = c
    /\ UNCHANGED <<aliases, domainUser, session, test, tool, served>>

Next ==
    \/ Tool
    \/ SkipTestCase \/ AddDomainUser \/ DeleteDomainUser \/ OtherTask \/ RunTool \/ CheckResult
    \/ \E op \in Operations : RunToolByHand(op)
    \/ \E c \in Certs, user \in Subjects \ {TestUser} : OthersChangeAlias(c, user)
    \/ \E c \in Certs : RenewCertificate(c)

Spec == Init /\ [][Next]_vars

-----------------------------------------------------------------------------
(* Types; the tool runs only in the phases that call for it, and           *)
(* service_instance is set exactly from the login on.                      *)
TypeOK ==
    /\ aliases \in [Certs -> SUBSET Subjects]
    /\ {cert, base64Cert, token} \subseteq Certs
    /\ {domainUser, session, byHand, si, served} \subseteq BOOLEAN
    /\ calls \in 0..MaxCalls
    /\ phase \in Phases
    /\ step \in Steps
    /\ operation \in Operations
    /\ result \in {"none", "ok", "failed", "error"}
    /\ step # "exited" /\ ~ byHand => phase \in ToolPhases /\ operation = OperationOf[phase]
    /\ step \in {"token", "connect"} => ~ si
    /\ step \in {"find", "cert", "run", "read", "verify", "disconnect"} => si

(* No two aliases of the guest user have the same certificate.             *)
Distinct == \A c \in Certs : Cardinality(aliases[c]) <= 1

(* What add_guest_alias and remove_guest_alias report is what has become   *)
(* of the alias, although the answer to the change says nothing and only   *)
(* the first alias of each certificate is looked at (list_guest_alias).    *)
(* Where several aliases have the same certificate, a success of           *)
(* AddGuestAlias is still true, one of RemoveGuestAlias unless the alias   *)
(* that is left is behind another one.                                     *)
VerdictIsTrue ==
    [][ step = "verify" =>
        /\ result' = "ok" =>
             IF operation = "AddGuestAlias"
             THEN IsMapped(TestUser)
             ELSE \A c \in Certs : aliases[c] # {TestUser}
        /\ Distinct /\ result' \in {"ok", "failed"} =>
             (result' = "ok") = (operation = "AddGuestAlias" <=> IsMapped(TestUser)) ]_vars

(* When the test case has passed, the guest has accepted the token of the  *)
(* domain user, and neither alias nor domain user are left, nor a session  *)
(* at vCenter Server: despite lost answers, changes that were not made and *)
(* renewed certificates.                                                   *)
PassedMeansClean ==
    phase = "passed" => served /\ ~ IsMapped(TestUser) /\ ~ domainUser /\ ~ session

=============================================================================
