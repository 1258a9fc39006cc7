--------------------------- MODULE AccessControl ---------------------------
(* Identities and what they may reach: sessions and roles (identity.py,      *)
(* routes/auth.py), the administration of users, tenants and units           *)
(* (routes/admin.py) and the scopes the data endpoints derive from a session *)
(* (routes/batches.py, files.py, records.py).  A request reads in one step   *)
(* and commits in a later one, so requests of one or several admins overlap. *)
(* What matters of a password is when it or the rights of its user last      *)
(* changed: "since" numbers the committed changes.                           *)
EXTENDS Naturals, Sequences, FiniteSets

CONSTANTS
    Accounts,    \* user ids
    Admin,       \* the platform admin of the first start
    Tenants,     \* business tenants
    Places,      \* administrative units
    Home,        \* place -> its tenant
    Townships,   \* the places that are root townships; the others are their villages
    Callers,     \* slots for requests under way
    MaxSessions, MaxChanges  \* bounds

ASSUME AccessConstants ==
    /\ Admin \in Accounts
    /\ Home \in [Places -> Tenants] /\ Townships \subseteq Places
    /\ \A t \in Tenants : \E p \in Townships : Home[p] = t
    /\ "platform" \notin Tenants /\ "none" \notin Places
    /\ MaxSessions \in Nat /\ MaxChanges \in Nat

VARIABLES
    accounts,  \* user row with its membership and scope
    tenantOn, placeOn, \* status of business tenants and of units
    sessions,  \* AuthSession rows
    calls,     \* requests under way
    changes,   \* changes of users committed so far
    deposed    \* some admin request was committed by who was no admin any more

accessVars == <<accounts, tenantOn, placeOn, sessions, calls, changes, deposed>>

Platform == "platform"
NoPlace == "none"
NoCall == [kind |-> "none"]
Rights == [tenant : Tenants \cup {Platform}, place : Places \cup {NoPlace},
           role : {"tenant_admin", "village_operator", "platform_admin"}]
KeepRights == [tenant |-> "keep", role |-> "keep", place |-> NoPlace]
PlatformRights == [tenant |-> Platform, role |-> "platform_admin", place |-> NoPlace]
Nobody == [known |-> FALSE, active |-> FALSE, member |-> FALSE,
           rights |-> PlatformRights, since |-> 0]

Changes(account) == [account EXCEPT !.since = changes + 1]

-----------------------------------------------------------------------------
(* Who a session is *)

(* resolve_principal: every row the session leads to is active, and the role,  *)
(* the tenant and the unit fit each other.                                     *)
Fits(rights) ==
    \/ rights = PlatformRights
    \/ /\ rights.place \in Places
       /\ rights.tenant = Home[rights.place]
       /\ rights.role = IF rights.place \in Townships THEN "tenant_admin" ELSE "village_operator"

ResolvesPrincipal(session) ==
    LET account == accounts[session.user] IN
    /\ ~session.revoked /\ account.active /\ account.member
    /\ Fits(account.rights)
    /\ account.rights # PlatformRights =>
          tenantOn[account.rights.tenant] /\ placeOn[account.rights.place]

RightsOf(session) == accounts[session.user].rights
IsAdmin(session) == ResolvesPrincipal(session) /\ RightsOf(session).role = "platform_admin"

(* A township reaches itself and its active villages, a village only itself. *)
Allowed(rights) ==
    CASE rights.role = "platform_admin" -> {}
      [] rights.role = "tenant_admin" ->
            {rights.place} \cup {p \in Places \ Townships : Home[p] = rights.tenant /\ placeOn[p]}
      [] rights.role = "village_operator" -> {rights.place}

(* Places whose batches are listed, may be opened, and may be added to. *)
BatchesListed(rights) ==
    CASE rights.role = "platform_admin" -> Places
      [] rights.role = "tenant_admin" -> {p \in Places : Home[p] = rights.tenant}
      [] rights.role = "village_operator" -> {p \in Allowed(rights) : Home[p] = rights.tenant}

BatchesOpened(rights) ==
    IF rights.role = "platform_admin" THEN Places
    ELSE {p \in Allowed(rights) : Home[p] = rights.tenant}

ImportTargets(rights) ==
    CASE rights.role = "platform_admin" -> {}
      [] rights.role = "tenant_admin" ->
            {p \in Allowed(rights) \ Townships : Home[p] = rights.tenant /\ placeOn[p]}
      [] rights.role = "village_operator" -> {rights.place}

(* Places whose files and whose records are shown; records.read.tenant opens  *)
(* none of the record pages.                                                  *)
FilesShown(rights) == BatchesListed(rights)
RecordsShown(rights) ==
    CASE rights.role = "platform_admin" -> Places
      [] rights.role = "tenant_admin" -> {}
      [] rights.role = "village_operator" -> {p \in Allowed(rights) : Home[p] = rights.tenant}

-----------------------------------------------------------------------------
(* Sessions *)

Begins(caller, call) ==
    /\ calls[caller] = NoCall
    /\ calls' = [calls EXCEPT ![caller] = call]
    /\ UNCHANGED <<accounts, tenantOn, placeOn, sessions, changes, deposed>>
EndCall(caller) == calls' = [calls EXCEPT ![caller] = NoCall]

(* The password is right and the account active when login reads the row ... *)
LoginRead(caller, user) ==
    /\ accounts[user].known /\ accounts[user].active /\ accounts[user].member
    /\ Begins(caller, [kind |-> "login", user |-> user])

(* ... and the session is written after the slow password hash. *)
LoginCommit(caller) ==
    /\ calls[caller].kind = "login" /\ Len(sessions) < MaxSessions
    /\ LET user == calls[caller].user
       IN sessions' = Append(sessions, [user |-> user, revoked |-> FALSE,
                                        since |-> accounts[user].since])
    /\ EndCall(caller)
    /\ UNCHANGED <<accounts, tenantOn, placeOn, changes, deposed>>

Revoked(session) == [session EXCEPT !.revoked = TRUE, !.since = 0]

(* Logout, or the end of the lifetime. *)
EndSession(s) ==
    /\ ~sessions[s].revoked
    /\ sessions' = [sessions EXCEPT ![s] = Revoked(@)]
    /\ UNCHANGED <<accounts, tenantOn, placeOn, calls, changes, deposed>>

RevokedExcept(users, kept) ==
    [s \in DOMAIN sessions |->
        IF sessions[s].user \in users /\ s # kept THEN Revoked(sessions[s]) ELSE sessions[s]]

ChangePasswordRead(caller, s) ==
    /\ ResolvesPrincipal(sessions[s])
    /\ Begins(caller, [kind |-> "password", session |-> s])

(* The new password ends every session of the user but the one that asked. *)
ChangePasswordCommit(caller) ==
    /\ calls[caller].kind = "password" /\ changes < MaxChanges
    /\ LET s == calls[caller].session
           user == sessions[s].user
       IN /\ accounts' = [accounts EXCEPT ![user] = Changes(@)]
          /\ sessions' = [RevokedExcept({user}, s) EXCEPT ![s].since = changes + 1]
    /\ changes' = changes + 1
    /\ EndCall(caller)
    /\ UNCHANGED <<tenantOn, placeOn, deposed>>

-----------------------------------------------------------------------------
(* Administration *)

(* _configure_membership_scope *)
Configurable(rights) == Fits(rights) /\ (rights # PlatformRights => placeOn[rights.place])

FittingRights == {r \in Rights : Fits(r)}
Commands ==
    [kind : {"update_user"}, user : Accounts, rights : {KeepRights},
     status : {"keep", "active", "disabled"}]
    \cup [kind : {"update_user"}, user : Accounts, status : {"keep"}, rights : FittingRights]
    \cup [kind : {"create_user"}, user : Accounts, rights : FittingRights]
    \cup [kind : {"delete_user"}, user : Accounts]
    \cup [kind : {"update_tenant"}, tenant : Tenants, on : BOOLEAN]
    \cup [kind : {"delete_tenant"}, tenant : Tenants]
    \cup [kind : {"update_unit"}, place : Places, on : BOOLEAN]

KeepsHimself(actor, command) ==
    /\ command.status # "disabled"
    /\ command.rights \in {KeepRights, PlatformRights}

MayUpdate(actor, command) ==
    /\ accounts[command.user].known
    /\ command.user = actor => KeepsHimself(actor, command)
    /\ command.rights # KeepRights => Configurable(command.rights)

Admissible(actor, command) ==
    CASE command.kind = "update_user" -> MayUpdate(actor, command)
      [] command.kind = "create_user" ->
            /\ ~accounts[command.user].known /\ Configurable(command.rights)
            /\ command.rights # PlatformRights => tenantOn[command.rights.tenant]
      [] command.kind = "delete_user" -> accounts[command.user].known /\ command.user # actor
      [] OTHER -> TRUE

(* require_platform_admin is in AdminRequest below. *)
AdminRead(caller, s, command) ==
    /\ Admissible(sessions[s].user, command)
    /\ Begins(caller, [kind |-> "admin", session |-> s, command |-> command,
                       seen |-> IF command.kind = "update_user"
                                  THEN accounts[command.user] ELSE Nobody])

(* The session writes a column only where it differs from the row it loaded;   *)
(* the scope is deleted and inserted anew.                                     *)
ColumnWritten(new, seen, now) == IF new = seen THEN now ELSE new
Status(command, seen, now) ==
    IF command.status = "keep" THEN now ELSE ColumnWritten(command.status = "active", seen, now)

Updated(account, command, seen) ==
    Changes([account EXCEPT
        !.active = Status(command, seen.active, @),
        !.member = Status(command, seen.member, @),
        !.rights = IF command.rights = KeepRights THEN @
                   ELSE [tenant |->
                            ColumnWritten(command.rights.tenant, seen.rights.tenant, @.tenant),
                         role |-> ColumnWritten(command.rights.role, seen.rights.role, @.role),
                         place |-> command.rights.place]])

MembersOf(tenant) == {u \in Accounts : accounts[u].known /\ accounts[u].rights.tenant = tenant}

TouchedOnDisable(command) ==
    CASE command.kind = "update_user" -> IF command.status = "disabled" THEN {command.user} ELSE {}
      [] command.kind = "delete_user" -> {command.user}
      [] command.kind = "delete_tenant" -> MembersOf(command.tenant)
      [] OTHER -> {}

(* The accounts a command changes, whose sessions it revokes. *)
Touched(command) ==
    CASE command.kind \in {"update_user", "create_user", "delete_user"} -> {command.user}
      [] command.kind = "delete_tenant" -> MembersOf(command.tenant)
      [] OTHER -> {}

Applied(user, command, seen) ==
    LET account == accounts[user] IN
    CASE command.kind = "update_user" /\ user = command.user -> Updated(account, command, seen)
      [] command.kind = "create_user" /\ user = command.user ->
            Changes([known |-> TRUE, active |-> TRUE, member |-> TRUE,
                     rights |-> command.rights, since |-> 0])
      [] command.kind = "delete_user" /\ user = command.user ->
            Changes([account EXCEPT !.active = FALSE, !.member = FALSE])
      [] command.kind = "delete_tenant" /\ user \in MembersOf(command.tenant) ->
            Changes([account EXCEPT !.member = FALSE])
      [] OTHER -> account

TenantsAfter(command) ==
    CASE command.kind = "update_tenant" -> [tenantOn EXCEPT ![command.tenant] = command.on]
      [] command.kind = "delete_tenant" -> [tenantOn EXCEPT ![command.tenant] = FALSE]
      [] OTHER -> tenantOn

PlacesAfter(command) ==
    IF command.kind = "update_unit" THEN [placeOn EXCEPT ![command.place] = command.on]
    ELSE placeOn

AdminCommit(caller) ==
    /\ calls[caller].kind = "admin" /\ changes < MaxChanges
    /\ LET command == calls[caller].command
           actor == accounts[sessions[calls[caller].session].user]
       IN /\ command.kind = "create_user" => ~accounts[command.user].known
          /\ accounts' = [user \in Accounts |-> Applied(user, command, calls[caller].seen)]
          /\ sessions' = RevokedExcept(Touched(command), 0)
          /\ tenantOn' = TenantsAfter(command)
          /\ placeOn' = PlacesAfter(command)
          /\ deposed' = (deposed \/ ~actor.active \/ ~actor.member
                                 \/ actor.rights # PlatformRights)
    /\ changes' = changes + 1
    /\ EndCall(caller)

-----------------------------------------------------------------------------
(* ensure_bootstrap_identity has made the first admin; the operator it makes *)
(* beside him is one of the accounts an admin may create.                    *)
AccessInit ==
    /\ accounts = [u \in Accounts |->
                      IF u = Admin
                        THEN [Nobody EXCEPT !.known = TRUE, !.active = TRUE, !.member = TRUE]
                        ELSE Nobody]
    /\ tenantOn = [t \in Tenants |-> TRUE] /\ placeOn = [p \in Places |-> TRUE]
    /\ sessions = <<>> /\ calls = [c \in Callers |-> NoCall]
    /\ changes = 0 /\ deposed = FALSE

AdminRequest(caller, s) ==
    IsAdmin(sessions[s]) /\ \E command \in Commands : AdminRead(caller, s, command)

AccessNext ==
    \/ \E c \in Callers :
          \/ /\ calls[c] = NoCall
             /\ \/ \E u \in Accounts : LoginRead(c, u)
                \/ \E s \in DOMAIN sessions : ChangePasswordRead(c, s) \/ AdminRequest(c, s)
          \/ LoginCommit(c) \/ ChangePasswordCommit(c) \/ AdminCommit(c)
    \/ \E s \in DOMAIN sessions : EndSession(s)

AccessSpec == AccessInit /\ [][AccessNext]_accessVars

-----------------------------------------------------------------------------
AccountRows == [known : BOOLEAN, active : BOOLEAN, member : BOOLEAN, rights : Rights,
                since : 0 .. MaxChanges]
SessionRows == [user : Accounts, revoked : BOOLEAN, since : 0 .. MaxChanges]
CallRows ==
    {NoCall} \cup [kind : {"login"}, user : Accounts]
             \cup [kind : {"password"}, session : 1 .. MaxSessions]
             \cup [kind : {"admin"}, session : 1 .. MaxSessions, command : Commands,
                   seen : AccountRows]

AccessTypeOK ==
    /\ accounts \in [Accounts -> AccountRows]
    /\ \A u \in Accounts : accounts[u].since <= changes
    /\ tenantOn \in [Tenants -> BOOLEAN] /\ placeOn \in [Places -> BOOLEAN]
    /\ sessions \in Seq(SessionRows) /\ Len(sessions) <= MaxSessions
    /\ calls \in [Callers -> CallRows]
    /\ changes \in 0 .. MaxChanges /\ deposed \in BOOLEAN

(* A session that still resolves was opened, or kept by its own password      *)
(* change, after the last change of its user's password, role, scope or       *)
(* status: none survives one or comes back with a user or tenant that is      *)
(* enabled again (routes/auth.py, routes/admin.py _revoke_user_sessions).     *)
SessionsAreCurrent ==
    \A s \in DOMAIN sessions :
        ResolvesPrincipal(sessions[s]) => sessions[s].since = accounts[sessions[s].user].since

(* The platform always has an active admin, as long as no request is carried  *)
(* through for an admin who lost the role while it was under way.             *)
AnAdminRemains ==
    deposed \/ \E u \in Accounts :
                 accounts[u].active /\ accounts[u].member /\ accounts[u].rights = PlatformRights

(* Whatever tenants and units are disabled or users moved meanwhile, a session *)
(* of a business tenant reaches data of its own tenant only, a village only    *)
(* its own, and what can be opened or added to is what is listed.              *)
ReadsStayInScope ==
    \A s \in DOMAIN sessions : ResolvesPrincipal(sessions[s]) =>
        LET rights == RightsOf(sessions[s])
            reached == BatchesListed(rights) \cup FilesShown(rights) \cup RecordsShown(rights)
        IN /\ rights # PlatformRights => \A p \in reached : Home[p] = rights.tenant
           /\ rights.role = "village_operator" => reached = {rights.place}
           /\ ImportTargets(rights) \subseteq BatchesOpened(rights)
           /\ BatchesOpened(rights) \subseteq BatchesListed(rights)

AccessIsSound == SessionsAreCurrent /\ AnAdminRemains /\ ReadsStayInScope
=============================================================================
