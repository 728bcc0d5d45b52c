------------------------------- MODULE Access -------------------------------
(***************************************************************************)
(* Who may use the till and from where: services/auth.py (sessions of the  *)
(* refresh tokens), services/accounts.py (users, roles, permissions),      *)
(* services/infrastructure.py (terminals and devices) and                  *)
(* services/payments.py (payment methods), as handlers of module Desk.     *)
(*                                                                         *)
(* The tables: users [name, role, active, password, pin], roles [code,     *)
(* name], grants [role, perm], logins (user_sessions) [user, revoked,      *)
(* expired, from, the session its refresh rotated], terminals [code, name, *)
(* active], devices [terminal, name, active, token] and methods [code,     *)
(* name, kind, active].  A secret stands for the hash that verifies it; a  *)
(* token is numbered by its rotations.                                     *)
(***************************************************************************)
EXTENDS Desk, SequencesExt

CONSTANTS
  Permission,  \* permission codes
  MaxToken     \* bound: tokens of a device

\* The sessions there are when the behaviour starts come from a login.
ASSUME AccessAssumption ==
  /\ {"users", "roles", "grants", "logins", "terminals", "devices", "methods"} \subseteq Table
  /\ First.logins \in Seq([user : Nat, revoked : BOOLEAN, expired : BOOLEAN, from : {None}])

LoginOp == {"login_password", "login_pin"}
AuthOp  == LoginOp \union {"refresh", "logout"}

\* The permission each route requires.
PermissionOf ==
  LET users     == {"create_user", "update_user", "set_password", "set_pin"}
      roles     == {"create_role", "update_role", "set_role_permissions"}
      terminals == {"create_terminal", "update_terminal", "deactivate_terminal", "enroll_device",
                    "update_device", "deactivate_device", "rotate_device_token"}
      methods   == {"create_payment_method", "update_payment_method", "deactivate_payment_method"}
  IN  [op \in users \union roles \union terminals \union methods |->
         IF op \in users THEN "admin.users"
         ELSE IF op \in roles THEN "admin.roles"
         ELSE IF op \in terminals THEN "admin.terminals" ELSE "admin.parameters"]

\* The table of the row a request names with its id.
AccessTable ==
  [update_user |-> "users", set_password |-> "users", set_pin |-> "users",
   update_role |-> "roles", set_role_permissions |-> "roles",
   update_terminal |-> "terminals", deactivate_terminal |-> "terminals",
   update_device |-> "devices", deactivate_device |-> "devices", rotate_device_token |-> "devices",
   update_payment_method |-> "methods", deactivate_payment_method |-> "methods",
   refresh |-> "logins", logout |-> "logins"]

-----------------------------------------------------------------------------
(* Who acts. *)

Live(s) == Exists("logins", s) /\ ~rows.logins[s].revoked /\ ~rows.logins[s].expired

Permissions(role) == {rows.grants[g].perm : g \in Where("grants", "role", role)}

\* load_principal: the session of the token is alive, its user active, and the
\* permissions are those the role has now.
LoadPrincipal(r) ==
  LET u == rows.logins[r.sid].user
  IN  IF Live(r.sid) /\ rows.users[u].active
        THEN [user |-> u, permissions |-> Permissions(rows.users[u].role), scope |-> r.scope]
        ELSE None

AdminPermission == {"admin.users", "admin.roles", "admin.terminals", "admin.parameters"}

\* require_permission.
MayDo(r, perm) ==
  LET p == LoadPrincipal(r)
  IN  /\ p # None
      /\ perm \in AdminPermission => p.scope = "full"
      /\ perm \in p.permissions

-----------------------------------------------------------------------------
(* What each handler checks before it writes. *)

HasField(r, k) == k \in DOMAIN r.fields

\* The credential is verified against the row of the user.
CredentialsMatch(r, u) ==
  /\ rows.users[u].active
  /\ r.op = "login_password" => rows.users[u].password = r.secret
  /\ r.op = "login_pin" => rows.users[u].pin # None /\ rows.users[u].pin = r.secret

AccountChecks(r) ==
  /\ r.op = "create_user" => Where("users", "name", r.fields.name) = {}
  /\ r.op \in {"create_user", "update_user"} /\ HasField(r, "role") => Exists("roles", r.fields.role)
  /\ r.op = "update_user" /\ HasField(r, "active") =>
       (r.fields.active \/ r.id # rows.logins[r.sid].user)
  /\ r.op = "create_role" => Where("roles", "code", r.fields.code) = {}
  /\ r.op = "set_role_permissions" => rows.roles[r.id].code # "admin" /\ r.codes \subseteq Permission

\* _check_terminal.
CheckTerminal(t) == t = None \/ (Exists("terminals", t) /\ rows.terminals[t].active)

InfrastructureChecks(r) ==
  /\ r.op = "create_terminal" => Where("terminals", "code", r.fields.code) = {}
  /\ r.op = "enroll_device" => CheckTerminal(r.fields.terminal)
  /\ r.op = "update_device" /\ HasField(r, "terminal") => CheckTerminal(r.fields.terminal)

PaymentMethodChecks(r) ==
  /\ r.op = "create_payment_method" => Where("methods", "code", r.fields.code) = {}
  /\ r.op = "update_payment_method" /\ HasField(r, "code") =>
       Where("methods", "code", r.fields.code) \subseteq {r.id}
  /\ r.op = "deactivate_payment_method" => rows.methods[r.id].active

-----------------------------------------------------------------------------
(* Handlers: the reads. *)

BeginAuth(h, r) ==
  \/ /\ r.op \in LoginOp
     /\ \E u \in Where("users", "name", r.name) :
          CredentialsMatch(r, u) /\ Begin(h, r, [user |-> u])
  \/ /\ r.op = "refresh" /\ Live(r.id)
     /\ Begin(h, r, rows.logins[r.id])
  \/ /\ r.op = "logout" /\ Exists("logins", r.id)
     /\ Begin(h, r, rows.logins[r.id])

BeginAdmin(h, r) ==
  /\ r.op \in DOMAIN PermissionOf /\ MayDo(r, PermissionOf[r.op])
  /\ r.op \in DOMAIN AccessTable => Exists(AccessTable[r.op], r.id)
  /\ AccountChecks(r) /\ InfrastructureChecks(r) /\ PaymentMethodChecks(r)
  /\ Begin(h, r, IF r.op \in DOMAIN AccessTable THEN rows[AccessTable[r.op]][r.id] ELSE None)

\* The live sessions of a user, as an UPDATE finds them.
LiveLogins(u) == {<<"logins", s>> : s \in {x \in Where("logins", "user", u) : ~rows.logins[x].revoked}}

\* The second statement: refresh reads the user (and finds it, if active), the
\* credentials close sessions, the matrix of a role is emptied.
GatherAccess(h) ==
  \/ /\ Running(h, "refresh")
     /\ Gather(h, {u \in {<<"users", seen[h].row.user>>} : rows.users[u[2]].active})
  \/ /\ (Running(h, "set_password") \/ Running(h, "set_pin"))
     /\ Gather(h, LiveLogins(req[h].id))
  \/ /\ Running(h, "set_role_permissions")
     /\ Gather(h, {<<"grants", g>> : g \in Where("grants", "role", req[h].id)})

-----------------------------------------------------------------------------
(* Handlers: the writes.  services/auth.py *)

NewLogin(u, from) == [user |-> u, revoked |-> FALSE, expired |-> FALSE, from |-> from]

\* revoke_session: a session already revoked is left alone.
Revoked(logins, s) == [logins EXCEPT ![s].revoked = TRUE]

IssueSession(h) ==
  /\ req[h] # None /\ req[h].op \in LoginOp
  /\ Insert(h, "logins", NewLogin(seen[h].row.user, None))

\* Mutant: the new session is issued and the old one left alive.
Refresh_KeepsOld(h) ==
  /\ Running(h, "refresh") /\ seen[h].old # None /\ seen[h].old # {}
  /\ Insert(h, "logins", NewLogin(seen[h].row.user, req[h].id))

Refresh(h) ==
  /\ Running(h, "refresh") /\ seen[h].old # None
  /\ LET closed == Revoked(rows.logins, req[h].id)
     IN  Commit(h, [rows EXCEPT !.logins =
           IF seen[h].old = {} THEN closed
           ELSE Append(closed, NewLogin(seen[h].row.user, req[h].id))])

Logout(h) == Running(h, "logout") /\ Commit(h, [rows EXCEPT !.logins = Revoked(@, req[h].id)])

\* refresh_token_hours pass.
Expire(s) ==
  /\ Live(s)
  /\ rows' = [rows EXCEPT !.logins[s].expired = TRUE]
  /\ UNCHANGED <<asks, req, seen>>

-----------------------------------------------------------------------------
(* services/accounts.py *)

CreateUser(h) ==
  /\ Running(h, "create_user")
  /\ Insert(h, "users", req[h].fields @@ [active |-> TRUE])

UpdateUser(h) == Running(h, "update_user") /\ Update(h, "users", req[h].fields)

\* A credential is written, and the sessions it found alive are revoked.
SetCredential(h) ==
  /\ seen[h].old # None
  /\ Commit(h, [rows EXCEPT
       !.users[req[h].id] = [k \in DOMAIN @ |-> IF HasField(req[h], k) THEN req[h].fields[k] ELSE @[k]],
       !.logins = [s \in DOMAIN @ |->
         IF <<"logins", s>> \in seen[h].old THEN [@[s] EXCEPT !.revoked = TRUE] ELSE @[s]]])

SetPassword(h) == Running(h, "set_password") /\ SetCredential(h)
SetPin(h)      == Running(h, "set_pin") /\ SetCredential(h)

CreateRole(h) == Running(h, "create_role") /\ Insert(h, "roles", req[h].fields)
UpdateRole(h) == Running(h, "update_role") /\ Update(h, "roles", req[h].fields)

\* replace_role_permissions, once the old grants are found.
GrantRows(role, codes) == SetToSeq({[role |-> role, perm |-> p] : p \in codes})

SetRolePermissions(h) ==
  /\ Running(h, "set_role_permissions") /\ seen[h].old # None
  /\ Commit(h, [rows EXCEPT !.grants = Kept(h, "grants") \o GrantRows(req[h].id, req[h].codes)])

-----------------------------------------------------------------------------
(* services/infrastructure.py *)

CreateTerminal(h) ==
  Running(h, "create_terminal") /\ Insert(h, "terminals", req[h].fields @@ [active |-> TRUE])

UpdateTerminal(h) == Running(h, "update_terminal") /\ Update(h, "terminals", req[h].fields)

DeactivateTerminal(h) ==
  Running(h, "deactivate_terminal") /\ Update(h, "terminals", [active |-> FALSE])

EnrollDevice(h) ==
  Running(h, "enroll_device") /\ Insert(h, "devices", req[h].fields @@ [active |-> TRUE, token |-> 1])

\* A new token is never the one it read: the column is always written.
RotateDeviceToken(h) ==
  /\ Running(h, "rotate_device_token")
  /\ rows.devices[req[h].id].token < MaxToken
  /\ Commit(h, [rows EXCEPT !.devices[req[h].id].token = @ + 1])

UpdateDevice(h) == Running(h, "update_device") /\ Update(h, "devices", req[h].fields)

DeactivateDevice(h) ==
  Running(h, "deactivate_device") /\ Update(h, "devices", [active |-> FALSE])

-----------------------------------------------------------------------------
(* services/payments.py *)

CreatePaymentMethod(h) ==
  Running(h, "create_payment_method") /\ Insert(h, "methods", req[h].fields @@ [active |-> TRUE])

UpdatePaymentMethod(h) ==
  Running(h, "update_payment_method") /\ Update(h, "methods", req[h].fields)

DeactivatePaymentMethod(h) ==
  Running(h, "deactivate_payment_method") /\ Update(h, "methods", [active |-> FALSE])

AccessWrite(h) ==
  \/ IssueSession(h) \/ Refresh(h) \/ Logout(h)
  \/ CreateUser(h) \/ UpdateUser(h) \/ SetPassword(h) \/ SetPin(h)
  \/ CreateRole(h) \/ UpdateRole(h) \/ SetRolePermissions(h)
  \/ CreateTerminal(h) \/ UpdateTerminal(h) \/ DeactivateTerminal(h)
  \/ EnrollDevice(h) \/ RotateDeviceToken(h) \/ UpdateDevice(h) \/ DeactivateDevice(h)
  \/ CreatePaymentMethod(h) \/ UpdatePaymentMethod(h) \/ DeactivatePaymentMethod(h)

-----------------------------------------------------------------------------
(* Properties. *)

\* The sessions that came from one by rotation, and the refreshes of it under way.
Successors(s) == Where("logins", "from", s)
Refreshing(s) == {h \in Handler : Running(h, "refresh") /\ req[h].id = s}

\* services/auth.py, refresh: "Reutilizar un refresh ya rotado revoca el acceso".
\* However often a token is presented, no refresh of it begins once one has
\* committed: the sessions it buys are those of the refreshes that ran at once,
\* however many come, log out, change credentials or expire around them.
ReuseRefused ==
  \A s \in Ids("logins") :
    Cardinality(Successors(s)) + Cardinality(Refreshing(s)) <= Cardinality(Handler)

\* "... y el nuevo token sigue siendo el único válido": so it is not when two
\* refreshes found the session alive.
OnlyNewTokenValid ==
  \A s \in Ids("logins") : Cardinality({x \in Successors(s) : Live(x)}) <= 1
=============================================================================
