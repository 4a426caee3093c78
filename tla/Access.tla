------------------------------- MODULE Access -------------------------------
(***************************************************************************)
(* What a caller may do: the authorization decision every route asks for.  *)
(* A role is what a person may do in a workspace, a scope what one         *)
(* credential may do on that person's behalf, and an operation needs both. *)
(* A credential is resolved to an actor: the workspace it acts in, the     *)
(* person behind it (Nobody for a key the bootstrap script made), the role *)
(* and the scopes.                                                         *)
(***************************************************************************)
EXTENDS Naturals, FiniteSets

CONSTANT Nobody

Roles == {"owner", "admin", "member", "viewer"}

Scopes == {"runs:read", "runs:write", "usage:read", "keys:read", "keys:write",
           "members:read", "members:write", "audit:read"}

DefaultScopes == {"runs:read", "runs:write", "usage:read"}

Permissions == {"run.create", "run.read", "run.cancel", "run.delete", "usage.read",
                "key.create", "key.read", "key.revoke", "member.read", "member.manage",
                "tenant.manage", "audit.read"}

permissionsForRole(role) ==
  CASE role = "owner"  -> Permissions
    [] role = "admin"  -> Permissions \ {"tenant.manage"}
    [] role = "member" -> {"run.create", "run.read", "run.cancel", "run.delete", "usage.read",
                           "member.read"}
    [] role = "viewer" -> {"run.read", "usage.read", "member.read"}

permissionsForScope(scope) ==
  CASE scope = "runs:read"     -> {"run.read"}
    [] scope = "runs:write"    -> {"run.create", "run.cancel", "run.delete"}
    [] scope = "usage:read"    -> {"usage.read"}
    [] scope = "keys:read"     -> {"key.read"}
    [] scope = "keys:write"    -> {"key.create", "key.revoke"}
    [] scope = "members:read"  -> {"member.read"}
    [] scope = "members:write" -> {"member.manage", "tenant.manage"}
    [] scope = "audit:read"    -> {"audit.read"}

(* A scope this build does not know is dropped, from a grant as from a row. *)
parseScopeList(raw) == raw \cap Scopes

(* A custom Clerk role that matches none of ours gets the least.            *)
memberRoleFromClerk(clerkRole) == IF clerkRole \in Roles THEN clerkRole ELSE "viewer"

(* What a member may do only to what it owns.                               *)
OwnerOnlyForMembers == {"run.delete", "run.cancel"}

(* The decision on one operation, and on the row it acts on: the reasons    *)
(* are tried in this order, another workspace's row first.                  *)
can(actor, permission, resource) ==
  CASE resource.tenant # actor.tenant -> "cross-tenant"
    [] permission \notin permissionsForRole(actor.role) -> "role"
    [] \A scope \in actor.scopes : permission \notin permissionsForScope(scope) -> "scope"
    [] /\ permission \in OwnerOnlyForMembers
       /\ actor.role \in {"member", "viewer"}
       /\ resource.owner \notin {Nobody, actor.user} -> "not-owner"
    [] OTHER -> "allowed"

(* Without a row: may this caller do it at all?                             *)
allows(actor, permission) ==
  can(actor, permission, [tenant |-> actor.tenant, owner |-> Nobody]) = "allowed"

(* Another workspace's row is indistinguishable from one that is not there. *)
denialStatus(reason) == IF reason = "cross-tenant" THEN 404 ELSE 403

(* What a new key gets of what was asked for: never more than the           *)
(* credential that asks holds.                                              *)
grantableScopes(held, requested) == requested \cap held
=============================================================================
