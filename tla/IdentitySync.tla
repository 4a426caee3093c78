---------------------------- MODULE IdentitySync ----------------------------
(***************************************************************************)
(* The mirror of Clerk in the database, and the keys that hang on it.      *)
(* Clerk knows who exists and who belongs to which organization; it sends  *)
(* an event for every change, at least once and in any order, until it is  *)
(* answered 2xx or gives up. The API claims a delivery by its id, applies  *)
(* it in several statements and releases the claim if one fails. A nightly *)
(* job walks Clerk's lists and repairs what the events left behind. API    *)
(* keys draw their authority from the mirrored membership of whoever       *)
(* minted them.                                                            *)
(*                                                                         *)
(* Users are named by their Clerk id: no address moves from one person to  *)
(* another, and no user was seeded without a Clerk id.                     *)
(***************************************************************************)
EXTENDS Access, Sequences

CONSTANTS Orgs, People, Founder, Keys,
          ClerkRoles,      \* the roles Clerk hands out
          MaxChanges,      \* changes made in Clerk, each with its event
          MaxSyncFaults    \* handlers that fail or die, events lost or repeated too early

ASSUME FounderAssumption ==
  Founder \in People /\ Nobody \notin People /\ MaxChanges \in Nat /\ MaxSyncFaults \in Nat

VARIABLES
  clerk,        \* external: who exists, which organizations, who is what in them
  events,       \* the events Clerk sent, with what has become of each
  tenant,       \* Tenant rows: none, live or soft-deleted
  user,         \* People with a User row
  member,       \* Membership rows: the role, or none
  key,          \* ApiKey rows
  nightly,      \* the reconciliation job
  syncFaults

mirrorVars == <<tenant, user, member>>
identityVars == <<clerk, events, tenant, user, member, key, nightly, syncFaults>>

NoKey == [state |-> "none", tenant |-> "none", by |-> Nobody, minter |-> Nobody,
          scopes |-> {}]

Asleep == [at |-> "idle", seen |-> {}, orgs |-> {}, org |-> "none", upstream |-> <<>>,
           todo |-> {}, stale |-> {}, vanished |-> {}, person |-> Nobody]

-----------------------------------------------------------------------------
(* Clerk.                                                                   *)

SvixSends(kind, o, p, role) ==
  events' = Append(events, [kind |-> kind, org |-> o, person |-> p, role |-> role,
                            at |-> "idle", claimed |-> FALSE, acked |-> FALSE])

Change == Len(events) < MaxChanges /\ UNCHANGED <<key, nightly, syncFaults>> /\ UNCHANGED mirrorVars

ClerkSetsRole(o, p, role) ==
  /\ Change
  /\ o \in clerk.orgs /\ p \in clerk.users /\ clerk.role[o][p] # role
  /\ clerk' = [clerk EXCEPT !.role[o][p] = role]
  /\ SvixSends("member", o, p, role)

ClerkRemovesMember(o, p) ==
  /\ Change
  /\ o \in clerk.orgs /\ clerk.role[o][p] # "none"
  /\ clerk' = [clerk EXCEPT !.role[o][p] = "none"]
  /\ SvixSends("memberGone", o, p, "none")

ClerkUpdatesUser(p) ==
  /\ Change
  /\ p \in clerk.users
  /\ SvixSends("user", "none", p, "none")
  /\ UNCHANGED clerk

ClerkDeletesUser(p) ==
  /\ Change
  /\ p \in clerk.users
  /\ clerk' = [clerk EXCEPT !.users = @ \ {p},
                            !.role = [o \in Orgs |-> [@[o] EXCEPT ![p] = "none"]]]
  /\ SvixSends("userGone", "none", p, "none")

ClerkUpdatesOrg(o) ==
  /\ Change
  /\ o \in clerk.orgs
  /\ SvixSends("org", o, Nobody, "none")
  /\ UNCHANGED clerk

ClerkDeletesOrg(o) ==
  /\ Change
  /\ o \in clerk.orgs
  /\ clerk' = [clerk EXCEPT !.orgs = @ \ {o}, !.role[o] = [p \in People |-> "none"]]
  /\ SvixSends("orgGone", o, Nobody, "none")

-----------------------------------------------------------------------------
(* The mirror's statements.                                                 *)

(* An update leaves deletedAt alone.                                        *)
syncClerkOrganization(o) ==
  tenant' = [tenant EXCEPT ![o] = IF @ = "none" THEN "live" ELSE @]

deleteClerkOrganization(o) ==
  tenant' = [tenant EXCEPT ![o] = IF @ = "live" THEN "deleted" ELSE @]

syncClerkUser(p) == user' = user \cup {p}

(* The row goes, its memberships cascade, and the creator of its keys is    *)
(* set to null.                                                             *)
deleteClerkUser(p) ==
  /\ user' = user \ {p}
  /\ member' = [o \in Orgs |-> [member[o] EXCEPT ![p] = "none"]]
  /\ key' = [k \in Keys |-> IF key[k].by = p THEN [key[k] EXCEPT !.by = Nobody] ELSE key[k]]
  /\ nightly' = [nightly EXCEPT !.vanished = @ \cup {p}]

(* Every key that member minted in the workspace and that is still live.    *)
revokeKeysOf(o, p) ==
  key' = [k \in Keys |->
            IF key[k].tenant = o /\ key[k].by = p /\ key[k].state = "live"
            THEN [key[k] EXCEPT !.state = "revoked"] ELSE key[k]]

-----------------------------------------------------------------------------
(* The webhook handler.                                                     *)

Handlers == 1..Len(events)

FirstStep(kind) ==
  CASE kind = "member" -> "org" [] kind = "memberGone" -> "remove" [] OTHER -> kind

Goes(i, place) == events' = [events EXCEPT ![i].at = place]

(* 2xx: Svix stops.                                                         *)
Acknowledge(i) == events' = [events EXCEPT ![i].at = "done", ![i].acked = TRUE]

(* The claim is an insert on the delivery's id; a delivery that is claimed  *)
(* already is acknowledged and not applied.                                 *)
ClaimDelivery(i) ==
  /\ ~events[i].acked /\ events[i].at = "idle"
  /\ events' = IF events[i].claimed
               THEN [events EXCEPT ![i].acked = TRUE]
               ELSE [events EXCEPT ![i].claimed = TRUE, ![i].at = FirstStep(events[i].kind)]
  /\ UNCHANGED <<clerk, key, nightly, syncFaults>> /\ UNCHANGED mirrorVars

ApplyOrg(i) ==
  /\ events[i].at = "org"
  /\ syncClerkOrganization(events[i].org)
  /\ IF events[i].kind = "member" THEN Goes(i, "user") ELSE Acknowledge(i)
  /\ UNCHANGED <<clerk, user, member, key, nightly, syncFaults>>

ApplyOrgGone(i) ==
  /\ events[i].at = "orgGone"
  /\ deleteClerkOrganization(events[i].org)
  /\ Acknowledge(i)
  /\ UNCHANGED <<clerk, user, member, key, nightly, syncFaults>>

ApplyUser(i) ==
  /\ events[i].at = "user"
  /\ syncClerkUser(events[i].person)
  /\ IF events[i].kind = "member" THEN Goes(i, "member") ELSE Acknowledge(i)
  /\ UNCHANGED <<clerk, tenant, member, key, nightly, syncFaults>>

ApplyUserGone(i) ==
  /\ events[i].at = "userGone"
  /\ deleteClerkUser(events[i].person)
  /\ Acknowledge(i)
  /\ UNCHANGED <<clerk, tenant, syncFaults>>

(* The upsert fails on its foreign key if the user was deleted since: the   *)
(* claim is released and the delivery comes again.                          *)
ApplyMember(i) ==
  LET e == events[i] IN
  /\ e.at = "member"
  /\ \/ /\ e.person \in user
        /\ member' = [member EXCEPT ![e.org][e.person] = e.role]
        /\ Acknowledge(i)
     \/ /\ e.person \notin user
        /\ events' = [events EXCEPT ![i].at = "idle", ![i].claimed = FALSE]
        /\ UNCHANGED member
  /\ UNCHANGED <<clerk, tenant, user, key, nightly, syncFaults>>

(* Nothing to remove when either row is missing.                            *)
ApplyRemoval(i) ==
  LET e == events[i] IN
  /\ e.at = "remove"
  /\ \/ /\ tenant[e.org] = "none" \/ e.person \notin user
        /\ Acknowledge(i)
        /\ UNCHANGED <<member, nightly>>
     \/ /\ tenant[e.org] # "none" /\ e.person \in user
        /\ member' = [member EXCEPT ![e.org][e.person] = "none"]
        /\ nightly' = [nightly EXCEPT !.vanished =
                         IF e.org = nightly.org THEN @ \cup {e.person} ELSE @]
        /\ Goes(i, "revoke")
  /\ UNCHANGED <<clerk, tenant, user, key, syncFaults>>

ApplyRevocation(i) ==
  /\ events[i].at = "revoke"
  /\ revokeKeysOf(events[i].org, events[i].person)
  /\ Acknowledge(i)
  /\ UNCHANGED <<clerk, nightly, syncFaults>> /\ UNCHANGED mirrorVars

SyncFault == syncFaults < MaxSyncFaults /\ syncFaults' = syncFaults + 1

(* A statement failed: 500, with the claim released, or with the claim kept *)
(* because the process died or the release failed too.                      *)
HandlerFails(i) ==
  /\ SyncFault
  /\ events[i].at \notin {"idle", "done"}
  /\ \E kept \in BOOLEAN : events' = [events EXCEPT ![i].at = "idle", ![i].claimed = kept]
  /\ UNCHANGED <<clerk, key, nightly>> /\ UNCHANGED mirrorVars

(* Svix gives up on a delivery, or one it repeated while the first was      *)
(* still being applied is answered as a duplicate.                          *)
DeliveryEnds(i) ==
  /\ SyncFault
  /\ ~events[i].acked
  /\ events' = [events EXCEPT ![i].acked = TRUE]
  /\ UNCHANGED <<clerk, key, nightly>> /\ UNCHANGED mirrorVars

apply(i) ==
  \/ ApplyOrg(i) \/ ApplyOrgGone(i) \/ ApplyUser(i) \/ ApplyUserGone(i)
  \/ ApplyMember(i) \/ ApplyRemoval(i) \/ ApplyRevocation(i)

-----------------------------------------------------------------------------
(* The nightly job. Clerk's lists are read once; each row is then compared  *)
(* and repaired, and whatever throws ends the job until the next night.     *)

ReconcileStarts ==
  /\ nightly.at = "idle"
  /\ nightly' = [Asleep EXCEPT !.at = "orgs", !.seen = clerk.orgs, !.orgs = clerk.orgs]
  /\ UNCHANGED <<clerk, events, key, syncFaults>> /\ UNCHANGED mirrorVars

(* A missing tenant is created; one that was deleted here lives again.      *)
ReconcileOrg(o) ==
  /\ nightly.at = "orgs" /\ o \in nightly.orgs
  /\ tenant' = [tenant EXCEPT ![o] = "live"]
  /\ nightly' = [nightly EXCEPT !.at = "list", !.org = o, !.orgs = @ \ {o}]
  /\ UNCHANGED <<clerk, events, user, member, key, syncFaults>>

(* Clerk refuses the list of an organization it no longer has.              *)
ReconcileList ==
  /\ nightly.at = "list"
  /\ LET o == nightly.org IN
     nightly' = IF o \in clerk.orgs
                THEN [nightly EXCEPT !.at = "members", !.upstream = clerk.role[o],
                                     !.todo = {p \in People : clerk.role[o][p] # "none"}]
                ELSE Asleep
  /\ UNCHANGED <<clerk, events, key, syncFaults>> /\ UNCHANGED mirrorVars

(* A member Clerk lists: nothing to do, or syncClerkMembership, which       *)
(* writes the user before the membership.                                   *)
reconcileMember(p) ==
  /\ nightly.at = "members" /\ p \in nightly.todo
  /\ \/ /\ member[nightly.org][p] = nightly.upstream[p]
        /\ nightly' = [nightly EXCEPT !.todo = @ \ {p}]
        /\ UNCHANGED user
     \/ /\ member[nightly.org][p] # nightly.upstream[p]
        /\ syncClerkUser(p)
        /\ nightly' = [nightly EXCEPT !.at = "upsert", !.person = p, !.todo = @ \ {p}]
  /\ UNCHANGED <<clerk, events, tenant, member, key, syncFaults>>

(* The upsert throws if the user was deleted since.                         *)
reconcileUpsert ==
  /\ nightly.at = "upsert"
  /\ \/ /\ nightly.person \in user
        /\ member' = [member EXCEPT ![nightly.org][nightly.person] = nightly.upstream[nightly.person]]
        /\ nightly' = [nightly EXCEPT !.at = "members", !.person = Nobody]
     \/ /\ nightly.person \notin user
        /\ nightly' = Asleep
        /\ UNCHANGED member
  /\ UNCHANGED <<clerk, events, tenant, user, key, syncFaults>>

(* A job that only adds.                                                    *)
reconcileLocalsKeepsAll ==
  /\ nightly.at = "members" /\ nightly.todo = {}
  /\ nightly' = [nightly EXCEPT !.at = "stale", !.stale = {}, !.vanished = {}]
  /\ UNCHANGED <<clerk, events, key, syncFaults>> /\ UNCHANGED mirrorVars

(* The local memberships Clerk did not list.                                *)
reconcileLocals ==
  /\ nightly.at = "members" /\ nightly.todo = {}
  /\ LET o == nightly.org
         stale == {p \in People : member[o][p] # "none" /\ nightly.upstream[p] = "none"}
     IN nightly' = [nightly EXCEPT !.at = "stale", !.stale = stale, !.vanished = {}]
  /\ UNCHANGED <<clerk, events, key, syncFaults>> /\ UNCHANGED mirrorVars

(* The row is deleted by its id, which throws if a webhook was faster.      *)
reconcileDelete(p) ==
  /\ nightly.at = "stale" /\ p \in nightly.stale
  /\ \/ /\ p \in nightly.vanished
        /\ nightly' = Asleep
        /\ UNCHANGED member
     \/ /\ p \notin nightly.vanished
        /\ member' = [member EXCEPT ![nightly.org][p] = "none"]
        /\ nightly' = [nightly EXCEPT !.at = "revoke", !.person = p, !.stale = @ \ {p}]
  /\ UNCHANGED <<clerk, events, tenant, user, key, syncFaults>>

reconcileRevoke ==
  /\ nightly.at = "revoke"
  /\ revokeKeysOf(nightly.org, nightly.person)
  /\ nightly' = [nightly EXCEPT !.at = "stale", !.person = Nobody]
  /\ UNCHANGED <<clerk, events, syncFaults>> /\ UNCHANGED mirrorVars

reconcileMemberships ==
  \/ ReconcileList \/ reconcileUpsert \/ reconcileLocals \/ reconcileRevoke
  \/ \E p \in People : reconcileMember(p) \/ reconcileDelete(p)

ReconcileNextOrg ==
  /\ nightly.at = "stale" /\ nightly.stale = {}
  /\ nightly' = [nightly EXCEPT !.at = "orgs"]
  /\ UNCHANGED <<clerk, events, key, syncFaults>> /\ UNCHANGED mirrorVars

(* A live tenant that was not on Clerk's list lost its organization.        *)
ReconcileOrphans ==
  /\ nightly.at = "orgs" /\ nightly.orgs = {}
  /\ tenant' = [o \in Orgs |->
                  IF tenant[o] = "live" /\ o \notin nightly.seen THEN "deleted" ELSE tenant[o]]
  /\ nightly' = Asleep
  /\ UNCHANGED <<clerk, events, user, member, key, syncFaults>>

ReconcileFails ==
  /\ SyncFault
  /\ nightly.at # "idle"
  /\ nightly' = Asleep
  /\ UNCHANGED <<clerk, events, key>> /\ UNCHANGED mirrorVars

Reconcile ==
  \/ ReconcileStarts \/ ReconcileNextOrg \/ ReconcileOrphans \/ reconcileMemberships
  \/ \E o \in Orgs : ReconcileOrg(o)

-----------------------------------------------------------------------------
(* API keys and the requests that manage them.                              *)

(* A live key is accepted when its creator is a member now; one without a   *)
(* creator has full authority in its workspace. deletedAt is not read.      *)
verifyApiKey(k) ==
  /\ key[k].state = "live"
  /\ key[k].by = Nobody \/ member[key[k].tenant][key[k].by] # "none"

(* A key with the authority of the workspace, whoever made it.              *)
keyActorOfWorkspace(k) ==
  [tenant |-> key[k].tenant, user |-> key[k].by, scopes |-> key[k].scopes, role |-> "owner"]

keyActor(k) ==
  [tenant |-> key[k].tenant, user |-> key[k].by, scopes |-> key[k].scopes,
   role |-> IF key[k].by = Nobody THEN "owner" ELSE member[key[k].tenant][key[k].by]]

(* A session or an OAuth token acts in the live workspace it names, and in  *)
(* one its person is a member of when it names none; never in another.      *)
resolveMembership(p, wanted) ==
  {o \in Orgs : wanted \in {"any", o} /\ p \in user /\ tenant[o] = "live" /\ member[o][p] # "none"}

sessionActor(p, o, scopes) ==
  [tenant |-> o, user |-> p, scopes |-> parseScopeList(scopes), role |-> member[o][p]]

authenticateClerk(p, scopes, wanted) ==
  {sessionActor(p, o, scopes) : o \in resolveMembership(p, wanted)}

authenticateApiKey(k, wanted) ==
  IF verifyApiKey(k) /\ wanted \in {"any", key[k].tenant} THEN {keyActor(k)} ELSE {}

(* Whoever a request may be from, whatever workspace it names.              *)
authenticate ==
  UNION ({authenticateApiKey(w[1], w[2]) : w \in Keys \X (Orgs \cup {"any"})}
         \cup {authenticateClerk(w[1], w[2], w[3]) :
                  w \in People \X {Scopes, DefaultScopes} \X (Orgs \cup {"any"})})

(* POST /keys decides first and inserts later. Its plan must allow keys,    *)
(* which is left open.                                                      *)
MintKey(k) ==
  /\ key[k].state = "none"
  /\ \E actor \in authenticate : \E requested \in {Scopes, DefaultScopes} :
       /\ allows(actor, "key.create")
       /\ grantableScopes(actor.scopes, requested) # {}
       /\ key' = [key EXCEPT ![k] =
                    [state |-> "minting", tenant |-> actor.tenant, by |-> actor.user,
                     minter |-> actor.user,
                     scopes |-> grantableScopes(actor.scopes, requested)]]
  /\ UNCHANGED <<clerk, events, nightly, syncFaults>> /\ UNCHANGED mirrorVars

(* Its creator has to exist still, by the foreign key.                      *)
createApiKey(k) ==
  /\ key[k].state = "minting"
  /\ key' = [key EXCEPT ![k] = IF key[k].minter \in user \cup {Nobody} /\ key[k].by = key[k].minter
                                THEN [@ EXCEPT !.state = "live"] ELSE NoKey]
  /\ UNCHANGED <<clerk, events, nightly, syncFaults>> /\ UNCHANGED mirrorVars

(* The bootstrap script, run by whoever holds the database.                 *)
BootstrapKey(k) ==
  /\ key[k].state = "none"
  /\ \E o \in Orgs :
       /\ tenant[o] # "none"
       /\ key' = [key EXCEPT ![k] = [NoKey EXCEPT !.state = "live", !.tenant = o,
                                                  !.scopes = Scopes]]
  /\ UNCHANGED <<clerk, events, nightly, syncFaults>> /\ UNCHANGED mirrorVars

revokeApiKey(k) ==
  /\ key[k].state = "live"
  /\ \E actor \in authenticate : actor.tenant = key[k].tenant /\ allows(actor, "key.revoke")
  /\ key' = [key EXCEPT ![k].state = "revoked"]
  /\ UNCHANGED <<clerk, events, nightly, syncFaults>> /\ UNCHANGED mirrorVars

-----------------------------------------------------------------------------
IdentityInit ==
  /\ clerk = [users |-> People, orgs |-> Orgs,
              role |-> [o \in Orgs |-> [p \in People |-> IF p = Founder THEN "admin" ELSE "none"]]]
  /\ events = <<>>
  /\ tenant = [o \in Orgs |-> "live"]
  /\ user = {Founder}
  /\ member = clerk.role
  /\ key = [k \in Keys |-> NoKey]
  /\ nightly = Asleep
  /\ syncFaults = 0

(* A role is the one the mirror reads it as.                                *)
ClerkChanges ==
  \/ \E p \in People : ClerkUpdatesUser(p) \/ ClerkDeletesUser(p)
  \/ \E o \in Orgs :
       \/ ClerkUpdatesOrg(o) \/ ClerkDeletesOrg(o)
       \/ \E p \in People : \/ ClerkRemovesMember(o, p)
                           \/ \E r \in ClerkRoles : ClerkSetsRole(o, p, memberRoleFromClerk(r))

IdentityNext ==
  \/ ClerkChanges
  \/ \E i \in Handlers : ClaimDelivery(i) \/ apply(i) \/ HandlerFails(i) \/ DeliveryEnds(i)
  \/ Reconcile \/ ReconcileFails
  \/ \E k \in Keys : MintKey(k) \/ createApiKey(k) \/ BootstrapKey(k) \/ revokeApiKey(k)

IdentitySpec == IdentityInit /\ [][IdentityNext]_identityVars

(* Svix repeats what was not acknowledged, a handler that began goes on,    *)
(* and the job runs every night. Clerk need not change.                     *)
IdentityFairness ==
  /\ \A i \in 1..MaxChanges : WF_identityVars(i \in Handlers /\ (ClaimDelivery(i) \/ apply(i)))
  /\ WF_identityVars(Reconcile)

IdentityFairSpec == IdentitySpec /\ IdentityFairness

-----------------------------------------------------------------------------
EventSteps == {"idle", "org", "orgGone", "user", "userGone", "member", "remove", "revoke", "done"}

(* Types, and that a membership has its two rows.                           *)
IdentityTypeOK ==
  /\ clerk \in [users: SUBSET People, orgs: SUBSET Orgs,
                role: [Orgs -> [People -> Roles \cup {"none"}]]]
  /\ Len(events) <= MaxChanges
  /\ \A i \in Handlers :
       events[i] \in [kind: {"user", "userGone", "org", "orgGone", "member", "memberGone"},
                      org: Orgs \cup {"none"}, person: People \cup {Nobody},
                      role: Roles \cup {"none"}, at: EventSteps, claimed: BOOLEAN, acked: BOOLEAN]
  /\ tenant \in [Orgs -> {"none", "live", "deleted"}]
  /\ user \subseteq People
  /\ member \in [Orgs -> [People -> Roles \cup {"none"}]]
  /\ \A o \in Orgs, p \in People : member[o][p] # "none" => tenant[o] # "none" /\ p \in user
  /\ \A k \in Keys :
       key[k] \in [state: {"none", "minting", "live", "revoked"}, tenant: Orgs \cup {"none"},
                   by: People \cup {Nobody}, minter: People \cup {Nobody}, scopes: SUBSET Scopes]
  /\ nightly.at \in {"idle", "orgs", "list", "members", "upsert", "stale", "revoke"}
  /\ syncFaults \in 0..MaxSyncFaults

Power(actor) == {q \in Permissions : allows(actor, q)}

(* What a key lets do now never exceeds what whoever minted it may do now   *)
(* (db/src/auth.ts: demoting someone demotes their keys), as long as that   *)
(* person's row is the one the key names.                                   *)
KeysFollowTheirMinter ==
  \A k \in Keys :
    verifyApiKey(k) /\ key[k].by # Nobody =>
      Power(keyActor(k)) \subseteq Power(sessionActor(key[k].minter, key[k].tenant, Scopes))

(* Once Clerk is left alone, the tenants and memberships agree with it for  *)
(* good: the nightly job repairs whatever a lost, late or half-applied      *)
(* event left behind, a member an overtaken event brought back included. It *)
(* repairs neither the row of a person who is gone, whose user.deleted was  *)
(* lost or overtaken, nor the keys of a member whose removal stopped before *)
(* its second statement.                                                    *)
MirrorAgrees ==
  \A o \in Orgs :
    IF o \in clerk.orgs THEN tenant[o] = "live" /\ member[o] = clerk.role[o] ELSE tenant[o] # "live"

MirrorConverges == <>[]MirrorAgrees

-----------------------------------------------------------------------------
(* What the repository says and the code does not do; the property of a run *)
(* that is expected to violate it.                                          *)

(* db/src/tenancy.ts:326: a deleted user's "memberships cascade, which      *)
(* revokes every key they minted at the same moment."                       *)
KeysDieWithTheirMinter ==
  \A k \in Keys : key[k].minter \in People \ user => ~verifyApiKey(k)
=============================================================================
