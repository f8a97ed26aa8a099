------------------------------ MODULE Accounts ------------------------------
(***************************************************************************)
(* Users, instance ownership and quotas, instance API keys and the cache   *)
(* of their plaintexts: the concurrent requests of the management API.     *)
(*                                                                         *)
(* Source: internal/httpapi/{instances,users,apikeys,authorize,middleware, *)
(* auth}.go, internal/auth/auth.go, Create and Delete of                   *)
(* internal/instance/service.go, internal/storage/postgres/{users,         *)
(* instances,apikeys}.go, internal/webhook/keycache.go and                 *)
(* cmd/wzap/seed.go.                                                       *)
(*                                                                         *)
(* Every statement is a step of its own, as no handler opens a             *)
(* transaction.  A key stands for its hash too (SHA-256 is injective on    *)
(* the keys minted), ids are never reused, and handlers that run a single  *)
(* statement are one action.                                               *)
(***************************************************************************)
EXTENDS Integers, FiniteSets, Faults

CONSTANTS
    Users,         \* user ids
    Instances,     \* instance ids
    Requests,      \* requests served at a time
    NoUser,        \* the owner of a legacy instance
    NoInstance,
    Quotas,        \* values of instance_quota; 0 is unlimited
    MaxInstances,  \* WZAP_MAX_INSTANCES; 0 is no ceiling
    MaxKeys        \* bound: keys minted
    \* MaxFaults of Faults bounds failed statements, crashes

ASSUME AccountsAssumption ==
    /\ IsFiniteSet(Requests) /\ Requests # {}
    /\ IsFiniteSet(Instances)
    /\ NoUser \notin Users
    /\ NoInstance \notin Instances
    /\ Quotas \subseteq Nat
    /\ MaxInstances \in Nat
    /\ MaxKeys \in Nat
    /\ MaxFaults \in Nat

VARIABLES
    \* Postgres
    user,    \* users
    inst,    \* instances: owner and api_key_hash
    \* memory
    cache,   \* webhook.Keys
    up,      \* the process serves
    minted,  \* keys minted so far
    \* requests
    pc, scope, target, owner, quota, key,
    \* History, not stored by the program
    self,    \* instances created by a session of their owner, no admin
    limit,   \* the greatest quota each user had
    torn,    \* instances whose key writes overlapped or lost an answer
    keyless  \* instances whose key was revoked, or whose creation was cut half-way

rowVars     == <<user, inst>>
requestVars == <<pc, scope, target, owner, quota, key>>
historyVars == <<self, limit, torn, keyless>>
accountsVars == <<rowVars, cache, up, minted, requestVars, historyVars, faults>>

-----------------------------------------------------------------------------
(* Values                                                                  *)

NoKey     == 0
Unlimited == -1
Key   == 1..MaxKeys

Row     == [st: {"absent", "present", "gone"}, owner: Users \cup {NoUser}, key: Key \cup {NoKey}]
UserRow == [st: {"absent", "present", "gone"}, role: {"admin", "user"}, quota: Quotas \cup {0}]

\* auth.Scope.
Scope == [kind: {"none", "global", "user", "instance"},
          user: Users \cup {NoUser}, inst: Instances \cup {NoInstance}]
NoScope     == [kind |-> "none", user |-> NoUser, inst |-> NoInstance]
GlobalScope == [NoScope EXCEPT !.kind = "global"]
UserScope(u)     == [NoScope EXCEPT !.kind = "user", !.user = u]
InstanceScope(i) == [NoScope EXCEPT !.kind = "instance", !.inst = i]

Step == {"idle", "ceiling", "quota", "owned", "owner", "insert", "hash", "undo",
         "store", "delete", "rotate", "revoke", "evict", "deleteUser"}

AccountsTypeOK ==
    /\ user \in [Users -> UserRow]
    /\ inst \in [Instances -> Row]
    /\ cache \in [Instances -> Key \cup {NoKey}]
    /\ up \in BOOLEAN
    /\ minted \in 0..MaxKeys
    /\ pc \in [Requests -> Step]
    /\ scope \in [Requests -> Scope]
    /\ target \in [Requests -> Instances \cup {NoInstance}]
    /\ owner \in [Requests -> Users \cup {NoUser}]
    /\ quota \in [Requests -> Quotas \cup {0}]
    /\ key \in [Requests -> Key \cup {NoKey}]
    /\ self \in SUBSET Instances
    /\ limit \in [Users -> Quotas \cup {0, Unlimited}]
    /\ torn \in SUBSET Instances
    /\ keyless \in SUBSET Instances
    /\ faults \in 0..MaxFaults

\* A first boot over an empty users table; legacy instances have no owner and
\* no key.
AccountsInit ==
    /\ user = [u \in Users |-> [st |-> "absent", role |-> "user", quota |-> 0]]
    /\ \E legacy \in {S \in SUBSET Instances : Cardinality(S) <= 1} :
          /\ inst = [i \in Instances |->
                        [st |-> IF i \in legacy THEN "present" ELSE "absent",
                         owner |-> NoUser, key |-> NoKey]]
          /\ keyless = legacy
    /\ cache = [i \in Instances |-> NoKey]
    /\ up = FALSE
    /\ minted = 0
    /\ pc = [r \in Requests |-> "idle"]
    /\ scope = [r \in Requests |-> NoScope]
    /\ target = [r \in Requests |-> NoInstance]
    /\ owner = [r \in Requests |-> NoUser]
    /\ quota = [r \in Requests |-> 0]
    /\ key = [r \in Requests |-> NoKey]
    /\ self = {}
    /\ limit = [u \in Users |-> 0]
    /\ torn = {}
    /\ faults = 0

-----------------------------------------------------------------------------
(* Helpers                                                                 *)

Present(i)  == inst[i].st = "present"
Exists(u)   == u \in Users /\ user[u].st = "present"
All         == {i \in Instances : Present(i)}
OwnedBy(u)  == {i \in All : inst[i].owner = u}

\* RequireRole(scope, "admin"): a token keeps the role it was minted with.
Admin(s) == s.kind = "global" \/ (s.kind = "user" /\ user[s.user].role = "admin")

\* authorizeInstance and, for instance keys, denyForeignInstanceKey.
Reaches(s, i) ==
    \/ Admin(s)
    \/ s.kind = "user" /\ inst[i].owner = s.user
    \/ s.kind = "instance" /\ s.inst = i

Goto(r, step) == pc' = [pc EXCEPT ![r] = step]

\* The request is answered; its locals are gone.
Answer(r) ==
    /\ Goto(r, "idle")
    /\ scope' = [scope EXCEPT ![r] = NoScope]
    /\ target' = [target EXCEPT ![r] = NoInstance]
    /\ owner' = [owner EXCEPT ![r] = NoUser]
    /\ quota' = [quota EXCEPT ![r] = 0]
    /\ key' = [key EXCEPT ![r] = NoKey]

\* The request goes on with its locals.  A local is reset to its initial value
\* where the request has read it for the last time.
Proceed(r, step) == Goto(r, step) /\ UNCHANGED <<scope, target, owner, quota, key>>

\* The statements on a row of instances.
RowInserted(i, u) == inst' = [inst EXCEPT ![i] = [st |-> "present", owner |-> u, key |-> NoKey]]
HashStored(i, k)  == inst' = [inst EXCEPT ![i].key = k]
HashCleared(i)    == inst' = [inst EXCEPT ![i].key = NoKey]

\* The row of i is deleted; what is remembered of it goes with it.
Gone(i) ==
    /\ inst' = [inst EXCEPT ![i] = [st |-> "gone", owner |-> NoUser, key |-> NoKey]]
    /\ self' = self \ {i}
    /\ keyless' = keyless \ {i}

\* Another request is creating i, or between its write of the hash of i and of
\* the cache.
Pending(r, i) ==
    \E q \in Requests \ {r} : target[q] = i /\ pc[q] \in {"hash", "undo", "store", "evict"}

-----------------------------------------------------------------------------
(* Authenticate                                                            *)

\* The credential of a request, resolved in order: session cookie, global
\* key, hash of an instance key.  A cookie is a signed token, which the server
\* keeps no record of: whoever was a user within its lifetime may hold one.
Credentials ==
    {GlobalScope} \cup {UserScope(u) : u \in {v \in Users : user[v].st # "absent"}}
                  \cup {InstanceScope(i) : i \in {j \in All : inst[j].key # NoKey}}

\* A request is served: its credential is resolved and the handler starts with
\* its scope.
Authenticate(r) == up /\ pc[r] = "idle"

-----------------------------------------------------------------------------
(* POST /instances                                                         *)

\* Owner resolution: an admin names a user or gets an admin as the owner, a
\* user owns what it creates.  Admins skip both quota checks.
Create(r, s) ==
    /\ Authenticate(r)
    /\ s.kind \in {"global", "user"}
    /\ scope' = [scope EXCEPT ![r] = s]
    /\ IF Admin(s)
       THEN \E u \in Users : owner' = [owner EXCEPT ![r] = u] /\ Goto(r, "owner")
       ELSE /\ owner' = [owner EXCEPT ![r] = s.user]
            /\ Goto(r, IF MaxInstances > 0 THEN "ceiling" ELSE "quota")
    /\ UNCHANGED <<rowVars, cache, up, minted, target, quota, key, historyVars, faults>>

\* Mutant: the ceiling is off by one.
Ceiling_OffByOne(r) ==
    /\ pc[r] = "ceiling"
    /\ IF Cardinality(All) > MaxInstances THEN Answer(r) ELSE Proceed(r, "quota")
    /\ UNCHANGED <<rowVars, cache, up, minted, historyVars, faults>>

\* CountAll.
Ceiling(r) ==
    /\ pc[r] = "ceiling"
    /\ IF Cardinality(All) >= MaxInstances THEN Answer(r) ELSE Proceed(r, "quota")
    /\ UNCHANGED <<rowVars, cache, up, minted, historyVars, faults>>

\* users.GetByID: a deleted user is left to Create, an unlimited one passes.
ReadQuota(r) ==
    /\ pc[r] = "quota"
    /\ IF Exists(owner[r]) /\ user[owner[r]].quota > 0
       THEN /\ quota' = [quota EXCEPT ![r] = user[owner[r]].quota]
            /\ Goto(r, "owned")
            /\ UNCHANGED <<scope, target, owner, key>>
       ELSE Proceed(r, "owner")
    /\ UNCHANGED <<rowVars, cache, up, minted, historyVars, faults>>

\* CountByOwner.
CountOwned(r) ==
    /\ pc[r] = "owned"
    /\ IF Cardinality(OwnedBy(owner[r])) >= quota[r] THEN Answer(r) ELSE Proceed(r, "owner")
    /\ UNCHANGED <<rowVars, cache, up, minted, historyVars, faults>>

\* Service.Create: the owner must exist.
CheckOwner(r) ==
    /\ pc[r] = "owner"
    /\ IF Exists(owner[r]) THEN Proceed(r, "insert") ELSE Answer(r)
    /\ UNCHANGED <<rowVars, cache, up, minted, historyVars, faults>>

\* INSERT INTO instances; the foreign key refuses an owner deleted meanwhile.
InsertRow(r) ==
    /\ pc[r] = "insert"
    /\ \/ /\ Exists(owner[r])
          /\ \E i \in Instances :
                /\ inst[i].st = "absent"
                /\ RowInserted(i, owner[r])
                /\ target' = [target EXCEPT ![r] = i]
                /\ self' = IF Admin(scope[r]) THEN self ELSE self \cup {i}
          /\ Goto(r, "hash")
          /\ scope' = [scope EXCEPT ![r] = NoScope]
          /\ owner' = [owner EXCEPT ![r] = NoUser]
          /\ quota' = [quota EXCEPT ![r] = 0]
          /\ UNCHANGED key
       \/ /\ ~Exists(owner[r])
          /\ Answer(r)
          /\ UNCHANGED <<inst, self>>
    /\ UNCHANGED <<user, cache, up, minted, limit, torn, keyless, faults>>

\* MintAPIKey and SetHash, of a creation or of a rotation.
SetHash(r) ==
    /\ pc[r] \in {"hash", "rotate"}
    /\ minted < MaxKeys
    /\ minted' = minted + 1
    /\ LET i == target[r] IN
       IF Present(i)
       THEN /\ HashStored(i, minted + 1)
            /\ key' = [key EXCEPT ![r] = minted + 1]
            /\ Goto(r, "store")
            /\ torn' = IF Pending(r, i) THEN torn \cup {i} ELSE torn
            /\ keyless' = keyless \ {i}
            /\ UNCHANGED <<scope, target, owner, quota>>
       ELSE /\ IF pc[r] = "hash" THEN Proceed(r, "undo") ELSE Answer(r)
            /\ UNCHANGED <<inst, torn, keyless>>
    /\ UNCHANGED <<user, cache, up, self, limit, faults>>

\* Mutant: the row of a failed creation is left behind.
SetHashFails_NoUndo(r) ==
    /\ pc[r] \in {"hash", "rotate"}
    /\ Fault
    /\ Answer(r)
    /\ UNCHANGED <<rowVars, cache, up, minted, historyVars>>

\* The mint or the statement fails; the statement may have taken effect.
SetHashFails(r) ==
    /\ pc[r] \in {"hash", "rotate"}
    /\ Fault
    /\ IF pc[r] = "hash" THEN Proceed(r, "undo") ELSE Answer(r)
    /\ \/ UNCHANGED <<inst, minted, torn>>
       \/ /\ Present(target[r])
          /\ minted < MaxKeys
          /\ minted' = minted + 1
          /\ HashStored(target[r], minted + 1)
          /\ torn' = torn \cup {target[r]}
    /\ UNCHANGED <<user, cache, up, self, limit, keyless>>

\* deleteCreated: the compensating DELETE, which may fail.
Undo(r) ==
    /\ pc[r] = "undo"
    /\ \/ Gone(target[r]) /\ UNCHANGED faults
       \/ Fault /\ keyless' = keyless \cup {target[r]} /\ UNCHANGED <<inst, self>>
    /\ Answer(r)
    /\ UNCHANGED <<user, cache, up, minted, limit, torn>>

\* webhook.Keys.Store.
StoreKey(r) ==
    /\ pc[r] = "store"
    /\ cache' = [cache EXCEPT ![target[r]] = key[r]]
    /\ Answer(r)
    /\ UNCHANGED <<rowVars, up, minted, historyVars, faults>>

-----------------------------------------------------------------------------
(* DELETE /instances/{id}, POST and DELETE /instances/{id}/apikey          *)

\* The target is loaded, then the scope is checked.
Load(r, s) ==
    /\ Authenticate(r)
    /\ \E i \in Instances, step \in {"delete", "rotate", "revoke"} :
          /\ Present(i)
          /\ IF step = "delete" THEN Reaches(s, i) ELSE Admin(s)
          /\ target' = [target EXCEPT ![r] = i]
          /\ Goto(r, step)
    /\ UNCHANGED <<rowVars, cache, up, minted, scope, owner, quota, key, historyVars, faults>>

\* repo.Delete; the row may be gone by now.
DeleteRow(r) ==
    /\ pc[r] = "delete"
    /\ LET i == target[r] IN
       IF Present(i)
       THEN /\ Gone(i)
            /\ torn' = IF Pending(r, i) THEN torn \cup {i} ELSE torn
            /\ Proceed(r, "evict")
       ELSE Answer(r) /\ UNCHANGED <<inst, self, torn, keyless>>
    /\ UNCHANGED <<user, cache, up, minted, limit, faults>>

\* ClearHash.
ClearHash(r) ==
    /\ pc[r] = "revoke"
    /\ LET i == target[r] IN
       IF Present(i)
       THEN /\ HashCleared(i)
            /\ torn' = IF Pending(r, i) THEN torn \cup {i} ELSE torn
            /\ keyless' = keyless \cup {i}
            /\ Proceed(r, "evict")
       ELSE Answer(r) /\ UNCHANGED <<inst, torn, keyless>>
    /\ UNCHANGED <<user, cache, up, minted, self, limit, faults>>

\* Either statement fails, with or without effect.
WriteFails(r) ==
    /\ pc[r] \in {"delete", "revoke"}
    /\ Fault
    /\ \/ UNCHANGED <<inst, self, torn, keyless>>
       \/ /\ Present(target[r])
          /\ torn' = torn \cup {target[r]}
          /\ \/ pc[r] = "delete" /\ Gone(target[r])
             \/ /\ pc[r] = "revoke"
                /\ HashCleared(target[r])
                /\ keyless' = keyless \cup {target[r]}
                /\ UNCHANGED self
    /\ Answer(r)
    /\ UNCHANGED <<user, cache, up, minted, limit>>

\* Mutant: the eviction is forgotten.
Evict_Forgotten(r) ==
    /\ pc[r] = "evict"
    /\ Answer(r)
    /\ UNCHANGED <<rowVars, cache, up, minted, historyVars, faults>>

\* webhook.Keys.Clear.
Evict(r) ==
    /\ pc[r] = "evict"
    /\ cache' = [cache EXCEPT ![target[r]] = NoKey]
    /\ Answer(r)
    /\ UNCHANGED <<rowVars, up, minted, historyVars, faults>>

\* A denial, an unknown target, a malformed body, or a read that fails: the
\* request is answered before it writes anything.
Refuse(r) ==
    /\ pc[r] \in {"ceiling", "quota", "owned", "owner", "insert", "delete", "rotate",
                  "revoke", "deleteUser"}
    /\ Answer(r)
    /\ UNCHANGED <<rowVars, cache, up, minted, historyVars, faults>>

-----------------------------------------------------------------------------
(* Users                                                                   *)

Recorded(u, q) ==
    limit' = [limit EXCEPT ![u] =
                 IF q = 0 \/ @ = Unlimited THEN Unlimited ELSE IF q > @ THEN q ELSE @]

\* POST /users, by an admin.
CreateUser(u, role, q) ==
    /\ up
    /\ user[u].st = "absent"
    /\ user' = [user EXCEPT ![u] = [st |-> "present", role |-> role, quota |-> q]]
    /\ Recorded(u, q)
    /\ UNCHANGED <<inst, cache, up, minted, requestVars, self, torn, keyless, faults>>

\* PATCH /users/{id}, by an admin.
UpdateQuota(u, q) ==
    /\ up
    /\ Exists(u)
    /\ user' = [user EXCEPT ![u].quota = q]
    /\ Recorded(u, q)
    /\ UNCHANGED <<inst, cache, up, minted, requestVars, self, torn, keyless, faults>>

\* DELETE /users/{id}: CountByOwner first.
CountBeforeDelete(r, s) ==
    /\ Authenticate(r)
    /\ Admin(s)
    /\ \E u \in Users :
          /\ OwnedBy(u) = {}
          /\ owner' = [owner EXCEPT ![r] = u]
    /\ Goto(r, "deleteUser")
    /\ UNCHANGED <<rowVars, cache, up, minted, scope, target, quota, key, historyVars, faults>>

\* Then the DELETE, which the foreign key refuses if an instance came between.
DeleteUser(r) ==
    /\ pc[r] = "deleteUser"
    /\ user' = IF Exists(owner[r]) /\ OwnedBy(owner[r]) = {}
               THEN [user EXCEPT ![owner[r]] = [@ EXCEPT !.st = "gone", !.quota = 0]]
               ELSE user
    /\ Answer(r)
    /\ UNCHANGED <<inst, cache, up, minted, historyVars, faults>>

-----------------------------------------------------------------------------
(* Boot and crash                                                          *)

NoUsers == \A u \in Users : user[u].st # "present"
Claimed(u) == [i \in Instances |->
                  IF Present(i) /\ inst[i].owner = NoUser THEN [inst[i] EXCEPT !.owner = u]
                  ELSE inst[i]]

\* seedAdmin, then serving.  With no users the admin is created and claims the
\* legacy instances; without WZAP_ADMIN_* nothing is seeded.
Boot ==
    /\ ~up
    /\ up' = TRUE
    /\ \/ UNCHANGED <<rowVars, limit>>
       \/ \E u \in Users, q \in Quotas :
             /\ NoUsers
             /\ user[u].st = "absent"
             /\ user' = [user EXCEPT ![u] = [st |-> "present", role |-> "admin", quota |-> q]]
             /\ inst' = Claimed(u)
             /\ Recorded(u, q)
    /\ UNCHANGED <<cache, minted, requestVars, self, torn, keyless, faults>>

\* BackfillOwner fails and the process exits: the admin is deleted again, or,
\* when that fails too, stays without the legacy instances.
SeedFails ==
    /\ ~up
    /\ NoUsers
    /\ Fault
    /\ \E u \in Users, q \in Quotas, kept \in BOOLEAN :
          /\ user[u].st = "absent"
          /\ user' = [user EXCEPT ![u] = [st |-> IF kept THEN "present" ELSE "gone",
                                          role |-> "admin", quota |-> q]]
          /\ Recorded(u, q)
    /\ UNCHANGED <<inst, cache, up, minted, requestVars, self, torn, keyless>>

\* The process dies: requests and the key cache are gone.
Crash ==
    /\ up
    /\ Fault
    /\ up' = FALSE
    /\ cache' = [i \in Instances |-> NoKey]
    /\ keyless' = keyless \cup {target[r] : r \in {q \in Requests : pc[q] \in {"hash", "undo"}}}
    /\ pc' = [r \in Requests |-> "idle"]
    /\ scope' = [r \in Requests |-> NoScope]
    /\ target' = [r \in Requests |-> NoInstance]
    /\ owner' = [r \in Requests |-> NoUser]
    /\ quota' = [r \in Requests |-> 0]
    /\ key' = [r \in Requests |-> NoKey]
    /\ UNCHANGED <<rowVars, minted, self, limit, torn>>

-----------------------------------------------------------------------------

AccountsNext ==
    \/ \E r \in Requests :
          \/ \E s \in Credentials : Create(r, s) \/ Load(r, s) \/ CountBeforeDelete(r, s)
          \/ Refuse(r)
          \/ Ceiling(r) \/ ReadQuota(r) \/ CountOwned(r) \/ CheckOwner(r) \/ InsertRow(r)
          \/ SetHash(r) \/ SetHashFails(r) \/ Undo(r) \/ StoreKey(r)
          \/ DeleteRow(r) \/ ClearHash(r) \/ WriteFails(r) \/ Evict(r)
          \/ DeleteUser(r)
    \/ \E u \in Users, q \in Quotas :
          \/ \E role \in {"admin", "user"} : CreateUser(u, role, q)
          \/ UpdateQuota(u, q)
    \/ Boot \/ SeedFails \/ Crash

AccountsSpec == AccountsInit /\ [][AccountsNext]_accountsVars

-----------------------------------------------------------------------------
(* Properties                                                              *)

SelfMade    == {i \in All : i \in self}
SelfMadeBy(u) == {i \in SelfMade : inst[i].owner = u}
Concurrent  == Cardinality(Requests) - 1

\* The checks and the insert are separate statements, so quotas may be
\* exceeded, but never by more than the requests that run at the same time
\* less one (httpapi/instances.go, the comment of handleCreateInstance, R19):
\* what a user created for itself stays within its greatest quota plus that,
\* and what all users did within the ceiling plus that.
QuotaOvershootBounded ==
    /\ \A u \in Users : limit[u] # Unlimited =>
          Cardinality(SelfMadeBy(u)) <= limit[u] + Concurrent
    /\ MaxInstances > 0 => Cardinality(SelfMade) <= MaxInstances + Concurrent

\* The key deliveries are signed with is the key the row accepts, unless two
\* writes of the key overlapped (rotate and rotate, rotate and revoke, rotate
\* and delete: the hash and the cache are written one after the other, with
\* no lock) or the answer of one was lost.
CachedKeyIsValid ==
    \A i \in Instances :
        \/ cache[i] = NoKey
        \/ Present(i) /\ cache[i] = inst[i].key
        \/ i \in torn
        \/ \E r \in Requests : target[r] = i /\ pc[r] \in {"store", "evict"}

\* An instance without a key was revoked (or is older than keys), or is being
\* created, or its creation was cut and could not be undone
\* (instance/service.go, the comment of Create).
KeylessHasCause ==
    \A i \in All : inst[i].key = NoKey =>
        \/ i \in keyless
        \/ \E r \in Requests : target[r] = i /\ pc[r] \in {"hash", "undo"}
=============================================================================
