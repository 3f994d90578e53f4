--------------------------- MODULE TenantLifecycle ---------------------------
(***************************************************************************)
(* The life of one tenant: it is created in two systems, its owner mints   *)
(* keys for agents, operators suspend it and bring it back, and requests   *)
(* authenticate with the keys.  Every operation is several calls, and      *)
(* those of others come between them.  The requests of one operator may    *)
(* overlap: a form is submitted twice, an answer is not waited for.        *)
(*                                                                         *)
(* A get or a query of DynamoDB may answer with what an item was before.   *)
(***************************************************************************)

CONSTANTS
    Creates,        \* requests to create the tenant that may overlap
    Operators,      \* requests to suspend or reactivate it that may overlap
    Keys,           \* agents that may be registered, each with its key
    Requests        \* requests of agents that may overlap

VARIABLES
    status,     \* the status attribute of the Tenants item
    before,     \* earlier statuses a get may still return
    user,       \* whose Cognito user the contact address is
    creating,   \* per creation, its next call
    key,        \* per agent, the status of its item; pending before the put
    unseen,     \* agents whose last change a query may not show yet
    suspending, \* per operator, its next call
    left,       \* per operator, the agents it has still to revoke
    req,        \* per agent request, its next call and its key
    word,       \* ghost: what was last decided about the tenant
    overtaken,  \* ghost: a creation was under way at the suspension
    early,      \* ghost: it was reactivated before it had a user
    condemned,  \* ghost: agents that the suspension has to revoke
    excused     \* ghost: agents a suspension could not see or failed to revoke

tenantVars == <<status, before, word, overtaken>>
keyVars == <<key, unseen, condemned, excused>>
vars == <<tenantVars, keyVars, user, creating, suspending, left, req, early>>

Statuses == {"none", "provisioning", "active", "suspended"}
NoRequest == [at |-> "idle", key |-> "none"]

\* What a get of the tenant, and a query of its agents, may answer.
Readable == {status} \union before

Seen(k) ==
    {key[k]} \union
        (IF k \notin unseen THEN {} ELSE IF key[k] = "revoked" THEN {"active"} ELSE {"none"})

Init ==
    /\ status = "none" /\ before = {}
    /\ user \in {"nobody", "other"}
    /\ creating = [c \in Creates |-> "idle"]
    /\ key = [k \in Keys |-> "none"] /\ unseen = {}
    /\ suspending = [o \in Operators |-> "idle"]
    /\ left = [o \in Operators |-> {}]
    /\ req = [r \in Requests |-> NoRequest]
    /\ word = "create" /\ overtaken = FALSE /\ early = FALSE
    /\ condemned = {} /\ excused = {}

SetStatus(s) == status' = s /\ before' = before \union {status}

-----------------------------------------------------------------------------
(* create_tenant.                                                          *)

\* Mutant: any tenant that is not active may be taken up again.
CreateUnlessActive(c) ==
    /\ creating[c] = "idle"
    /\ \/ status = "none" /\ SetStatus("provisioning") /\ UNCHANGED <<word, overtaken>>
       \/ status \notin {"none", "active"} /\ UNCHANGED tenantVars
    /\ creating' = [creating EXCEPT ![c] = "user"]
    /\ UNCHANGED <<keyVars, user, suspending, left, req, early>>

\* The conditional put makes the row, or the request takes up a row that it
\* reads as provisioning.
Create(c) ==
    /\ creating[c] = "idle"
    /\ \/ status = "none" /\ SetStatus("provisioning") /\ UNCHANGED <<word, overtaken>>
       \/ /\ status # "none" /\ "provisioning" \in Readable
          /\ overtaken' = (overtaken \/ status = "suspended")
          /\ UNCHANGED <<status, before, word>>
    /\ creating' = [creating EXCEPT ![c] = "user"]
    /\ UNCHANGED <<keyVars, user, suspending, left, req, early>>

Owned == IF user = "nobody" THEN "ours" ELSE user

\* Mutant: the row becomes active whatever Cognito said.
CreateUserFailsQuietly(c) ==
    /\ creating[c] = "user"
    /\ user' \in {user, Owned}
    /\ creating' = [creating EXCEPT ![c] = "activate"]
    /\ UNCHANGED <<tenantVars, keyVars, suspending, left, req, early>>

\* AdminCreateUser makes the user, or there is one with this address.
CreateUser(c) ==
    /\ creating[c] = "user"
    /\ user' = Owned
    /\ creating' = [creating EXCEPT ![c] = "activate"]
    /\ UNCHANGED <<tenantVars, keyVars, suspending, left, req, early>>

\* Cognito refuses, or does not answer, before or after it made the user.
CreateUserFails(c) ==
    /\ creating[c] = "user"
    /\ user' \in {user, Owned}
    /\ creating' = [creating EXCEPT ![c] = "idle"]
    /\ UNCHANGED <<tenantVars, keyVars, suspending, left, req, early>>

\* The update asks only that the tenant exists.
Activate(c) ==
    /\ creating[c] = "activate"
    /\ SetStatus("active")
    /\ creating' = [creating EXCEPT ![c] = "idle"]
    /\ UNCHANGED <<keyVars, user, suspending, left, req, word, overtaken, early>>

ActivateFails(c) ==
    /\ creating[c] = "activate"
    /\ creating' = [creating EXCEPT ![c] = "idle"]
    /\ UNCHANGED <<tenantVars, keyVars, user, suspending, left, req, early>>

-----------------------------------------------------------------------------
(* suspend_tenant and reactivate_tenant.                                   *)

Live == {k \in Keys : key[k] \in {"pending", "active"}}

Suspend(o) ==
    /\ suspending[o] = "idle" /\ status # "none"
    /\ SetStatus("suspended")
    /\ word' = "suspend"
    /\ overtaken' = \E c \in Creates : creating[c] # "idle"
    /\ condemned' = condemned \union Live /\ excused' = excused \ Live
    /\ suspending' = [suspending EXCEPT ![o] = "list"]
    /\ UNCHANGED <<key, unseen, user, creating, left, req, early>>

\* Mutant: only agents that have reported since are revoked.
ListReporting(o) ==
    /\ suspending[o] = "list"
    /\ left' = [left EXCEPT ![o] = {k \in Keys \ unseen : key[k] = "active" /\ \E r \in Requests : req[r].key = k}]
    /\ suspending' = [suspending EXCEPT ![o] = IF left'[o] = {} THEN "idle" ELSE "revoke"]
    /\ excused' = excused \union {k \in Live : key[k] = "pending" \/ k \in unseen}
    /\ UNCHANGED <<tenantVars, key, unseen, condemned, user, creating, req, early>>

\* revoke_all_for_tenant queries the agents: one whose registration has not
\* put its item yet, or whose item the query does not show, is not among them.
List(o) ==
    /\ suspending[o] = "list"
    /\ \E found \in SUBSET Keys :
         /\ \A k \in Keys : IF k \in found THEN "active" \in Seen(k) ELSE Seen(k) # {"active"}
         /\ left' = [left EXCEPT ![o] = found]
         /\ excused' = excused \union (Live \ found)
         /\ suspending' = [suspending EXCEPT ![o] = IF found = {} THEN "idle" ELSE "revoke"]
    /\ UNCHANGED <<tenantVars, key, unseen, condemned, user, creating, req, early>>

Revoke(o, k) ==
    /\ suspending[o] = "revoke" /\ k \in left[o]
    /\ key' = [key EXCEPT ![k] = "revoked"]
    /\ unseen' = unseen \union {k}
    /\ left' = [left EXCEPT ![o] = @ \ {k}]
    /\ suspending' = [suspending EXCEPT ![o] = IF left'[o] = {} THEN "idle" ELSE @]
    /\ UNCHANGED <<tenantVars, condemned, excused, user, creating, req, early>>

\* The query or an update raises: the tenant is suspended, the rest not done.
SuspendFails(o) ==
    /\ suspending[o] # "idle"
    /\ excused' = excused \union (IF suspending[o] = "list" THEN Live ELSE left[o])
    /\ left' = [left EXCEPT ![o] = {}]
    /\ suspending' = [suspending EXCEPT ![o] = "idle"]
    /\ UNCHANGED <<tenantVars, key, unseen, condemned, user, creating, req, early>>

Reactivate(o) ==
    /\ suspending[o] = "idle" /\ status # "none"
    /\ SetStatus("active")
    /\ word' = "reactivate"
    /\ early' = (early \/ user = "nobody")
    /\ UNCHANGED <<keyVars, user, creating, suspending, left, req, overtaken>>

-----------------------------------------------------------------------------
(* register_agent: the owner's token is enough, and the tenant is checked. *)

Register(k) ==
    /\ key[k] = "none" /\ user = "ours" /\ "active" \in Readable
    /\ key' = [key EXCEPT ![k] = "pending"]
    /\ IF status = "suspended"
         THEN condemned' = condemned \union {k} /\ excused' = excused \union {k}
         ELSE UNCHANGED <<condemned, excused>>
    /\ UNCHANGED <<tenantVars, unseen, user, creating, suspending, left, req, early>>

Mint(k) ==
    /\ key[k] = "pending"
    /\ key' = [key EXCEPT ![k] = "active"]
    /\ unseen' = unseen \union {k}
    /\ UNCHANGED <<tenantVars, condemned, excused, user, creating, suspending, left, req, early>>

RegisterFails(k) ==
    /\ key[k] = "pending"
    /\ key' = [key EXCEPT ![k] = "none"]
    /\ condemned' = condemned \ {k} /\ excused' = excused \ {k}
    /\ UNCHANGED <<tenantVars, unseen, user, creating, suspending, left, req, early>>

-----------------------------------------------------------------------------
(* authenticated_agent, for whoever has a key.                             *)

\* Mutant: the agent's own status is all that is checked.
SkipTenant(r, k) ==
    /\ req[r].at = "idle" /\ key[k] \in {"active", "revoked"}
    /\ req' = [req EXCEPT ![r] = [at |-> "agents", key |-> k]]
    /\ UNCHANGED <<tenantVars, keyVars, user, creating, suspending, left, early>>

\* assert_tenant_active; refused, the request is over.
ReadTenant(r, k) ==
    /\ req[r].at = "idle" /\ key[k] \in {"active", "revoked"}
    /\ "active" \in Readable
    /\ req' = [req EXCEPT ![r] = [at |-> "agents", key |-> k]]
    /\ UNCHANGED <<tenantVars, keyVars, user, creating, suspending, left, early>>

FindAgent(r) ==
    /\ req[r].at = "agents"
    /\ \E s \in Seen(req[r].key) :
         req' = [req EXCEPT ![r] = IF s = "active" THEN [@ EXCEPT !.at = "served"] ELSE NoRequest]
    /\ UNCHANGED <<tenantVars, keyVars, user, creating, suspending, left, early>>

Finish(r) ==
    /\ req[r].at = "served"
    /\ req' = [req EXCEPT ![r] = NoRequest]
    /\ UNCHANGED <<tenantVars, keyVars, user, creating, suspending, left, early>>

\* DynamoDB's replicas catch up.
Settle ==
    /\ before # {} \/ unseen # {}
    /\ before' = {} /\ unseen' = {}
    /\ UNCHANGED <<status, word, overtaken, key, condemned, excused, user, creating,
                   suspending, left, req, early>>

-----------------------------------------------------------------------------

Creation(c) ==
    Create(c) \/ CreateUser(c) \/ CreateUserFails(c) \/ Activate(c) \/ ActivateFails(c)

Operation(o) ==
    \/ Suspend(o) \/ List(o) \/ SuspendFails(o) \/ Reactivate(o)
    \/ \E k \in Keys : Revoke(o, k)

Registration(k) == Register(k) \/ Mint(k) \/ RegisterFails(k)

Request(r) == FindAgent(r) \/ Finish(r) \/ \E k \in Keys : ReadTenant(r, k)

Next ==
    \/ \E c \in Creates : Creation(c)
    \/ \E o \in Operators : Operation(o)
    \/ \E k \in Keys : Registration(k)
    \/ \E r \in Requests : Request(r)
    \/ Settle

Spec == Init /\ [][Next]_vars

\* A request the backend has let in ends, and a write is seen in the end.
\* Nothing is assumed of operators, owners and agents.
FairSpec ==
    /\ Spec
    /\ WF_vars(Settle)
    /\ \A r \in Requests : WF_vars(FindAgent(r)) /\ WF_vars(Finish(r))

-----------------------------------------------------------------------------
(* Properties.                                                             *)

\* The types, and what the calls of an operation have in hand: nobody works
\* on a tenant that is not there, an agent belongs to an owner, and a
\* suspension has agents left exactly while it revokes.
TypeOK ==
    /\ status \in Statuses /\ before \subseteq Statuses
    /\ user \in {"nobody", "ours", "other"}
    /\ creating \in [Creates -> {"idle", "user", "activate"}]
    /\ key \in [Keys -> {"none", "pending", "active", "revoked"}]
    /\ suspending \in [Operators -> {"idle", "list", "revoke"}]
    /\ left \in [Operators -> SUBSET Keys]
    /\ req \in [Requests -> [at : {"idle", "agents", "served"}, key : Keys \union {"none"}]]
    /\ word \in {"create", "suspend", "reactivate"} /\ overtaken \in BOOLEAN /\ early \in BOOLEAN
    /\ condemned \subseteq Keys /\ excused \subseteq Keys
    /\ \A k \in unseen : key[k] \in {"active", "revoked"}
    /\ \A o \in Operators : left[o] # {} <=> suspending[o] = "revoke"
    /\ \A k \in Keys : key[k] # "none" => user = "ours"
    /\ status = "none" =>
         (\A c \in Creates : creating[c] = "idle") /\ (\A o \in Operators : suspending[o] = "idle")

\* What reactivate_tenant tells the operator: keys from before a suspension
\* stay dead.  Exceptions are a registration that was under way when the
\* suspension listed the agents, one the reads had not caught up with, and a
\* suspension that broke off.
OldKeysEnd ==
    \A k \in condemned \ excused :
        \/ key[k] \in {"none", "revoked"}
        \/ \E o \in Operators : suspending[o] = "list" \/ k \in left[o]

\* A suspension stands until an operator takes it back: only a creation that
\* had begun before, or read the row as it was before, makes it void.
SuspensionStands == word = "suspend" /\ status # "suspended" => overtaken

\* A tenant is served only when somebody can sign in for it: its first user
\* was made, unless the address had one already, or an operator reactivated
\* the row of a creation that had not finished.
ServedHasUser == status = "active" /\ user = "nobody" => early

\* A suspension that stands cuts the tenant off, with every key that escaped
\* it: in the end no request of its agents is served.
SuspendedGoesQuiet ==
    <>[](status = "suspended") => <>[](\A r \in Requests : req[r].at # "served")

=============================================================================
