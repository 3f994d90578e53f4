---------------------------- MODULE TenantProofs ----------------------------
(***************************************************************************)
(* Theorems about one tenant: its account and its keys (TenantLifecycle),  *)
(* for any number of creations, operators, agents and requests at once,    *)
(* and its model (Retrain), for any number of workers and containers.  The *)
(* two share no state.                                                     *)
(***************************************************************************)
EXTENDS TenantLifecycle, Retrain, TLAPS

\* An agent in the hands of a suspension, or condemned, has an item or is
\* about to: none is condemned before it is registered.
Known ==
    /\ \A k \in condemned : key[k] # "none"
    /\ \A o \in Operators : \A k \in left[o] : key[k] \in {"active", "revoked"}

\* A suspension has overtaken every creation that is still under way.
Overtakes ==
    /\ status = "none" => word = "create"
    /\ word = "suspend" /\ (\E c \in Creates : creating[c] # "idle") => overtaken

\* A creation comes to its last call only with a user.
HasUser == \A c \in Creates : creating[c] = "activate" => user # "nobody"

IInv == TypeOK /\ Known /\ Overtakes /\ HasUser /\ OldKeysEnd /\ SuspensionStands /\ ServedHasUser

LEMMA InitInv == Init => IInv
<1> SUFFICES ASSUME Init PROVE IInv
  OBVIOUS
<1>1. TypeOK
  <2>1. req \in [Requests -> [at : {"idle", "agents", "served"}, key : Keys \union {"none"}]]
    BY DEF Init, NoRequest
  <2>2. \A o \in Operators : left[o] # {} <=> suspending[o] = "revoke"
    BY DEF Init
  <2>3. QED
    BY <2>1, <2>2 DEF Init, TypeOK, Statuses
<1>2. Known /\ Overtakes /\ HasUser /\ OldKeysEnd /\ SuspensionStands /\ ServedHasUser
  BY DEF Init, Known, Overtakes, HasUser, OldKeysEnd, SuspensionStands, ServedHasUser
<1>3. QED
  BY <1>1, <1>2 DEF IInv

-----------------------------------------------------------------------------
(* create_tenant.                                                          *)

\* A step of a creation, whatever it does to the tenant, leaves the agents be.
LEMMA CreationKeys ==
    ASSUME IInv, UNCHANGED <<keyVars, suspending, left>>
    PROVE  Known' /\ OldKeysEnd'
BY DEF IInv, Known, OldKeysEnd, keyVars

LEMMA CreateInv ==
    ASSUME IInv, NEW c \in Creates, Create(c)
    PROVE  IInv'
<1> USE DEF IInv
<1>1. /\ UNCHANGED <<keyVars, user, suspending, left, req, early, word>>
      /\ creating' = [creating EXCEPT ![c] = "user"]
      /\ \/ status = "none" /\ SetStatus("provisioning") /\ overtaken' = overtaken
         \/ /\ status # "none" /\ overtaken' = (overtaken \/ status = "suspended")
            /\ UNCHANGED <<status, before>>
  BY DEF Create, tenantVars
<1>2. TypeOK'
  BY <1>1 DEF TypeOK, SetStatus, Statuses, keyVars
<1>3. Overtakes' /\ SuspensionStands'
  BY <1>1 DEF TypeOK, Overtakes, SuspensionStands, SetStatus
<1>4. HasUser' /\ ServedHasUser'
  BY <1>1 DEF TypeOK, HasUser, ServedHasUser, SetStatus
<1>5. QED
  BY <1>1, <1>2, <1>3, <1>4, CreationKeys

LEMMA UserInv ==
    ASSUME IInv, NEW c \in Creates, CreateUser(c) \/ CreateUserFails(c) \/ ActivateFails(c)
    PROVE  IInv'
<1> USE DEF IInv
<1>1. /\ UNCHANGED <<tenantVars, keyVars, suspending, left, req, early>>
      /\ creating[c] # "idle"
      /\ \/ user' = Owned /\ creating' = [creating EXCEPT ![c] = "activate"]
         \/ user' \in {user, Owned} /\ creating' = [creating EXCEPT ![c] = "idle"]
  BY DEF CreateUser, CreateUserFails, ActivateFails
<1>2. /\ Owned \in {"ours", "other"} /\ user' \in {user, Owned}
      /\ user # "nobody" => user' = user
  BY <1>1 DEF TypeOK, Owned
<1>3. TypeOK'
  BY <1>1, <1>2 DEF TypeOK, keyVars, tenantVars
<1>4. Overtakes' /\ SuspensionStands'
  BY <1>1 DEF TypeOK, Overtakes, SuspensionStands, tenantVars
<1>5. HasUser' /\ ServedHasUser'
  BY <1>1, <1>2 DEF TypeOK, HasUser, ServedHasUser, tenantVars
<1>6. QED
  BY <1>1, <1>3, <1>4, <1>5, CreationKeys

LEMMA ActivateInv ==
    ASSUME IInv, NEW c \in Creates, Activate(c)
    PROVE  IInv'
<1> USE DEF IInv
<1>1. /\ UNCHANGED <<keyVars, user, suspending, left, req, word, overtaken, early>>
      /\ creating[c] = "activate" /\ creating' = [creating EXCEPT ![c] = "idle"]
      /\ status' = "active" /\ before' = before \union {status}
  BY DEF Activate, SetStatus
<1>2. TypeOK'
  BY <1>1 DEF TypeOK, Statuses, keyVars
<1>3. Overtakes' /\ SuspensionStands'
  BY <1>1 DEF TypeOK, Overtakes, SuspensionStands
<1>4. HasUser' /\ ServedHasUser'
  BY <1>1 DEF TypeOK, HasUser, ServedHasUser
<1>5. QED
  BY <1>1, <1>2, <1>3, <1>4, CreationKeys

-----------------------------------------------------------------------------
(* suspend_tenant and reactivate_tenant.                                   *)

LEMMA SuspendInv ==
    ASSUME IInv, NEW o \in Operators, Suspend(o)
    PROVE  IInv'
<1> USE DEF IInv
<1>1. /\ suspending[o] = "idle" /\ suspending' = [suspending EXCEPT ![o] = "list"]
      /\ status # "none" /\ status' = "suspended" /\ before' = before \union {status}
      /\ word' = "suspend" /\ overtaken' = \E c \in Creates : creating[c] # "idle"
      /\ condemned' = condemned \union Live /\ excused' = excused \ Live
      /\ UNCHANGED <<key, unseen, user, creating, left, req, early>>
  BY DEF Suspend, SetStatus
<1>2. overtaken' \in BOOLEAN
  BY <1>1
<1>3. TypeOK'
  BY <1>1, <1>2 DEF TypeOK, Statuses, Live
<1>4. Known' /\ HasUser' /\ ServedHasUser'
  BY <1>1 DEF Known, HasUser, ServedHasUser, Live
<1>5. Overtakes' /\ SuspensionStands'
  BY <1>1 DEF Overtakes, SuspensionStands
<1>6. OldKeysEnd'
  BY <1>1 DEF TypeOK, OldKeysEnd
<1>7. QED
  BY <1>3, <1>4, <1>5, <1>6

LEMMA ListInv ==
    ASSUME IInv, NEW o \in Operators, List(o)
    PROVE  IInv'
<1> USE DEF IInv
<1>1. PICK found \in SUBSET Keys :
        /\ \A k \in Keys : IF k \in found THEN "active" \in Seen(k) ELSE Seen(k) # {"active"}
        /\ left' = [left EXCEPT ![o] = found]
        /\ excused' = excused \union (Live \ found)
        /\ suspending' = [suspending EXCEPT ![o] = IF found = {} THEN "idle" ELSE "revoke"]
  BY DEF List
<1>2. suspending[o] = "list" /\ UNCHANGED <<tenantVars, key, unseen, condemned, user, creating, req, early>>
  BY DEF List
<1>3. \A k \in found : key[k] \in {"active", "revoked"}
  BY <1>1 DEF Seen, TypeOK
<1>4. TypeOK'
  <2>1. \A p \in Operators : left'[p] # {} <=> suspending'[p] = "revoke"
    BY <1>1 DEF TypeOK
  <2>2. status' # "none"
    BY <1>2 DEF TypeOK, tenantVars
  <2>3. excused' \subseteq Keys
    BY <1>1 DEF TypeOK, Live
  <2>4. QED
    BY <1>1, <1>2, <2>1, <2>2, <2>3 DEF TypeOK, tenantVars
<1>5. Known'
  BY <1>1, <1>2, <1>3 DEF Known, TypeOK
<1>6. OldKeysEnd'
  <2> SUFFICES ASSUME NEW k \in condemned', k \notin excused', key'[k] \notin {"none", "revoked"}
               PROVE  \E p \in Operators : suspending'[p] = "list" \/ k \in left'[p]
    BY DEF OldKeysEnd
  <2>1. k \in Keys /\ k \in Live
    BY <1>2 DEF TypeOK, Live
  <2>2. k \in found
    BY <1>1, <2>1
  <2>3. QED
    BY <1>1, <2>2 DEF TypeOK
<1>7. Overtakes' /\ SuspensionStands' /\ HasUser' /\ ServedHasUser'
  BY <1>2 DEF Overtakes, SuspensionStands, HasUser, ServedHasUser, tenantVars
<1>8. QED
  BY <1>4, <1>5, <1>6, <1>7

LEMMA RevokeInv ==
    ASSUME IInv, NEW o \in Operators, NEW k \in Keys, Revoke(o, k)
    PROVE  IInv'
<1> USE DEF IInv
<1>1. /\ suspending[o] = "revoke" /\ k \in left[o]
      /\ key' = [key EXCEPT ![k] = "revoked"] /\ unseen' = unseen \union {k}
      /\ left' = [left EXCEPT ![o] = @ \ {k}]
      /\ suspending' = [suspending EXCEPT ![o] = IF left'[o] = {} THEN "idle" ELSE @]
      /\ UNCHANGED <<tenantVars, condemned, excused, user, creating, req, early>>
  BY DEF Revoke
<1>2. key[k] # "none"
  BY <1>1 DEF Known
<1>3. TypeOK'
  BY <1>1, <1>2 DEF TypeOK, tenantVars
<1>4. Known'
  BY <1>1 DEF Known, TypeOK
<1>5. OldKeysEnd'
  <2> SUFFICES ASSUME NEW j \in condemned', j \notin excused', key'[j] \notin {"none", "revoked"}
               PROVE  \E p \in Operators : suspending'[p] = "list" \/ j \in left'[p]
    BY DEF OldKeysEnd
  <2>1. j # k /\ key'[j] = key[j]
    BY <1>1 DEF TypeOK
  <2>2. PICK p \in Operators : suspending[p] = "list" \/ j \in left[p]
    BY <1>1, <2>1 DEF OldKeysEnd
  <2>3. suspending'[p] = "list" \/ j \in left'[p]
    BY <1>1, <2>1, <2>2 DEF TypeOK
  <2>4. QED
    BY <2>3
<1>6. Overtakes' /\ SuspensionStands' /\ HasUser' /\ ServedHasUser'
  BY <1>1 DEF Overtakes, SuspensionStands, HasUser, ServedHasUser, tenantVars
<1>7. QED
  BY <1>3, <1>4, <1>5, <1>6

LEMMA SuspendFailsInv ==
    ASSUME IInv, NEW o \in Operators, SuspendFails(o)
    PROVE  IInv'
<1> USE DEF IInv
<1>1. /\ suspending[o] # "idle"
      /\ excused' = excused \union (IF suspending[o] = "list" THEN Live ELSE left[o])
      /\ left' = [left EXCEPT ![o] = {}]
      /\ suspending' = [suspending EXCEPT ![o] = "idle"]
      /\ UNCHANGED <<tenantVars, key, unseen, condemned, user, creating, req, early>>
  BY DEF SuspendFails
<1>2. TypeOK'
  BY <1>1 DEF TypeOK, tenantVars, Live
<1>3. Known'
  BY <1>1 DEF Known, TypeOK
<1>4. OldKeysEnd'
  <2> SUFFICES ASSUME NEW j \in condemned', j \notin excused', key'[j] \notin {"none", "revoked"}
               PROVE  \E p \in Operators : suspending'[p] = "list" \/ j \in left'[p]
    BY DEF OldKeysEnd
  <2>1. j \in Live
    BY <1>1 DEF TypeOK, Live
  <2>2. PICK p \in Operators : suspending[p] = "list" \/ j \in left[p]
    BY <1>1 DEF OldKeysEnd
  <2>3. p # o
    BY <1>1, <2>1, <2>2
  <2>4. QED
    BY <1>1, <2>2, <2>3 DEF TypeOK
<1>5. Overtakes' /\ SuspensionStands' /\ HasUser' /\ ServedHasUser'
  BY <1>1 DEF Overtakes, SuspensionStands, HasUser, ServedHasUser, tenantVars
<1>6. QED
  BY <1>2, <1>3, <1>4, <1>5

LEMMA ReactivateInv ==
    ASSUME IInv, NEW o \in Operators, Reactivate(o)
    PROVE  IInv'
<1> USE DEF IInv
<1>1. /\ status # "none" /\ status' = "active" /\ before' = before \union {status}
      /\ word' = "reactivate" /\ early' = (early \/ user = "nobody")
      /\ UNCHANGED <<keyVars, user, creating, suspending, left, req, overtaken>>
  BY DEF Reactivate, SetStatus
<1>2. TypeOK'
  BY <1>1 DEF TypeOK, Statuses, keyVars
<1>3. Known' /\ OldKeysEnd'
  BY <1>1, CreationKeys
<1>4. Overtakes' /\ SuspensionStands' /\ HasUser' /\ ServedHasUser'
  BY <1>1 DEF Overtakes, SuspensionStands, HasUser, ServedHasUser
<1>5. QED
  BY <1>2, <1>3, <1>4

-----------------------------------------------------------------------------
(* register_agent, the agents' requests and the replicas.                  *)

LEMMA RegistrationInv ==
    ASSUME IInv, NEW k \in Keys, Registration(k)
    PROVE  IInv'
<1> USE DEF IInv
<1>1. /\ UNCHANGED <<tenantVars, user, creating, suspending, left, req, early>>
      /\ \/ /\ key[k] = "none" /\ user = "ours" /\ key' = [key EXCEPT ![k] = "pending"]
            /\ \/ condemned' = condemned \union {k} /\ excused' = excused \union {k}
               \/ UNCHANGED <<condemned, excused>>
            /\ unseen' = unseen
         \/ /\ key[k] = "pending" /\ key' = [key EXCEPT ![k] = "active"]
            /\ unseen' = unseen \union {k} /\ UNCHANGED <<condemned, excused>>
         \/ /\ key[k] = "pending" /\ key' = [key EXCEPT ![k] = "none"]
            /\ condemned' = condemned \ {k} /\ excused' = excused \ {k} /\ unseen' = unseen
  BY DEF Registration, Register, Mint, RegisterFails
<1>2. TypeOK'
  <2>1. /\ key' \in [Keys -> {"none", "pending", "active", "revoked"}]
        /\ \A j \in unseen' : key'[j] \in {"active", "revoked"}
    <3>1. PICK to \in {"none", "pending", "active"} :
            key' = [key EXCEPT ![k] = to] /\ (unseen' = unseen \/ (to = "active" /\ unseen' = unseen \union {k}))
      BY <1>1
    <3>2. k \notin unseen /\ key \in [Keys -> {"none", "pending", "active", "revoked"}]
      BY <1>1 DEF TypeOK
    <3>3. \A j \in unseen : j # k /\ key[j] \in {"active", "revoked"}
      BY <3>2 DEF TypeOK
    <3>4. QED
      BY <3>1, <3>2, <3>3
  <2>2. user = "ours"
    BY <1>1 DEF TypeOK
  <2>3. condemned' \subseteq Keys /\ excused' \subseteq Keys
    BY <1>1 DEF TypeOK
  <2>4. QED
    BY <1>1, <2>1, <2>2, <2>3 DEF TypeOK, tenantVars
<1>3. \A o \in Operators : k \notin left[o] \/ key[k] \notin {"none", "pending"}
  BY DEF Known
<1>4. Known'
  BY <1>1, <1>3 DEF Known, TypeOK
<1>5. OldKeysEnd'
  <2> SUFFICES ASSUME NEW j \in condemned', j \notin excused', key'[j] \notin {"none", "revoked"}
               PROVE  \E p \in Operators : suspending[p] = "list" \/ j \in left[p]
    BY <1>1 DEF OldKeysEnd
  <2>1. j \in condemned \ excused /\ key[j] \notin {"none", "revoked"}
    BY <1>1 DEF Known, TypeOK
  <2>2. QED
    BY <2>1 DEF OldKeysEnd
<1>6. Overtakes' /\ SuspensionStands' /\ HasUser' /\ ServedHasUser'
  BY <1>1 DEF Overtakes, SuspensionStands, HasUser, ServedHasUser, tenantVars
<1>7. QED
  BY <1>2, <1>4, <1>5, <1>6

LEMMA RequestInv ==
    ASSUME IInv, NEW r \in Requests, Request(r)
    PROVE  IInv'
<1> USE DEF IInv
<1>1. UNCHANGED <<tenantVars, keyVars, user, creating, suspending, left, early>>
  BY DEF Request, ReadTenant, FindAgent, Finish
<1>2. req' \in [Requests -> [at : {"idle", "agents", "served"}, key : Keys \union {"none"}]]
  <2> DEFINE Kind == [at : {"idle", "agents", "served"}, key : Keys \union {"none"}]
  <2>1. PICK q \in Kind : req' = [req EXCEPT ![r] = q]
    <3>1. req[r] \in Kind /\ NoRequest \in Kind
      BY DEF TypeOK, NoRequest
    <3>2. [req[r] EXCEPT !.at = "served"] \in Kind
      BY <3>1
    <3>3. CASE FindAgent(r)
      BY <3>1, <3>2, <3>3 DEF FindAgent
    <3>4. CASE Finish(r)
      BY <3>1, <3>4 DEF Finish
    <3>5. ASSUME NEW k \in Keys, ReadTenant(r, k)
          PROVE  \E q \in Kind : req' = [req EXCEPT ![r] = q]
      <4>1. [at |-> "agents", key |-> k] \in Kind
        OBVIOUS
      <4>2. QED
        BY <3>5, <4>1 DEF ReadTenant
    <3>6. QED
      BY <3>3, <3>4, <3>5 DEF Request
  <2>2. QED
    BY <2>1 DEF TypeOK
<1>3. TypeOK'
  BY <1>1, <1>2 DEF TypeOK, tenantVars, keyVars
<1>4. Overtakes' /\ SuspensionStands' /\ HasUser' /\ ServedHasUser'
  BY <1>1 DEF Overtakes, SuspensionStands, HasUser, ServedHasUser, tenantVars
<1>5. QED
  BY <1>1, <1>3, <1>4, CreationKeys

LEMMA SettleInv ==
    ASSUME IInv, Settle
    PROVE  IInv'
BY DEF IInv, Settle, TypeOK, Known, Overtakes, HasUser, OldKeysEnd, SuspensionStands, ServedHasUser

LEMMA StepInv == IInv /\ [Next]_vars => IInv'
<1> SUFFICES ASSUME IInv, [Next]_vars PROVE IInv'
  OBVIOUS
<1>1. CASE UNCHANGED vars
  BY <1>1 DEF vars, tenantVars, keyVars, IInv, TypeOK, Known, Overtakes, HasUser, OldKeysEnd,
              SuspensionStands, ServedHasUser
<1>2. ASSUME NEW c \in Creates, Creation(c) PROVE IInv'
  BY <1>2, CreateInv, UserInv, ActivateInv DEF Creation
<1>3. ASSUME NEW o \in Operators, Operation(o) PROVE IInv'
  BY <1>3, SuspendInv, ListInv, RevokeInv, SuspendFailsInv, ReactivateInv DEF Operation
<1>4. QED
  BY <1>1, <1>2, <1>3, RegistrationInv, RequestInv, SettleInv DEF Next

LEMMA Invariance == Spec => []IInv
BY InitInv, StepInv, PTL DEF Spec

-----------------------------------------------------------------------------
(* The theorems.                                                           *)

\* Every status, key and call is of its kind, and each call of an operation
\* has what it needs in hand.
THEOREM TypeCorrect == Spec => []TypeOK
BY Invariance, PTL DEF IInv

\* What reactivate_tenant promises of keys from before a suspension, with the
\* exceptions OldKeysEnd names, however many operators and owners overlap.
THEOREM OldKeysStayDead == Spec => []OldKeysEnd
BY Invariance, PTL DEF IInv

\* A suspension is undone only by an operator or by a creation it overtook.
THEOREM SuspensionsStand == Spec => []SuspensionStands
BY Invariance, PTL DEF IInv

\* No tenant is active without a user unless an operator made it so early.
THEOREM ServedHaveUser == Spec => []ServedHasUser
BY Invariance, PTL DEF IInv

-----------------------------------------------------------------------------
(* The model.                                                              *)

\* Every item a stage ever held, until it is forgotten, is one Put wrote.
Stored ==
    /\ stored \in [Stages -> Item \union {None}]
    /\ earlier \in [Stages -> SUBSET (Item \union {None})]
    /\ \A item \in Gettable("staging") : item.forest \in 0..trained

\* What a worker has in hand: its training once it has trained, and when it
\* is about to promote, a forest the gate approved.
InHand ==
    \A w \in Workers :
        /\ pc[w] \in {"readback", "validate", "promote"} => meta[w] # 0
        /\ pc[w] = "promote" => staged[w] \in approved

\* What serves was promoted, and what was promoted was approved.
Served ==
    /\ Gettable("production") \subseteq promoted \union {None}
    /\ \A c \in Containers : cache[c] \in promoted \union {None}
    /\ \A item \in promoted : item.forest \in approved

\* While nothing excuses a worker's training, the staging item is its own
\* until it has read it, and the forest it read is its own.
Own ==
    \A w \in Workers :
        \/ meta[w] \in exposed
        \/ /\ pc[w] = "readback" => stored["staging"].forest = meta[w]
           /\ pc[w] \in {"validate", "promote"} => staged[w] = meta[w]

\* Nothing promoted mixes two trainings without an excuse.
Unmixed == \A item \in promoted : item.forest = item.stats \/ item.stats \in exposed

RetrainInv == RetrainTypeOK /\ Stored /\ InHand /\ Served /\ Own /\ Unmixed

-----------------------------------------------------------------------------

LEMMA RetrainInitInv == RetrainInit => RetrainInv
BY RetrainAssumption
DEF RetrainInit, RetrainInv, RetrainTypeOK, Stored, InHand, Served, Own, Unmixed, Gettable, Stages, Item, None, Models

\* A step that writes no item, reads none and approves nothing: it only moves
\* a worker back to where it holds nothing, or to its training.
LEMMA MoveInv ==
    ASSUME RetrainInv, NEW w \in Workers, NEW call \in {"idle", "train"}, Goto(w, call),
           UNCHANGED <<stored, earlier, trained, meta, staged, cache, approved, promoted, exposed>>
    PROVE  RetrainInv'
BY DEF RetrainInv, RetrainTypeOK, Stored, InHand, Served, Own, Unmixed, Gettable, Goto

LEMMA TrainInv ==
    ASSUME RetrainInv, NEW w \in Workers, Train(w)
    PROVE  RetrainInv'
<1> USE DEF RetrainInv, Train, Goto
<1> DEFINE item == [forest |-> trained', stats |-> trained']
<1>1. trained' = trained + 1 /\ trained' \in 1..MaxTrained /\ item \in Item
  BY RetrainAssumption DEF RetrainTypeOK, Item, Models
<1>2. /\ Gettable("staging")' \subseteq Gettable("staging") \union {item}
      /\ Gettable("production")' = Gettable("production")
  BY DEF Put, Gettable, Stored, Stages
<1>3. RetrainTypeOK'
  <2>1. exposed' \subseteq 1..trained'
    <3>1. \A v \in Workers : pc[v] = "readback" => meta[v] \in 1..trained
      BY RetrainAssumption DEF RetrainTypeOK, InHand
    <3>2. 1..trained \subseteq 1..trained'
      BY <1>1, RetrainAssumption DEF RetrainTypeOK
    <3>3. QED
      BY <3>1, <3>2 DEF RetrainTypeOK
  <2>2. \A s \in Stages : Gettable(s)' \subseteq Item \union {None}
    BY <1>1, <1>2 DEF RetrainTypeOK, Stages
  <2>3. QED
    BY <1>1, <2>1, <2>2 DEF RetrainTypeOK
<1>4. Stored'
  BY <1>1, <1>2 DEF Stored, RetrainTypeOK, Put, Stages
<1>5. InHand' /\ Served'
  BY <1>1, <1>2 DEF InHand, Served, RetrainTypeOK
<1>6. Own'
  BY <1>1 DEF Own, Put, RetrainTypeOK, Stored, InHand, Stages
<1>7. Unmixed'
  BY DEF Unmixed
<1>8. QED
  BY <1>3, <1>4, <1>5, <1>6, <1>7

LEMMA ReadBackInv ==
    ASSUME RetrainInv, NEW w \in Workers, ReadBack(w)
    PROVE  RetrainInv'
<1> USE DEF RetrainInv, ReadBack, Goto
<1>1. PICK item \in Gettable("staging") :
         /\ staged' = [staged EXCEPT ![w] = item.forest]
         /\ exposed' = IF item = stored["staging"] THEN exposed ELSE exposed \union {meta[w]}
  OBVIOUS
<1>2. RetrainTypeOK'
  <2>1. item.forest \in 0..trained
    BY DEF Stored
  <2>2. exposed' \subseteq 1..trained
    <3>1. meta[w] \in 1..trained
      BY RetrainAssumption DEF RetrainTypeOK, InHand
    <3>2. QED
      BY <1>1, <3>1 DEF RetrainTypeOK
  <2>3. QED
    BY <1>1, <2>1, <2>2 DEF RetrainTypeOK, Gettable
<1>3. Stored'
  BY DEF Stored, Gettable
<1>4. InHand' /\ Served' /\ Unmixed'
  BY <1>1 DEF RetrainTypeOK, InHand, Served, Unmixed, Gettable
<1>5. Own'
  BY <1>1 DEF RetrainTypeOK, Own
<1>6. QED
  BY <1>2, <1>3, <1>4, <1>5

LEMMA ApproveInv ==
    ASSUME RetrainInv, NEW w \in Workers, Approve(w)
    PROVE  RetrainInv'
<1> USE DEF RetrainInv, Approve, Goto
<1>1. RetrainTypeOK'
  <2>1. staged[w] \in 1..trained
    BY DEF RetrainTypeOK
  <2>2. QED
    BY <2>1 DEF RetrainTypeOK, Gettable
<1>2. Stored'
  BY DEF Stored, Gettable
<1>3. InHand' /\ Served' /\ Own' /\ Unmixed'
  BY DEF RetrainTypeOK, InHand, Served, Own, Unmixed, Gettable
<1>4. QED
  BY <1>1, <1>2, <1>3

LEMMA PromoteInv ==
    ASSUME RetrainInv, NEW w \in Workers, Promote(w)
    PROVE  RetrainInv'
<1> USE DEF RetrainInv, Promote, Goto
<1> DEFINE item == [forest |-> staged[w], stats |-> meta[w]]
<1>1. item \in Item /\ item.forest \in approved
  BY RetrainAssumption DEF RetrainTypeOK, InHand, Item, Models
<1>2. /\ Gettable("staging")' = Gettable("staging")
      /\ Gettable("production")' \subseteq Gettable("production") \union {item}
      /\ stored'["staging"] = stored["staging"]
  BY DEF Put, Gettable, Stored, Stages
<1>3. RetrainTypeOK'
  BY <1>1, <1>2 DEF RetrainTypeOK, Stages
<1>4. Stored'
  BY <1>1, <1>2 DEF Stored, Put, Stages
<1>5. InHand' /\ Served'
  BY <1>1, <1>2 DEF InHand, Served, RetrainTypeOK
<1>6. Own'
  BY <1>2 DEF Own, RetrainTypeOK
<1>7. item.forest = item.stats \/ item.stats \in exposed
  BY DEF Own
<1>8. Unmixed'
  BY <1>7 DEF Unmixed
<1>9. QED
  BY <1>3, <1>4, <1>5, <1>6, <1>8

\* The containers and the replicas: nothing a worker has or wrote changes.
LEMMA LoadInv ==
    ASSUME RetrainInv, NEW c \in Containers, Load(c) \/ Recycle(c)
    PROVE  RetrainInv'
<1>1. cache' \in [Containers -> Item \union {None}] /\ \A d \in Containers : cache'[d] \in promoted \union {None}
  BY DEF RetrainInv, RetrainTypeOK, Served, Load, Recycle
<1>2. UNCHANGED <<stored, earlier, trained, pc, meta, staged, approved, promoted, exposed>>
  BY DEF Load, Recycle
<1>3. QED
  BY <1>1, <1>2 DEF RetrainInv, RetrainTypeOK, Stored, InHand, Served, Own, Unmixed, Gettable

LEMMA ForgetInv ==
    ASSUME RetrainInv, NEW s \in Stages, Forget(s)
    PROVE  RetrainInv'
<1>1. /\ \A t \in Stages : Gettable(t)' \subseteq Gettable(t)
      /\ earlier' \in [Stages -> SUBSET (Item \union {None})]
  BY DEF RetrainInv, Stored, Forget, Gettable
<1>2. QED
  BY <1>1 DEF RetrainInv, RetrainTypeOK, Stored, InHand, Served, Own, Unmixed, Forget, Stages

LEMMA RetrainNextInv ==
    ASSUME RetrainInv, [RetrainNext]_retrainVars
    PROVE  RetrainInv'
<1>1. ASSUME NEW w \in Workers, Worker(w) PROVE RetrainInv'
  <2>1. CASE Collect(w)
    BY <2>1, MoveInv DEF Collect
  <2>2. CASE Train(w)
    BY <2>2, TrainInv
  <2>3. CASE ReadBack(w)
    BY <2>3, ReadBackInv
  <2>4. CASE Approve(w)
    BY <2>4, ApproveInv
  <2>5. CASE Refuse(w)
    BY <2>5, MoveInv DEF Refuse
  <2>6. CASE Promote(w)
    BY <2>6, PromoteInv
  <2>7. CASE Abort(w)
    BY <2>7, MoveInv DEF Abort
  <2>8. QED
    BY <1>1, <2>1, <2>2, <2>3, <2>4, <2>5, <2>6, <2>7 DEF Worker
<1>2. ASSUME NEW c \in Containers, Load(c) \/ Recycle(c) PROVE RetrainInv'
  BY <1>2, LoadInv
<1>3. ASSUME NEW s \in Stages, Forget(s) PROVE RetrainInv'
  BY <1>3, ForgetInv
<1>4. CASE UNCHANGED retrainVars
  BY <1>4 DEF retrainVars, RetrainInv, RetrainTypeOK, Stored, InHand, Served, Own, Unmixed, Gettable
<1>5. QED
  BY <1>1, <1>2, <1>3, <1>4 DEF RetrainNext

\* The invariant holds of every reachable state, whatever workers, containers
\* and replicas do.
THEOREM RetrainInvariance == RetrainSpec => []RetrainInv
<1>1. RetrainInv /\ [RetrainNext]_retrainVars => RetrainInv'
  BY RetrainNextInv
<1>2. QED
  BY RetrainInitInv, <1>1, PTL DEF RetrainSpec

-----------------------------------------------------------------------------

\* Every reachable state is well typed, and no training is approved or held
\* before it happened.
THEOREM RetrainTypeCorrect == RetrainSpec => []RetrainTypeOK
<1>1. RetrainInv => RetrainTypeOK
  BY DEF RetrainInv
<1>2. QED
  BY RetrainInvariance, <1>1, PTL

\* However many workers retrain a tenant at once, no forest serves that
\* validate_model did not examine.
THEOREM ApprovedServes == RetrainSpec => []OnlyApprovedServes
<1>1. RetrainInv => OnlyApprovedServes
  BY DEF RetrainInv, Served, OnlyApprovedServes
<1>2. QED
  BY RetrainInvariance, <1>1, PTL

\* The forest and the statistics a container scores with were one item of
\* production together.
THEOREM LoadedTogether == RetrainSpec => []CachedTogether
<1>1. RetrainInv => CachedTogether
  BY DEF RetrainInv, Served, CachedTogether
<1>2. QED
  BY RetrainInvariance, <1>1, PTL

\* Another worker's training in the staging item, or a read answered from
\* before, are the only ways by which production mixes two trainings.
THEOREM MixedByRace == RetrainSpec => []MixedOnlyByRace
<1>1. RetrainInv => MixedOnlyByRace
  BY DEF RetrainInv, Served, Unmixed, MixedOnlyByRace, Gettable, None
<1>2. QED
  BY RetrainInvariance, <1>1, PTL

=============================================================================
