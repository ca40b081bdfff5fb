--------------------------- MODULE ProviderTokens ---------------------------
(***************************************************************************)
(* The tokens of a cloud provider: the row of secrets, the instances that  *)
(* calls build from it, and the refreshing of tokens that ran out.         *)
(*                                                                         *)
(* 115open builds an instance for every call.  baiduopen and 123pan keep   *)
(* one in a map until it is invalidated or the client changes.  Calls that *)
(* share an instance share its token state.  A token is named by the grant *)
(* of the service it came with; 0 is no token.  The service answers one    *)
(* refresh for each refresh token; 123pan asks with the client's secret    *)
(* instead.                                                                *)
(***************************************************************************)
EXTENDS Integers, Sequences

CONSTANTS
  Kind,         \* the types of provider considered
  Call,         \* requests and scans that use the provider
  NoCall,
  Client,       \* applications, known by client id and secret
  MaxLoads,     \* bound on calls
  MaxGrants,    \* bound on tokens the service issues
  MaxChanges,   \* bound on changes of the client and edits of the provider
  MaxTroubles   \* bound on lost answers, failed writes, early refusals, restarts

ASSUME TokenAssumption ==
  /\ Kind \subseteq {"115open", "baiduopen", "123pan"} /\ NoCall \notin Call
  /\ Client # {} /\ {MaxLoads, MaxGrants, MaxChanges, MaxTroubles} \subseteq Nat
  /\ MaxGrants # 0

VARIABLES
  kind,
  stored,    \* provider_secrets: the client and its tokens
  instances, \* token states of the instances built: their client, tokens, mutex
  cached,    \* the instance in the map, 0 for none
  call,      \* what each call does
  authMu,    \* the call that holds baiduAuthMu or pan123AuthMu
  admin,     \* an authorization or an import under way
  notice,    \* a request has changed the secrets and has yet to tell the map
  owner,     \* the service: the client of each grant
  lapsed,    \* grants whose access token has expired, as its date tells
  revoked,   \* grants whose access token is refused before that
  spent,     \* grants whose refresh token was used
  answered,  \* history: the answers to refreshes that arrived
  troubled,  \* history: a new token was lost on its way to the database
  overtaken, \* history: the cached instance was built from secrets that had
             \* changed, or another instance has written new ones
  loads, changes, troubles

service == <<owner, lapsed, revoked, spent>>
history == <<answered, troubled, overtaken>>
bounds == <<loads, changes, troubles>>
vars == <<kind, stored, instances, cached, call, authMu, admin, notice, service, history, bounds>>

Grant == 1..MaxGrants
Token == 0..MaxGrants
SecretsType == [client : Client, access : Token, refresh : Token]
Idle == [pc |-> "idle", read |-> {}, inst |-> 0, access |-> 0, refresh |-> 0,
         force |-> FALSE, retried |-> FALSE]

Resting == \A c \in Call : call[c].pc = "idle"
AtRest == Resting /\ admin.pc = "idle" /\ ~notice

Instance == [secrets : SecretsType, mu : Call \cup {NoCall}]
Holding == {"refreshing", "persisting", "writing"}
CallType == [pc : {"idle", "building", "ensuring", "requesting", "locking", "attaching"}
                    \cup Holding,
             read : SUBSET SecretsType, inst : 0..Len(instances), access : Token,
             refresh : Token, force : BOOLEAN, retried : BOOLEAN]

AdminType == [pc : {"idle", "granted", "renewed"}, grant : Token, client : Client]

\* Every variable keeps to its type, a call that is past building has an
\* instance, and a mutex is held by who refreshes.
TypeOK ==
  /\ kind \in Kind /\ stored \in SecretsType
  /\ instances \in Seq(Instance)
  /\ cached \in 0..Len(instances)
  /\ call \in [Call -> CallType]
  /\ \A c \in Call : call[c].inst = 0 => call[c].pc \in {"idle", "building"}
  /\ \A i \in 1..Len(instances) : instances[i].mu # NoCall =>
       call[instances[i].mu].inst = i /\ call[instances[i].mu].pc \in Holding
  /\ authMu \in Call \cup {NoCall} /\ (authMu # NoCall => call[authMu].pc = "writing")
  /\ admin \in AdminType /\ notice \in BOOLEAN
  /\ owner \in Seq(Client) /\ Len(owner) <= MaxGrants
  /\ lapsed \cup revoked \cup spent \subseteq 1..Len(owner)

-----------------------------------------------------------------------------
(* Helpers *)

\* The expiry that is stored with an access token is a minute early.
Usable(token) == token # 0 /\ token \notin lapsed
Accepted(token) == Usable(token) /\ token \notin revoked

Secrets(c) == instances[call[c].inst].secrets
Free(c) == instances[call[c].inst].mu = NoCall

Becomes(c, pc) == call' = [call EXCEPT ![c].pc = pc]
Ends(c) == call' = [call EXCEPT ![c] = Idle]

KeepLocked(c) == UNCHANGED instances
Unlock(c) == instances' = [instances EXCEPT ![call[c].inst].mu = NoCall]

Trouble == troubles < MaxTroubles /\ troubles' = troubles + 1 /\ UNCHANGED <<loads, changes>>
Change == changes < MaxChanges /\ changes' = changes + 1 /\ UNCHANGED <<loads, troubles>>

\* The secrets that grant g to a client makes.
Granted(client, g) ==
  [client |-> client, access |-> g, refresh |-> IF kind = "123pan" THEN 0 ELSE g]

Init ==
  /\ kind \in Kind
  /\ \E k \in Client : owner = <<k>> /\ stored = Granted(k, 1)
  /\ instances = <<>> /\ cached = 0 /\ authMu = NoCall
  /\ call = [c \in Call |-> Idle]
  /\ admin = [pc |-> "idle", grant |-> 0, client |-> stored.client] /\ notice = FALSE
  /\ lapsed = {} /\ revoked = {} /\ spent = {}
  /\ answered = {} /\ troubled = FALSE /\ overtaken = FALSE
  /\ loads = 0 /\ changes = 0 /\ troubles = 0

-----------------------------------------------------------------------------
(* A call: its instance *)

LoadSecrets(c) ==
  /\ call[c].pc = "idle" /\ loads < MaxLoads /\ loads' = loads + 1
  /\ call' = [call EXCEPT ![c].pc = "building", ![c].read = {stored}]
  /\ UNCHANGED <<kind, stored, instances, cached, authMu, admin, notice, service, history,
                 changes, troubles>>

Reusable(secrets) ==
  kind # "115open" /\ cached # 0 /\ instances[cached].secrets.client = secrets.client

\* getOrCreate: the instance in the map, if it is the same client's, or a new
\* one with the tokens that were read.
BuildProvider(c, read) ==
  LET new == Len(instances) + 1 IN
  /\ call[c].pc = "building"
  /\ \/ /\ Reusable(read)
        /\ call' = [call EXCEPT ![c] = [Idle EXCEPT !.pc = "ensuring", !.inst = cached]]
        /\ UNCHANGED <<instances, cached, overtaken>>
     \/ /\ ~Reusable(read)
        /\ instances' = Append(instances, [secrets |-> read, mu |-> NoCall])
        /\ cached' = IF kind = "115open" THEN 0 ELSE new
        /\ call' = [call EXCEPT ![c] = [Idle EXCEPT !.pc = "ensuring", !.inst = new]]
        /\ overtaken' = (kind # "115open" /\ read # stored)
  /\ UNCHANGED <<kind, stored, authMu, admin, notice, service, answered, troubled, bounds>>

-----------------------------------------------------------------------------
(* A call: the request, and when its token must be refreshed *)

Refreshable(secrets) == kind = "123pan" \/ secrets.refresh # 0

\* The token is read, under the mutex that refreshes hold in baiduopen and 123pan.
EnsureAccessToken(c) ==
  LET token == Secrets(c).access IN
  /\ call[c].pc \in {"ensuring", "attaching"} /\ (kind # "115open" => Free(c))
  /\ \/ /\ Usable(token) \/ call[c].pc = "attaching"
        /\ call' = [call EXCEPT ![c].pc = "requesting", ![c].access = token]
     \/ /\ ~Usable(token) /\ call[c].pc = "ensuring" /\ Refreshable(Secrets(c))
        /\ call' = [call EXCEPT ![c].pc = "locking", ![c].access = token]
     \/ /\ ~Usable(token) /\ call[c].pc = "ensuring" /\ ~Refreshable(Secrets(c))
        /\ Ends(c)
  /\ UNCHANGED <<kind, stored, instances, cached, authMu, admin, notice, service, history, bounds>>

\* The request is answered, or fails; a token that is refused is refreshed once.
DoAPI(c) ==
  /\ call[c].pc = "requesting"
  /\ \/ Ends(c)
     \/ Becomes(c, "ensuring")
     \/ /\ ~Accepted(call[c].access) /\ ~call[c].retried /\ Refreshable(Secrets(c))
        /\ call' = [call EXCEPT ![c].pc = "locking", ![c].force = TRUE]
  /\ UNCHANGED <<kind, stored, instances, cached, authMu, admin, notice, service, history, bounds>>

\* Where a call goes on once there is a token it has not tried.
Resume(c) ==
  call' = [call EXCEPT ![c].pc = IF call[c].force THEN "ensuring" ELSE "attaching",
                       ![c].retried = @ \/ call[c].force,
                       ![c].force = FALSE, ![c].refresh = 0]

\* Someone else has refreshed the token while this call waited for the mutex.
Refreshed(c) ==
  /\ Usable(Secrets(c).access)
  /\ call[c].force => Secrets(c).access # call[c].access

LockAlways(c) == TRUE

LockRefresh(c) == Free(c)

BeginRefresh(c) ==
  /\ call[c].pc = "locking" /\ LockRefresh(c)
  /\ \/ Refreshed(c) /\ Resume(c) /\ UNCHANGED instances
     \/ /\ ~Refreshed(c)
        /\ call' = [call EXCEPT ![c].pc = "refreshing", ![c].refresh = Secrets(c).refresh]
        /\ instances' = [instances EXCEPT ![call[c].inst].mu = c]
  /\ UNCHANGED <<kind, stored, cached, authMu, admin, notice, service, history, bounds>>

\* The service takes the refresh token, or the secret, that the call presents.
Serves(c) ==
  /\ call[c].pc = "refreshing" /\ Len(owner) < MaxGrants
  /\ kind # "123pan" => /\ call[c].refresh \in 1..Len(owner) \ spent
                        /\ owner[call[c].refresh] = Secrets(c).client
  /\ owner' = Append(owner, Secrets(c).client)
  /\ spent' = IF kind = "123pan" THEN spent ELSE spent \cup {call[c].refresh}
  /\ UNCHANGED <<lapsed, revoked>>

\* The answer arrives and the new tokens are in use.
RefreshAnswered(c) ==
  /\ Serves(c)
  /\ instances' = [instances EXCEPT ![call[c].inst].secrets = Granted(@.client, Len(owner) + 1)]
  /\ Becomes(c, "persisting")
  /\ answered' = answered \cup {<<call[c].inst, call[c].refresh>>}
  /\ UNCHANGED <<kind, stored, cached, authMu, admin, notice, troubled, overtaken, bounds>>

\* The answer is lost; the same request may be sent again.
RefreshLost(c) ==
  /\ Serves(c) /\ Trouble /\ troubled' = TRUE
  /\ UNCHANGED <<kind, stored, instances, cached, call, authMu, admin, notice, answered, overtaken>>

\* The refresh is refused, or its last attempt fails: so does the call.
RefreshFails(c) ==
  /\ call[c].pc = "refreshing" /\ Ends(c) /\ Unlock(c)
  /\ UNCHANGED <<kind, stored, cached, authMu, admin, notice, service, history, bounds>>

-----------------------------------------------------------------------------
(* A call: the new tokens are written back *)

PersistUnchecked(c) == TRUE

\* baiduopen and 123pan compare the client in the database with their own.
PersistAllowed(c) == kind = "115open" \/ stored.client = Secrets(c).client

\* The authorization mutex is taken (115open has none) and the client compared.
PersistCheck(c) ==
  /\ call[c].pc = "persisting" /\ authMu = NoCall
  /\ \/ /\ PersistAllowed(c)
        /\ Becomes(c, "writing")
        /\ authMu' = IF kind = "115open" THEN NoCall ELSE c
        /\ UNCHANGED instances
     \/ /\ ~PersistAllowed(c)
        /\ Resume(c) /\ Unlock(c)
        /\ UNCHANGED authMu
  /\ UNCHANGED <<kind, stored, cached, admin, notice, service, history, bounds>>

WrittenAccess(c) == [stored EXCEPT !.access = Secrets(c).access]

\* The tokens of an instance as rows of the database.
Written(c) == [Secrets(c) EXCEPT !.client = stored.client]

\* All tokens are replaced in one transaction, which may fail.
ReplaceTokens(c) ==
  /\ call[c].pc = "writing"
  /\ \/ /\ stored' = Written(c)
        /\ UNCHANGED <<troubled, bounds>>
     \/ Trouble /\ troubled' = TRUE /\ UNCHANGED stored
  /\ Resume(c) /\ Unlock(c)
  /\ authMu' = IF authMu = c THEN NoCall ELSE authMu
  /\ overtaken' = (overtaken \/ cached \notin {0, call[c].inst})
  /\ UNCHANGED <<kind, cached, admin, notice, service, answered>>

-----------------------------------------------------------------------------
(* Requests that change tokens and clients *)

\* The service grants tokens to the client of a finished authorization (one in
\* a behaviour).
Authorize ==
  /\ kind # "123pan" /\ admin.pc = "idle" /\ admin.grant = 0 /\ Len(owner) < MaxGrants
  /\ owner' = Append(owner, stored.client)
  /\ admin' = [pc |-> "granted", grant |-> Len(owner) + 1, client |-> stored.client]
  /\ UNCHANGED <<kind, stored, instances, cached, call, authMu, notice, lapsed, revoked,
                 spent, history, bounds>>

\* An import without a refresh token takes the stored one and has it renewed,
\* which spends it (baiduopen); the answer may be lost.
ImportStored ==
  /\ kind = "baiduopen" /\ admin.pc = "idle" /\ admin.grant = 0 /\ Len(owner) < MaxGrants
  /\ stored.refresh \in 1..Len(owner) \ spent /\ owner[stored.refresh] = stored.client
  /\ owner' = Append(owner, stored.client) /\ spent' = spent \cup {stored.refresh}
  /\ \/ /\ admin' = [pc |-> "renewed", grant |-> Len(owner) + 1, client |-> stored.client]
        /\ UNCHANGED <<troubled, bounds>>
     \/ Trouble /\ troubled' = TRUE /\ UNCHANGED admin
  /\ UNCHANGED <<kind, stored, instances, cached, call, authMu, notice, lapsed, revoked,
                 answered, overtaken>>

\* They are stored if the client is still the same; the map is told afterwards.
StoreGrant ==
  /\ admin.pc # "idle" /\ authMu = NoCall /\ ~notice
  /\ admin' = [admin EXCEPT !.pc = "idle"]
  /\ notice' = (stored.client = admin.client)
  /\ stored' = IF notice' THEN Granted(admin.client, admin.grant) ELSE stored
  /\ UNCHANGED <<kind, instances, cached, call, authMu, service, history, bounds>>

\* The write fails; what an import had renewed is lost with it.
StoreFails ==
  /\ admin.pc # "idle" /\ authMu = NoCall /\ Trouble
  /\ admin' = [admin EXCEPT !.pc = "idle"]
  /\ troubled' = (troubled \/ admin.pc = "renewed")
  /\ UNCHANGED <<kind, stored, instances, cached, call, authMu, notice, service, answered,
                 overtaken>>

\* Another client's credentials are stored and the tokens deleted.  For 123pan
\* the map is told under the mutex, for baiduopen afterwards.
ChangeClient(k) ==
  /\ Change /\ kind # "115open" /\ authMu = NoCall /\ ~notice
  /\ k # stored.client /\ stored' = [client |-> k, access |-> 0, refresh |-> 0]
  /\ IF kind = "123pan" THEN cached' = 0 /\ overtaken' = FALSE /\ UNCHANGED notice
     ELSE notice' = TRUE /\ UNCHANGED <<cached, overtaken>>
  /\ UNCHANGED <<kind, instances, call, authMu, admin, service, answered, troubled>>

InvalidateNothing == notice /\ UNCHANGED <<cached, overtaken>>

Invalidate == notice /\ cached' = 0 /\ overtaken' = FALSE

InvalidateStored ==
  /\ Invalidate /\ notice' = FALSE
  /\ UNCHANGED <<kind, stored, instances, call, authMu, admin, service, answered, troubled,
                 bounds>>

\* The provider's row is edited.
EditProvider ==
  /\ Change /\ cached # 0 /\ cached' = 0 /\ overtaken' = FALSE
  /\ UNCHANGED <<kind, stored, instances, call, authMu, admin, notice, service, answered, troubled>>

-----------------------------------------------------------------------------
(* The service, and the process *)

InUse(g) == g \in {stored.access} \cup {instances[i].secrets.access : i \in 1..Len(instances)}

Lapse(g) ==
  /\ InUse(g) /\ g \in 1..Len(owner) \ lapsed /\ lapsed' = lapsed \cup {g}
  /\ UNCHANGED <<kind, stored, instances, cached, call, authMu, admin, notice, owner, revoked,
                 spent, history, bounds>>

Revoke(g) ==
  /\ Trouble /\ InUse(g) /\ g \in 1..Len(owner) \ (lapsed \cup revoked)
  /\ revoked' = revoked \cup {g}
  /\ UNCHANGED <<kind, stored, instances, cached, call, authMu, admin, notice, owner, lapsed,
                 spent, history>>

\* The process ends and starts again; what was not written is lost.
Restart ==
  /\ Trouble
  /\ call' = [c \in Call |-> Idle] /\ cached' = 0 /\ authMu' = NoCall
  /\ instances' = [i \in 1..Len(instances) |-> [instances[i] EXCEPT !.mu = NoCall]]
  /\ admin' = [admin EXCEPT !.pc = "idle"] /\ notice' = FALSE
  /\ troubled' = \/ troubled \/ admin.pc = "renewed"
                  \/ \E c \in Call : call[c].pc \in {"persisting", "writing"}
  /\ overtaken' = FALSE
  /\ UNCHANGED <<kind, stored, service, answered>>

-----------------------------------------------------------------------------
CallStep(c) ==
  \/ LoadSecrets(c) \/ (\E read \in call[c].read : BuildProvider(c, read)) \/ EnsureAccessToken(c) \/ DoAPI(c)
  \/ BeginRefresh(c) \/ RefreshAnswered(c) \/ RefreshLost(c) \/ RefreshFails(c)
  \/ PersistCheck(c) \/ ReplaceTokens(c)

Next ==
  \/ \E c \in Call : CallStep(c)
  \/ Authorize \/ ImportStored \/ StoreGrant \/ StoreFails \/ InvalidateStored \/ EditProvider
  \/ \E k \in Client : ChangeClient(k)
  \/ \E g \in Grant : Lapse(g) \/ Revoke(g)
  \/ Restart

Spec == Init /\ [][Next]_vars

-----------------------------------------------------------------------------
\* Calls that share an instance refresh its token once: none of them presents
\* a refresh token after the answer to it (or, for 123pan, asks for a token
\* that another has just got) (open115.go:739-751, baiduopen.go:644-656).
RefreshedOnce ==
  \A c \in Call :
    call[c].pc = "refreshing" /\ kind # "123pan" =>
      <<call[c].inst, call[c].refresh>> \notin answered

\* No refresh token is presented after the answer to it, by any instance.
SpentOnce ==
  \A c \in Call, i \in 1..Len(instances) :
    call[c].pc = "refreshing" => <<i, call[c].refresh>> \notin answered

\* When nothing is under way, the refresh token in the database still works,
\* whatever calls, imports and changes of the client have overlapped; unless
\* an answer, a write or a process was lost (app.go:3486, :3531).
StoredUsable ==
  AtRest /\ ~troubled => stored.refresh \notin spent

\* Tokens in the database belong to the client in the database, although a
\* refresh may end after the client was changed (app.go:3548-3551,
\* baiduopen_auth.go).
OwnTokens ==
  kind # "115open" /\ stored.access # 0 => owner[stored.access] = stored.client

\* When nothing is under way, the instance that later calls will use has the
\* secrets of the database; unless it was built from a reading that had been
\* overtaken, another instance has refreshed since, or a write was lost
\* (app.go:3406, baiduopen_provider.go:10).
CachedAgrees ==
  AtRest /\ cached # 0 /\ ~troubled /\ ~overtaken => instances[cached].secrets = stored

=============================================================================
