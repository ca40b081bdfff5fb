------------------------ MODULE ProviderTokensProofs ------------------------
(***************************************************************************)
(* Proofs about ProviderTokens, for every set of calls and clients, every  *)
(* kind of provider and every bound.                                       *)
(***************************************************************************)
EXTENDS ProviderTokens, TLAPS

-----------------------------------------------------------------------------
(* Type correctness *)

LEMMA GrantedTyped ==
  ASSUME NEW k \in Client, NEW g \in Token
  PROVE  Granted(k, g) \in SecretsType /\ Granted(k, g).access = g /\ Granted(k, g).client = k
BY TokenAssumption DEF Granted, SecretsType, Token

LEMMA IdleTyped ==
  ASSUME instances \in Seq(Instance)
  PROVE  Idle \in CallType /\ Idle.inst = 0 /\ Idle.pc = "idle"
<1>1. 0 \in Token /\ 0 \in 0..Len(instances)
  BY TokenAssumption DEF Token
<1> QED BY <1>1 DEF Idle, CallType

LEMMA InitTyped == Init => TypeOK
<1> SUFFICES ASSUME Init PROVE TypeOK
  OBVIOUS
<1>1. PICK k \in Client : owner = <<k>> /\ stored = Granted(k, 1)
  BY DEF Init
<1>2. 1 \in Token /\ 0 \in Token /\ 1 <= MaxGrants
  BY TokenAssumption DEF Token
<1>3. stored \in SecretsType /\ stored.client \in Client
  BY <1>1, <1>2, GrantedTyped
<1>4. Idle \in CallType /\ Idle.inst = 0 /\ Idle.pc = "idle"
  BY IdleTyped DEF Init
<1>5. /\ instances \in Seq(Instance) /\ Len(instances) = 0
      /\ call = [c \in Call |-> Idle] /\ authMu = NoCall
      /\ admin \in AdminType
  BY <1>2, <1>3 DEF Init, AdminType
<1>6. owner \in Seq(Client) /\ Len(owner) <= MaxGrants
  BY <1>1, <1>2
<1>7. call \in [Call -> CallType] /\ \A c \in Call : call[c].inst = 0 => call[c].pc = "idle"
  BY <1>4, <1>5
<1>8. /\ kind \in Kind /\ cached = 0 /\ notice = FALSE
      /\ lapsed = {} /\ revoked = {} /\ spent = {}
  BY DEF Init
<1>9. /\ cached \in 0..Len(instances) /\ \A i \in 1..Len(instances) : FALSE
      /\ lapsed \cup revoked \cup spent \subseteq 1..Len(owner)
  BY <1>5, <1>8
<1> HIDE DEF Init
<1> QED BY <1>3, <1>5, <1>6, <1>7, <1>8, <1>9 DEF TypeOK

\* The instance of a call that is past building.
LEMMA HasInstance ==
  ASSUME TypeOK, NEW c \in Call, call[c].pc \notin {"idle", "building"}
  PROVE  /\ call[c].inst \in 1..Len(instances) /\ instances[call[c].inst] \in Instance
         /\ Secrets(c) \in SecretsType
<1>1. call[c].inst \in 1..Len(instances)
  BY DEF TypeOK, CallType
<1>2. instances[call[c].inst] \in Instance
  BY <1>1 DEF TypeOK
<1> QED BY <1>1, <1>2 DEF Secrets, Instance

\* A change of one instance's mutex or secrets.
LEMMA InstanceChanged ==
  ASSUME TypeOK, NEW i \in 1..Len(instances), NEW r \in Instance,
         instances' = [instances EXCEPT ![i] = r]
  PROVE  /\ instances' \in Seq(Instance) /\ Len(instances') = Len(instances)
         /\ instances'[i] = r
         /\ \A j \in 1..Len(instances) : j # i => instances'[j] = instances[j]
BY DEF TypeOK

\* A call holds at most the mutex of its instance, and only while it refreshes.
LEMMA UnlockTyped ==
  ASSUME TypeOK, NEW c \in Call, call[c].pc \in Holding, Unlock(c)
  PROVE  /\ instances' \in Seq(Instance) /\ Len(instances') = Len(instances)
         /\ \A i \in 1..Len(instances) : /\ instances'[i].mu \in {instances[i].mu, NoCall}
                                         /\ instances'[i].mu # c
                                         /\ instances'[i].secrets = instances[i].secrets
<1>1. call[c].inst \in 1..Len(instances) /\ instances[call[c].inst] \in Instance
  BY HasInstance DEF Holding
<1> DEFINE r == [instances[call[c].inst] EXCEPT !.mu = NoCall]
<1>2. r \in Instance /\ r.mu = NoCall /\ r.secrets = instances[call[c].inst].secrets
  BY <1>1 DEF Instance
<1>3. instances' = [instances EXCEPT ![call[c].inst] = r]
  BY DEF Unlock
<1> HIDE DEF r
<1>4. /\ instances' \in Seq(Instance) /\ Len(instances') = Len(instances)
      /\ instances'[call[c].inst] = r
      /\ \A j \in 1..Len(instances) : j # call[c].inst => instances'[j] = instances[j]
  BY <1>1, <1>2, <1>3, InstanceChanged
<1>5. NoCall # c
  BY TokenAssumption
<1>6. \A i \in 1..Len(instances) : instances[i].mu = c => i = call[c].inst
  BY <1>5 DEF TypeOK
<1> QED BY <1>2, <1>4, <1>5, <1>6

\* A step of c that neither holds a mutex nor comes to hold one, and leaves the
\* instances alone.
LEMMA OutsideTyped ==
  ASSUME TypeOK, NEW c \in Call, call[c].pc \notin Holding, UNCHANGED instances,
         NEW r \in CallType, r.pc \notin Holding, call' = [call EXCEPT ![c] = r],
         r.inst = 0 => r.pc \in {"idle", "building"},
         UNCHANGED <<kind, stored, cached, authMu, admin, notice, owner, lapsed, revoked, spent>>
  PROVE  TypeOK'
<1>1. CallType' = CallType
  BY DEF CallType
<1>2. call' \in [Call -> CallType] /\ call'[c] = r /\ \A d \in Call : d # c => call'[d] = call[d]
  BY DEF TypeOK
<1>3. ASSUME NEW i \in 1..Len(instances), instances[i].mu # NoCall
      PROVE  instances[i].mu \in Call /\ instances[i].mu # c
  <2>1. instances[i] \in Instance
    BY DEF TypeOK
  <2>2. call[instances[i].mu].pc \in Holding
    BY <1>3 DEF TypeOK
  <2> QED BY <1>3, <2>1, <2>2 DEF Instance
<1>4. authMu # NoCall => authMu # c
  BY DEF TypeOK, Holding
<1> QED BY <1>1, <1>2, <1>3, <1>4 DEF TypeOK

LEMMA LoadTyped ==
  ASSUME TypeOK, NEW c \in Call, LoadSecrets(c)
  PROVE  TypeOK'
<1> DEFINE r == [call[c] EXCEPT !.pc = "building", !.read = {stored}]
<1>0. call[c] \in CallType /\ stored \in SecretsType
  BY DEF TypeOK
<1>1. r \in CallType /\ r.pc = "building"
  BY <1>0 DEF CallType
<1>2. call' = [call EXCEPT ![c] = r] /\ call[c].pc = "idle"
  BY DEF LoadSecrets, TypeOK
<1> HIDE DEF r
<1> QED BY <1>1, <1>2, OutsideTyped DEF LoadSecrets, service, Holding

LEMMA EnsureTyped ==
  ASSUME TypeOK, NEW c \in Call, EnsureAccessToken(c) \/ DoAPI(c)
  PROVE  TypeOK'
<1>1. call[c] \in CallType /\ call[c].pc \in {"ensuring", "attaching", "requesting"}
  BY DEF TypeOK, EnsureAccessToken, DoAPI
<1>2. Secrets(c).access \in Token /\ call[c].inst # 0
  BY <1>1, HasInstance DEF SecretsType, Token
<1>3. Idle \in CallType
  BY IdleTyped DEF TypeOK
<1>4. PICK r \in CallType : /\ r.pc \notin Holding /\ call' = [call EXCEPT ![c] = r]
                            /\ r.inst = 0 => r.pc = "idle"
  <2>1. CASE Ends(c)
    BY <1>3, <2>1 DEF Ends, Idle, Holding
  <2>2. CASE \E pc \in {"requesting", "locking", "ensuring"}, a \in Token, b \in BOOLEAN :
               call' = [call EXCEPT ![c] = [@ EXCEPT !.pc = pc, !.access = a, !.force = b]]
    <3>1. PICK pc \in {"requesting", "locking", "ensuring"}, a \in Token, b \in BOOLEAN :
                 call' = [call EXCEPT ![c] = [@ EXCEPT !.pc = pc, !.access = a, !.force = b]]
      BY <2>2
    <3> DEFINE r == [call[c] EXCEPT !.pc = pc, !.access = a, !.force = b]
    <3>2. r \in CallType /\ r.pc = pc /\ r.inst # 0
      BY <1>1, <1>2 DEF CallType
    <3>3. call' = [call EXCEPT ![c] = r]
      BY <3>1
    <3> HIDE DEF r
    <3> QED BY <3>2, <3>3 DEF Holding
  <2>3. /\ call[c] = [call[c] EXCEPT !.access = call[c].access, !.force = call[c].force]
        /\ call[c].access \in Token /\ call[c].force \in BOOLEAN
    BY <1>1 DEF CallType
  <2>4. CASE EnsureAccessToken(c) /\ ~Ends(c)
    <3>1. PICK pc \in {"requesting", "locking"} :
                 call' = [call EXCEPT ![c].pc = pc, ![c].access = Secrets(c).access]
      BY <2>4 DEF EnsureAccessToken
    <3>2. call' = [call EXCEPT ![c] = [@ EXCEPT !.pc = pc, !.access = Secrets(c).access,
                                               !.force = call[c].force]]
      BY <1>1, <3>1 DEF TypeOK, CallType
    <3> QED BY <1>2, <2>2, <2>3, <3>2
  <2>5. CASE DoAPI(c) /\ ~Ends(c)
    <3>1. \/ call' = [call EXCEPT ![c].pc = "ensuring"]
          \/ call' = [call EXCEPT ![c].pc = "locking", ![c].force = TRUE]
      BY <2>5 DEF DoAPI, Becomes
    <3> DEFINE To(pc, b) == [call[c] EXCEPT !.pc = pc, !.access = call[c].access, !.force = b]
    <3>2. /\ To("ensuring", call[c].force) = [call[c] EXCEPT !.pc = "ensuring"]
          /\ To("locking", TRUE) = [call[c] EXCEPT !.pc = "locking", !.force = TRUE]
      BY <1>1 DEF CallType
    <3>3. \/ call' = [call EXCEPT ![c] = To("ensuring", call[c].force)]
          \/ call' = [call EXCEPT ![c] = To("locking", TRUE)]
      BY <3>1, <3>2
    <3> QED BY <2>2, <2>3, <3>3
  <2> QED BY <2>1, <2>4, <2>5
<1> QED BY <1>1, <1>4, OutsideTyped DEF EnsureAccessToken, DoAPI, service, Holding

\* A step of c in general: it gives c the record r, and a mutex it leaves taken
\* is either that of c or was another's before.
LEMMA CallTyped ==
  ASSUME TypeOK, NEW c \in Call, NEW r \in CallType', call' = [call EXCEPT ![c] = r],
         r.inst = 0 => r.pc \in {"idle", "building"},
         instances' \in Seq(Instance), Len(instances) <= Len(instances'),
         \A i \in 1..Len(instances') :
           \/ instances'[i].mu = NoCall
           \/ instances'[i].mu = c /\ r.inst = i /\ r.pc \in Holding
           \/ i \in 1..Len(instances) /\ instances'[i].mu = instances[i].mu /\ instances[i].mu # c,
         authMu' \in {authMu, NoCall, c}, authMu' = c => r.pc = "writing",
         stored' \in SecretsType, cached' \in 0..Len(instances'),
         owner' \in Seq(Client), Len(owner') <= MaxGrants,
         lapsed' \cup revoked' \cup spent' \subseteq 1..Len(owner'),
         UNCHANGED <<kind, admin, notice>>
  PROVE  TypeOK'
<1>1. CallType \subseteq CallType'
  BY DEF CallType, TypeOK
<1>2. call' \in [Call -> CallType'] /\ call'[c] = r /\ \A d \in Call : d # c => call'[d] = call[d]
  BY <1>1 DEF TypeOK
<1>3. ASSUME NEW i \in 1..Len(instances'), instances'[i].mu # NoCall
      PROVE  call'[instances'[i].mu].inst = i /\ call'[instances'[i].mu].pc \in Holding
  <2>1. instances'[i].mu \in Call
    <3>1. instances'[i] \in Instance
      OBVIOUS
    <3> QED BY <1>3, <3>1 DEF Instance
  <2>2. CASE instances'[i].mu = c /\ r.inst = i /\ r.pc \in Holding
    BY <1>2, <2>2
  <2>3. CASE i \in 1..Len(instances) /\ instances'[i].mu = instances[i].mu /\ instances[i].mu # c
    BY <1>2, <1>3, <2>1, <2>3 DEF TypeOK
  <2> QED BY <1>3, <2>2, <2>3
<1>4. /\ \A d \in Call : call'[d].inst = 0 => call'[d].pc \in {"idle", "building"}
      /\ authMu' \in Call \cup {NoCall} /\ (authMu' # NoCall => call'[authMu'].pc = "writing")
  BY <1>2 DEF TypeOK
<1> QED BY <1>2, <1>3, <1>4 DEF TypeOK

\* Two instances are never held by one call, and what c does not hold is not its.
LEMMA HeldByHolder ==
  ASSUME TypeOK, NEW c \in Call, NEW i \in 1..Len(instances)
  PROVE  /\ instances[i] \in Instance
         /\ instances[i].mu = c => i = call[c].inst /\ call[c].pc \in Holding
BY TokenAssumption DEF TypeOK

LEMMA BuildTyped ==
  ASSUME TypeOK, NEW c \in Call, NEW read \in call[c].read, BuildProvider(c, read)
  PROVE  TypeOK'
<1> DEFINE new == Len(instances) + 1
           To(i) == [Idle EXCEPT !.pc = "ensuring", !.inst = i]
<1>1. call[c].read \subseteq SecretsType /\ read \in SecretsType
  BY DEF TypeOK, CallType
<1>2. /\ stored \in SecretsType /\ cached \in 0..Len(instances) /\ owner \in Seq(Client)
      /\ Len(owner) <= MaxGrants /\ lapsed \cup revoked \cup spent \subseteq 1..Len(owner)
      /\ instances \in Seq(Instance) /\ Len(instances) \in Nat
  BY DEF TypeOK
<1>3. 0 \in Token
  BY TokenAssumption DEF Token
<1>4. authMu # c /\ \A i \in 1..Len(instances) : instances[i].mu # c
  <2>1. call[c].pc = "building" /\ c # NoCall
    BY TokenAssumption DEF BuildProvider
  <2>2. authMu # NoCall => call[authMu].pc = "writing"
    BY DEF TypeOK
  <2> QED BY <2>1, <2>2, HeldByHolder DEF Holding
<1>5. UNCHANGED <<kind, stored, authMu, admin, notice, owner, lapsed, revoked, spent>>
  BY DEF BuildProvider, service
<1>6. CASE /\ Reusable(read) /\ call' = [call EXCEPT ![c] = To(cached)]
           /\ UNCHANGED <<instances, cached>>
  <2>1. /\ To(cached) \in CallType' /\ To(cached).inst = cached /\ cached # 0
        /\ To(cached).pc = "ensuring"
    BY <1>2, <1>3, <1>6 DEF Idle, CallType, Reusable
  <2> HIDE DEF To
  <2>2. /\ instances' \in Seq(Instance) /\ Len(instances) <= Len(instances')
        /\ \A i \in 1..Len(instances') :
             i \in 1..Len(instances) /\ instances'[i].mu = instances[i].mu /\ instances[i].mu # c
    BY <1>2, <1>4, <1>6
  <2>3. cached' \in 0..Len(instances')
    BY <1>2, <1>6
  <2> QED BY <1>2, <1>4, <1>5, <1>6, <2>1, <2>2, <2>3, CallTyped
<1>7. CASE /\ instances' = Append(instances, [secrets |-> read, mu |-> NoCall])
           /\ cached' \in {0, new} /\ call' = [call EXCEPT ![c] = To(new)]
  <2> DEFINE inst == [secrets |-> read, mu |-> NoCall]
  <2>1. inst \in Instance /\ inst.mu = NoCall
    BY <1>1 DEF Instance
  <2> HIDE DEF inst
  <2>2. /\ instances' \in Seq(Instance) /\ Len(instances') = new
        /\ \A i \in 1..Len(instances') : \/ i \in 1..Len(instances) /\ instances'[i] = instances[i]
                                         \/ instances'[i].mu = NoCall
    BY <1>2, <1>7, <2>1 DEF inst
  <2>3. To(new) \in CallType' /\ To(new).inst = new /\ new # 0 /\ To(new).pc = "ensuring"
    <3>1. new \in 0..Len(instances') /\ new # 0
      BY <1>2, <2>2
    <3> HIDE DEF new
    <3> QED BY <1>3, <3>1 DEF Idle, CallType
  <2>4. cached' \in 0..Len(instances') /\ Len(instances) <= Len(instances')
    BY <1>2, <1>7, <2>2
  <2> HIDE DEF To, new
  <2> QED BY <1>2, <1>4, <1>5, <1>7, <2>2, <2>3, <2>4, CallTyped
<1> QED BY <1>6, <1>7 DEF BuildProvider

\* What Resume makes of the record of c.
Resumed(c) == [call[c] EXCEPT !.pc = IF call[c].force THEN "ensuring" ELSE "attaching",
                              !.retried = @ \/ call[c].force, !.force = FALSE, !.refresh = 0]

LEMMA ResumedTyped ==
  ASSUME TypeOK, NEW c \in Call, call[c].pc \notin {"idle", "building"}, Resume(c)
  PROVE  /\ Resumed(c) \in CallType /\ Resumed(c).inst # 0 /\ Resumed(c).inst = call[c].inst
         /\ Resumed(c).pc \in {"ensuring", "attaching"}
         /\ call' = [call EXCEPT ![c] = Resumed(c)]
<1>1. call[c] \in CallType /\ call[c].inst # 0
  BY DEF TypeOK
<1>2. 0 \in Token
  BY TokenAssumption DEF Token
<1>3. /\ Resumed(c) \in CallType /\ Resumed(c).inst = call[c].inst
      /\ Resumed(c).pc \in {"ensuring", "attaching"}
  BY <1>1, <1>2 DEF Resumed, CallType
<1>4. call' = [call EXCEPT ![c] = Resumed(c)]
  BY <1>1 DEF Resume, Resumed, TypeOK, CallType
<1> QED BY <1>1, <1>3, <1>4

LEMMA BeginTyped ==
  ASSUME TypeOK, NEW c \in Call, BeginRefresh(c)
  PROVE  TypeOK'
<1>1. /\ call[c].pc = "locking" /\ call[c].inst \in 1..Len(instances)
      /\ instances[call[c].inst] \in Instance /\ Secrets(c) \in SecretsType
  BY HasInstance DEF BeginRefresh
<1>2. UNCHANGED <<kind, stored, cached, authMu, admin, notice, owner, lapsed, revoked, spent>>
  BY DEF BeginRefresh, service
<1>3. CASE Resume(c) /\ UNCHANGED instances
  BY <1>1, <1>2, <1>3, ResumedTyped, OutsideTyped DEF Holding
<1>4. CASE /\ call' = [call EXCEPT ![c].pc = "refreshing", ![c].refresh = Secrets(c).refresh]
           /\ instances' = [instances EXCEPT ![call[c].inst].mu = c]
  <2> DEFINE r == [call[c] EXCEPT !.pc = "refreshing", !.refresh = Secrets(c).refresh]
             inst == [instances[call[c].inst] EXCEPT !.mu = c]
  <2>1. call[c] \in CallType /\ Secrets(c).refresh \in Token
    BY <1>1 DEF TypeOK, SecretsType
  <2>2. r \in CallType /\ r.pc = "refreshing" /\ r.inst = call[c].inst
    BY <2>1 DEF CallType, Holding
  <2>3. call' = [call EXCEPT ![c] = r]
    BY <1>4, <2>1 DEF TypeOK, CallType
  <2>4. inst \in Instance /\ inst.mu = c
    BY <1>1 DEF Instance
  <2>5. instances' = [instances EXCEPT ![call[c].inst] = inst]
    BY <1>4
  <2> HIDE DEF r, inst
  <2>6. /\ instances' \in Seq(Instance) /\ Len(instances') = Len(instances)
        /\ instances'[call[c].inst].mu = c
        /\ \A j \in 1..Len(instances) : j # call[c].inst => instances'[j] = instances[j]
    BY <1>1, <2>4, <2>5, InstanceChanged
  <2>7. \A j \in 1..Len(instances) : instances[j].mu # c
    BY <1>1, HeldByHolder DEF Holding
  <2>8. r \in CallType' /\ Len(instances) <= Len(instances')
    BY <2>2, <2>6 DEF CallType, TypeOK
  <2>9. \A i \in 1..Len(instances') :
           \/ instances'[i].mu = NoCall
           \/ instances'[i].mu = c /\ r.inst = i /\ r.pc \in Holding
           \/ i \in 1..Len(instances) /\ instances'[i].mu = instances[i].mu /\ instances[i].mu # c
    BY <2>2, <2>6, <2>7 DEF Holding
  <2>11. authMu' # c
    BY <1>1, <1>2, TokenAssumption DEF TypeOK
  <2>10. /\ authMu' \in {authMu, NoCall, c} /\ stored' \in SecretsType
         /\ cached' \in 0..Len(instances') /\ owner' \in Seq(Client) /\ Len(owner') <= MaxGrants
         /\ lapsed' \cup revoked' \cup spent' \subseteq 1..Len(owner')
         /\ UNCHANGED <<kind, admin, notice>>
    BY <1>2, <2>6 DEF TypeOK
  <2>12. r.inst # 0
    BY <1>1, <2>2
  <2> QED BY <2>3, <2>6, <2>8, <2>9, <2>10, <2>11, <2>12, CallTyped
<1> QED BY <1>3, <1>4 DEF BeginRefresh

\* A refresh that is served issues a grant to the client of the instance.
LEMMA ServedTyped ==
  ASSUME TypeOK, NEW c \in Call, Serves(c)
  PROVE  /\ owner' \in Seq(Client) /\ Len(owner') = Len(owner) + 1 /\ Len(owner') <= MaxGrants
         /\ lapsed' \cup revoked' \cup spent' \subseteq 1..Len(owner')
         /\ Len(owner) + 1 \in Token /\ owner'[Len(owner')] = Secrets(c).client
         /\ \A g \in 1..Len(owner) : owner'[g] = owner[g]
<1>1. Secrets(c) \in SecretsType /\ Secrets(c).client \in Client
  BY HasInstance DEF Serves, SecretsType
<1>2. /\ owner \in Seq(Client) /\ Len(owner) < MaxGrants /\ MaxGrants \in Nat
      /\ owner' = Append(owner, Secrets(c).client)
  BY TokenAssumption DEF Serves, TypeOK
<1>3. /\ owner' \in Seq(Client) /\ Len(owner') = Len(owner) + 1 /\ Len(owner) \in Nat
      /\ owner'[Len(owner')] = Secrets(c).client /\ \A g \in 1..Len(owner) : owner'[g] = owner[g]
  BY <1>1, <1>2
<1>4. kind # "123pan" => call[c].refresh \in 0..MaxGrants
  BY DEF TypeOK, CallType, Token
<1>5. spent' \subseteq 1..Len(owner')
  <2>1. CASE kind = "123pan"
    BY <1>3, <2>1 DEF Serves, TypeOK
  <2>2. CASE kind # "123pan"
    BY <1>3, <2>2 DEF Serves, TypeOK
  <2> QED BY <2>1, <2>2
<1> QED BY <1>2, <1>3, <1>5 DEF TypeOK, Token, Serves

\* A call gives its mutex back and goes on, or ends.
LEMMA ReleaseTyped ==
  ASSUME TypeOK, NEW c \in Call, call[c].pc \in Holding, Unlock(c),
         NEW r \in CallType, r.inst = 0 => r.pc = "idle", call' = [call EXCEPT ![c] = r],
         authMu' \in {authMu, NoCall}, authMu' # c, stored' \in SecretsType,
         UNCHANGED <<kind, cached, admin, notice, owner, lapsed, revoked, spent>>
  PROVE  TypeOK'
<1>1. /\ instances' \in Seq(Instance) /\ Len(instances') = Len(instances)
      /\ \A i \in 1..Len(instances) : /\ instances'[i].mu \in {instances[i].mu, NoCall}
                                      /\ instances'[i].mu # c
  BY UnlockTyped
<1>2. r \in CallType' /\ Len(instances) <= Len(instances')
  BY <1>1 DEF CallType, TypeOK
<1>3. \A i \in 1..Len(instances') :
        \/ instances'[i].mu = NoCall
        \/ i \in 1..Len(instances) /\ instances'[i].mu = instances[i].mu /\ instances[i].mu # c
  BY <1>1
<1>4. /\ cached' \in 0..Len(instances') /\ owner' \in Seq(Client) /\ Len(owner') <= MaxGrants
      /\ lapsed' \cup revoked' \cup spent' \subseteq 1..Len(owner')
      /\ UNCHANGED <<kind, admin, notice>>
  BY <1>1 DEF TypeOK
<1> QED BY <1>1, <1>2, <1>3, <1>4, CallTyped

LEMMA AnsweredTyped ==
  ASSUME TypeOK, NEW c \in Call, RefreshAnswered(c)
  PROVE  TypeOK'
<1>1. /\ call[c].pc = "refreshing" /\ call[c].inst \in 1..Len(instances)
      /\ instances[call[c].inst] \in Instance /\ Secrets(c) \in SecretsType
  BY HasInstance DEF RefreshAnswered, Serves
<1>2. /\ owner' \in Seq(Client) /\ Len(owner') <= MaxGrants
      /\ lapsed' \cup revoked' \cup spent' \subseteq 1..Len(owner') /\ Len(owner) + 1 \in Token
  BY ServedTyped DEF RefreshAnswered
<1> DEFINE new == Granted(Secrets(c).client, Len(owner) + 1)
           inst == [instances[call[c].inst] EXCEPT !.secrets = new]
           r == [call[c] EXCEPT !.pc = "persisting"]
<1>3. new \in SecretsType
  BY <1>1, <1>2, GrantedTyped DEF SecretsType
<1>4. inst \in Instance /\ inst.mu = instances[call[c].inst].mu
  BY <1>1, <1>3 DEF Instance
<1>5. instances' = [instances EXCEPT ![call[c].inst] = inst]
  BY DEF RefreshAnswered, Secrets
<1>6. call[c] \in CallType
  BY DEF TypeOK
<1>7. r \in CallType /\ r.pc = "persisting" /\ r.inst = call[c].inst
  BY <1>6 DEF CallType, Holding
<1>8. call' = [call EXCEPT ![c] = r]
  BY DEF RefreshAnswered, Becomes
<1> HIDE DEF new, inst, r
<1>9. /\ instances' \in Seq(Instance) /\ Len(instances') = Len(instances)
      /\ \A i \in 1..Len(instances) : instances'[i].mu = instances[i].mu
  BY <1>1, <1>4, <1>5, InstanceChanged
<1>10. \A i \in 1..Len(instances') :
         \/ instances'[i].mu = c /\ r.inst = i /\ r.pc \in Holding
         \/ i \in 1..Len(instances) /\ instances'[i].mu = instances[i].mu /\ instances[i].mu # c
  BY <1>7, <1>9, HeldByHolder DEF Holding
<1>11. r \in CallType' /\ Len(instances) <= Len(instances') /\ r.inst # 0
  BY <1>1, <1>7, <1>9 DEF CallType, TypeOK
<1>12. authMu' = authMu /\ authMu # c /\ stored' \in SecretsType /\ cached' \in 0..Len(instances')
       /\ UNCHANGED <<kind, admin, notice>>
  BY <1>1, <1>9, TokenAssumption DEF TypeOK, RefreshAnswered
<1> QED BY <1>2, <1>8, <1>9, <1>10, <1>11, <1>12, CallTyped

LEMMA RefreshEndsTyped ==
  ASSUME TypeOK, NEW c \in Call, RefreshLost(c) \/ RefreshFails(c)
  PROVE  TypeOK'
<1>1. CASE RefreshLost(c)
  <2>1. CallType' = CallType
    BY <1>1 DEF RefreshLost, CallType
  <2>2. UNCHANGED <<kind, stored, instances, cached, call, authMu, admin, notice>>
    BY <1>1 DEF RefreshLost
  <2>3. /\ owner' \in Seq(Client) /\ Len(owner') <= MaxGrants
        /\ lapsed' \cup revoked' \cup spent' \subseteq 1..Len(owner')
    BY <1>1, ServedTyped DEF RefreshLost
  <2> QED BY <2>1, <2>2, <2>3 DEF TypeOK
<1>2. CASE RefreshFails(c)
  <2>1. Idle \in CallType /\ Idle.pc = "idle" /\ instances \in Seq(Instance)
    BY IdleTyped DEF TypeOK
  <2>2. /\ call[c].pc = "refreshing" /\ Unlock(c) /\ call' = [call EXCEPT ![c] = Idle]
        /\ UNCHANGED <<kind, stored, cached, authMu, admin, notice, owner, lapsed, revoked, spent>>
    BY <1>2 DEF RefreshFails, Ends, service
  <2>3. authMu # c /\ stored' \in SecretsType
    BY <2>2, TokenAssumption DEF TypeOK
  <2> QED BY <2>1, <2>2, <2>3, ReleaseTyped DEF Holding
<1> QED BY <1>1, <1>2

LEMMA PersistTyped ==
  ASSUME TypeOK, NEW c \in Call, PersistCheck(c)
  PROVE  TypeOK'
<1>1. /\ call[c].pc = "persisting" /\ authMu = NoCall
      /\ UNCHANGED <<kind, stored, cached, admin, notice, owner, lapsed, revoked, spent>>
  BY DEF PersistCheck, service
<1>2. CASE Becomes(c, "writing") /\ authMu' \in {NoCall, c} /\ UNCHANGED instances
  <2> DEFINE r == [call[c] EXCEPT !.pc = "writing"]
  <2>1. call[c] \in CallType /\ call[c].inst # 0
    BY <1>1 DEF TypeOK
  <2>2. r \in CallType /\ r.pc = "writing" /\ r.inst = call[c].inst
    BY <2>1 DEF CallType, Holding
  <2>3. call' = [call EXCEPT ![c] = r]
    BY <1>2 DEF Becomes
  <2> HIDE DEF r
  <2>4. \A i \in 1..Len(instances') :
          \/ instances'[i].mu = c /\ r.inst = i /\ r.pc \in Holding
          \/ i \in 1..Len(instances) /\ instances'[i].mu = instances[i].mu /\ instances[i].mu # c
    BY <1>2, <2>2, HeldByHolder DEF Holding
  <2>5. /\ r \in CallType' /\ instances' \in Seq(Instance) /\ Len(instances) <= Len(instances')
        /\ stored' \in SecretsType /\ cached' \in 0..Len(instances') /\ owner' \in Seq(Client)
        /\ Len(owner') <= MaxGrants /\ lapsed' \cup revoked' \cup spent' \subseteq 1..Len(owner')
        /\ UNCHANGED <<kind, admin, notice>>
    BY <1>1, <1>2, <2>2 DEF CallType, TypeOK
  <2> QED BY <1>2, <2>1, <2>2, <2>3, <2>4, <2>5, CallTyped
<1>3. CASE Resume(c) /\ Unlock(c) /\ UNCHANGED authMu
  <2>1. authMu' = NoCall /\ NoCall # c /\ stored' \in SecretsType
    BY <1>1, <1>3, TokenAssumption DEF TypeOK
  <2> QED BY <1>1, <1>3, <2>1, ResumedTyped, ReleaseTyped DEF Holding
<1> QED BY <1>1, <1>2, <1>3 DEF PersistCheck

LEMMA ReplaceTyped ==
  ASSUME TypeOK, NEW c \in Call, ReplaceTokens(c)
  PROVE  TypeOK'
<1>1. /\ call[c].pc = "writing" /\ Resume(c) /\ Unlock(c)
      /\ authMu' = (IF authMu = c THEN NoCall ELSE authMu)
      /\ UNCHANGED <<kind, cached, admin, notice, owner, lapsed, revoked, spent>>
  BY DEF ReplaceTokens, service
<1>2. Secrets(c) \in SecretsType /\ stored \in SecretsType
  BY <1>1, HasInstance DEF TypeOK
<1>3. Written(c) \in SecretsType
  BY <1>2 DEF Written, SecretsType
<1>4. stored' \in SecretsType
  BY <1>2, <1>3 DEF ReplaceTokens
<1>5. authMu' \in {authMu, NoCall} /\ authMu' # c
  BY <1>1, TokenAssumption
<1> QED BY <1>1, <1>4, <1>5, ResumedTyped, ReleaseTyped DEF Holding

LEMMA StepTyped == TypeOK /\ [Next]_vars => TypeOK'
<1> SUFFICES ASSUME TypeOK, [Next]_vars PROVE TypeOK'
  OBVIOUS
<1>1. ASSUME NEW c \in Call, CallStep(c) PROVE TypeOK'
  BY <1>1, LoadTyped, BuildTyped, EnsureTyped, BeginTyped, AnsweredTyped, RefreshEndsTyped,
     PersistTyped, ReplaceTyped DEF CallStep
<1>2. CASE Authorize \/ ImportStored
  <2>1. /\ stored.client \in Client /\ Len(owner) + 1 \in Token
        /\ owner' = Append(owner, stored.client)
    BY <1>2, TokenAssumption DEF Authorize, ImportStored, TypeOK, SecretsType, Token
  <2>2. /\ owner' \in Seq(Client) /\ Len(owner') = Len(owner) + 1 /\ Len(owner') <= MaxGrants
        /\ Len(owner) \in Nat
    BY <1>2, <2>1, TokenAssumption DEF Authorize, ImportStored, TypeOK
  <2>3. admin' \in AdminType
    BY <1>2, <2>1 DEF Authorize, ImportStored, AdminType, TypeOK
  <2>4. /\ UNCHANGED <<kind, stored, instances, cached, call, authMu, notice, lapsed, revoked>>
        /\ CallType' = CallType /\ spent' \subseteq spent \cup 1..Len(owner)
    BY <1>2 DEF Authorize, ImportStored, CallType
  <2> QED BY <2>2, <2>3, <2>4 DEF TypeOK
<1>9. CASE StoreFails
  <2>1. /\ UNCHANGED <<kind, stored, instances, cached, call, authMu, notice, owner, lapsed,
                       revoked, spent>>
        /\ CallType' = CallType
    BY <1>9 DEF StoreFails, CallType, service
  <2>2. admin' \in AdminType
    BY <1>9 DEF StoreFails, TypeOK, AdminType
  <2> QED BY <2>1, <2>2 DEF TypeOK
<1>3. CASE StoreGrant
  <2>1. Granted(admin.client, admin.grant) \in SecretsType
    BY GrantedTyped DEF TypeOK, AdminType
  <2>2. stored' \in SecretsType /\ notice' \in BOOLEAN
    BY <1>3, <2>1 DEF StoreGrant, TypeOK
  <2>3. admin' \in AdminType
    BY <1>3 DEF StoreGrant, TypeOK, AdminType
  <2>4. /\ UNCHANGED <<kind, instances, cached, call, authMu, owner, lapsed, revoked, spent>>
        /\ CallType' = CallType
    BY <1>3 DEF StoreGrant, CallType, service
  <2> QED BY <2>2, <2>3, <2>4 DEF TypeOK
<1>4. ASSUME NEW k \in Client, ChangeClient(k) PROVE TypeOK'
  <2>1. cached' \in {0, cached} /\ notice' \in {notice, TRUE}
    BY <1>4 DEF ChangeClient
  <2>3. 0 \in Token /\ cached' \in 0..Len(instances) /\ notice' \in BOOLEAN
    <3>1. notice \in BOOLEAN /\ instances \in Seq(Instance) /\ cached \in 0..Len(instances)
      BY DEF TypeOK
    <3>2. notice' \in BOOLEAN
      BY <2>1, <3>1, Zenon
    <3> QED BY <2>1, <3>1, <3>2, TokenAssumption DEF Token
  <2>4. stored' \in SecretsType
    BY <1>4, <2>3 DEF ChangeClient, SecretsType
  <2>2. /\ UNCHANGED <<kind, instances, call, authMu, admin, owner, lapsed, revoked, spent>>
        /\ CallType' = CallType
    BY <1>4 DEF ChangeClient, CallType, service
  <2> QED BY <2>2, <2>3, <2>4 DEF TypeOK
<1>5. CASE InvalidateStored \/ EditProvider
  <2>1. /\ UNCHANGED <<kind, stored, instances, call, authMu, admin, owner, lapsed, revoked, spent>>
        /\ cached' = 0 /\ notice' \in {notice, FALSE} /\ CallType' = CallType
    BY <1>5 DEF InvalidateStored, Invalidate, EditProvider, CallType, service
  <2>2. cached' \in 0..Len(instances) /\ notice' \in BOOLEAN
    <3>1. notice \in BOOLEAN /\ instances \in Seq(Instance)
      BY DEF TypeOK
    <3>2. notice' \in BOOLEAN
      BY <2>1, <3>1, Zenon
    <3> QED BY <2>1, <3>1, <3>2
  <2> QED BY <2>1, <2>2 DEF TypeOK
<1>6. ASSUME NEW g \in Grant, Lapse(g) \/ Revoke(g) PROVE TypeOK'
  <2>1. /\ UNCHANGED <<kind, stored, instances, cached, call, authMu, admin, notice, owner, spent>>
        /\ lapsed' \cup revoked' \subseteq lapsed \cup revoked \cup 1..Len(owner)
        /\ CallType' = CallType
    BY <1>6 DEF Lapse, Revoke, CallType
  <2> QED BY <2>1 DEF TypeOK
<1>7. CASE Restart
  <2>1. /\ UNCHANGED <<kind, stored, owner, lapsed, revoked, spent>> /\ cached' = 0
        /\ authMu' = NoCall /\ notice' = FALSE /\ call' = [c \in Call |-> Idle]
        /\ instances' = [i \in 1..Len(instances) |-> [instances[i] EXCEPT !.mu = NoCall]]
    BY <1>7 DEF Restart, service
  <2>2. \A i \in 1..Len(instances) : [instances[i] EXCEPT !.mu = NoCall] \in Instance
                                     /\ [instances[i] EXCEPT !.mu = NoCall].mu = NoCall
    <3> SUFFICES ASSUME NEW i \in 1..Len(instances)
                 PROVE  /\ [instances[i] EXCEPT !.mu = NoCall] \in Instance
                        /\ [instances[i] EXCEPT !.mu = NoCall].mu = NoCall
      OBVIOUS
    <3>1. instances[i] \in Instance
      BY DEF TypeOK
    <3> QED BY <3>1 DEF Instance
  <2>3. /\ instances' \in Seq(Instance) /\ Len(instances') = Len(instances)
        /\ \A i \in 1..Len(instances') : instances'[i].mu = NoCall
    BY <2>1, <2>2 DEF TypeOK
  <2>4. Idle \in CallType' /\ Idle.inst = 0 /\ Idle.pc = "idle"
    BY <2>3, IdleTyped DEF CallType, TypeOK
  <2>5. admin' \in AdminType
    BY <1>7 DEF Restart, TypeOK, AdminType
  <2>6. call' \in [Call -> CallType'] /\ \A c \in Call : call'[c] = Idle
    BY <2>1, <2>4
  <2>7. cached' \in 0..Len(instances')
    BY <2>1, <2>3 DEF TypeOK
  <2> QED BY <2>1, <2>3, <2>4, <2>5, <2>6, <2>7 DEF TypeOK
<1>8. CASE UNCHANGED vars
  <2>1. CallType' = CallType
    BY <1>8 DEF vars, CallType
  <2> QED BY <1>8, <2>1 DEF vars, TypeOK, service
<1> QED BY <1>1, <1>2, <1>3, <1>4, <1>5, <1>6, <1>7, <1>8, <1>9 DEF Next

\* The state of the tokens keeps its types, and a mutex is held by the call
\* that refreshes the instance it belongs to (open115.go, baiduopen.go).
THEOREM TypeCorrect == Spec => []TypeOK
BY InitTyped, StepTyped, PTL DEF Spec

-----------------------------------------------------------------------------
(* Whose tokens these are *)

\* An access token was granted to the client it is kept with; o gives the
\* client of each grant.
Owned(o, s) == s.access # 0 => s.access \in 1..Len(o) /\ o[s.access] = s.client

\* Where clients change, every copy of the tokens is owned, and a call that
\* writes holds the mutex that keeps the client as it was compared.
AllOwned ==
  /\ Owned(owner, stored)
  /\ \A c \in Call : \A s \in call[c].read : Owned(owner, s)
  /\ \A i \in 1..Len(instances) : Owned(owner, instances[i].secrets)
  /\ Owned(owner, [access |-> admin.grant, client |-> admin.client])
  /\ \A c \in Call :
       call[c].pc = "writing" => authMu = c /\ stored.client = Secrets(c).client

OwnInv == TypeOK /\ (kind # "115open" => AllOwned)

-----------------------------------------------------------------------------
(* The steps of a call, by what they do to its instance *)

Others(c) == \A d \in Call : d # c => call'[d] = call[d]
SameOwners == UNCHANGED <<owner, lapsed, revoked, spent, answered>>

\* Neither the instances nor what is stored changes.
Reads(c) ==
  /\ call[c].pc \notin Holding /\ call'[c].pc \notin Holding
  /\ call'[c].read \subseteq call[c].read \cup {stored}
  /\ UNCHANGED <<instances, stored, authMu>> /\ SameOwners

\* A new instance gets the secrets that were read.
Builds(c) ==
  /\ call[c].pc \notin Holding /\ call'[c].pc \notin Holding /\ call'[c].read = {}
  /\ \E read \in call[c].read :
       instances' = Append(instances, [secrets |-> read, mu |-> NoCall])
  /\ UNCHANGED <<stored, authMu>> /\ SameOwners

\* The mutex is taken, and the token to present.
Takes(c) ==
  /\ call[c].pc \notin Holding /\ call'[c].pc = "refreshing" /\ call'[c].read = call[c].read
  /\ call[c].inst \in 1..Len(instances) /\ call'[c].inst = call[c].inst
  /\ instances[call[c].inst].mu = NoCall /\ call'[c].refresh = Secrets(c).refresh
  /\ instances' = [instances EXCEPT ![call[c].inst].mu = c]
  /\ UNCHANGED <<stored, authMu>> /\ SameOwners

\* The mutex is given back, after a write or without one.
Releases(c) ==
  /\ call[c].pc \in Holding /\ call'[c].pc \notin Holding /\ Unlock(c)
  /\ call'[c].read \subseteq call[c].read
  /\ \/ /\ UNCHANGED <<stored, authMu>> /\ call[c].pc # "writing"
        /\ call[c].pc = "persisting" => ~PersistAllowed(c)
     \/ /\ call[c].pc = "writing" /\ stored' \in {stored, Written(c)}
        /\ stored' = Written(c) \/ troubled'
        /\ authMu' = IF authMu = c THEN NoCall ELSE authMu
  /\ SameOwners

\* The client was compared and the write may begin.
Begins(c) ==
  /\ call[c].pc = "persisting" /\ PersistAllowed(c) /\ authMu = NoCall
  /\ call' = [call EXCEPT ![c].pc = "writing"]
  /\ authMu' = IF kind = "115open" THEN NoCall ELSE c
  /\ UNCHANGED <<instances, stored>> /\ SameOwners

LEMMA BuildShape ==
  ASSUME TypeOK, NEW c \in Call, NEW read \in call[c].read, BuildProvider(c, read)
  PROVE  Reads(c) \/ Builds(c)
<1>1. /\ call[c].pc = "building" /\ SameOwners /\ UNCHANGED <<stored, authMu>>
  BY DEF BuildProvider, service, SameOwners
<1>2. PICK i : call' = [call EXCEPT ![c] = [Idle EXCEPT !.pc = "ensuring", !.inst = i]]
  BY DEF BuildProvider
<1>3. call'[c].pc = "ensuring" /\ call'[c].read = {}
  BY <1>2 DEF TypeOK, Idle
<1>4. UNCHANGED instances \/ instances' = Append(instances, [secrets |-> read, mu |-> NoCall])
  BY DEF BuildProvider
<1> QED BY <1>1, <1>3, <1>4 DEF Reads, Builds, Holding

LEMMA ReadShape ==
  ASSUME TypeOK, NEW c \in Call, LoadSecrets(c) \/ EnsureAccessToken(c) \/ DoAPI(c)
  PROVE  Reads(c)
<1>1. /\ call[c] \in CallType /\ UNCHANGED <<instances, stored, authMu>> /\ SameOwners
      /\ call[c].pc \in {"idle", "ensuring", "attaching", "requesting"}
  BY DEF TypeOK, LoadSecrets, EnsureAccessToken, DoAPI, service, history, SameOwners
<1>2. CASE LoadSecrets(c)
  <2>1. call'[c].pc = "building" /\ call'[c].read = {stored}
    BY <1>1, <1>2 DEF LoadSecrets, TypeOK, CallType
  <2> QED BY <1>1, <2>1 DEF Reads, Holding
<1>3. CASE Ends(c)
  <2>1. call'[c].pc = "idle" /\ call'[c].read = {}
    BY <1>3 DEF Ends, Idle, TypeOK
  <2> QED BY <1>1, <2>1 DEF Reads, Holding
<1>4. CASE EnsureAccessToken(c) /\ ~Ends(c)
  <2>1. call'[c].pc \in {"requesting", "locking"} /\ call'[c].read = call[c].read
    BY <1>1, <1>4 DEF EnsureAccessToken, TypeOK, CallType
  <2> QED BY <1>1, <2>1 DEF Reads, Holding
<1>5. CASE DoAPI(c) /\ ~Ends(c)
  <2>1. call'[c].pc \in {"ensuring", "locking"} /\ call'[c].read = call[c].read
    BY <1>1, <1>5 DEF DoAPI, Becomes, TypeOK, CallType
  <2> QED BY <1>1, <2>1 DEF Reads, Holding
<1> QED BY <1>2, <1>3, <1>4, <1>5

LEMMA BeginShape ==
  ASSUME TypeOK, NEW c \in Call, BeginRefresh(c)
  PROVE  Reads(c) \/ Takes(c)
<1>1. /\ call[c].pc = "locking" /\ UNCHANGED <<stored, authMu>> /\ SameOwners
      /\ Free(c) /\ call[c] \in CallType
  BY DEF BeginRefresh, LockRefresh, service, history, SameOwners, TypeOK
<1>2. CASE Resume(c) /\ UNCHANGED instances
  <2>1. call' = [call EXCEPT ![c] = Resumed(c)] /\ Resumed(c).pc \in {"ensuring", "attaching"}
    BY <1>1, <1>2, ResumedTyped
  <2>2. Resumed(c).read = call[c].read
    BY <1>1 DEF Resumed, CallType
  <2>3. call'[c] = Resumed(c)
    BY <2>1 DEF TypeOK
  <2> QED BY <1>1, <1>2, <2>1, <2>2, <2>3 DEF Reads, Holding
<1>3. CASE /\ call' = [call EXCEPT ![c].pc = "refreshing", ![c].refresh = Secrets(c).refresh]
           /\ instances' = [instances EXCEPT ![call[c].inst].mu = c]
  <2>1. /\ call'[c].pc = "refreshing" /\ call'[c].refresh = Secrets(c).refresh
        /\ call'[c].read = call[c].read /\ call'[c].inst = call[c].inst
    BY <1>1, <1>3 DEF TypeOK, CallType
  <2> QED BY <1>1, <1>3, <2>1, HasInstance DEF Takes, Holding, Free
<1> QED BY <1>2, <1>3 DEF BeginRefresh

LEMMA ReleaseShape ==
  ASSUME TypeOK, NEW c \in Call, RefreshFails(c) \/ PersistCheck(c) \/ ReplaceTokens(c)
  PROVE  Releases(c) \/ Begins(c)
<1>1. SameOwners
  BY DEF RefreshFails, PersistCheck, ReplaceTokens, service, history, SameOwners
<1>2. CASE RefreshFails(c)
  <2>1. call'[c].pc = "idle" /\ call'[c].read = {}
    BY <1>2 DEF RefreshFails, Ends, Idle, TypeOK
  <2> QED BY <1>1, <1>2, <2>1 DEF RefreshFails, Releases, Holding
<1>3. CASE Resume(c) /\ call[c].pc \in {"persisting", "writing"}
  <2>1. call' = [call EXCEPT ![c] = Resumed(c)] /\ Resumed(c).pc \in {"ensuring", "attaching"}
    BY <1>3, ResumedTyped
  <2>2. Resumed(c).read = call[c].read
    BY DEF Resumed, CallType, TypeOK
  <2>3. call'[c] = Resumed(c)
    BY <2>1 DEF TypeOK
  <2>4. call'[c].pc \notin Holding /\ call'[c].read = call[c].read /\ call[c].pc \in Holding
    BY <1>3, <2>1, <2>2, <2>3 DEF Holding
  <2>5. CASE PersistCheck(c) /\ ~PersistAllowed(c) /\ Unlock(c) /\ UNCHANGED authMu
    BY <1>1, <2>4, <2>5 DEF PersistCheck, Releases
  <2>6. CASE ReplaceTokens(c)
    BY <1>1, <2>4, <2>6 DEF ReplaceTokens, Releases
  <2>7. CASE PersistCheck(c) /\ Becomes(c, "writing")
    <3>1. call'[c].pc = "writing"
      BY <2>7 DEF Becomes, TypeOK, CallType
    <3> QED BY <2>4, <3>1 DEF Holding
  <2>8. ~RefreshFails(c)
    BY <1>3 DEF RefreshFails
  <2> QED BY <2>5, <2>6, <2>7, <2>8 DEF PersistCheck
<1>4. CASE PersistCheck(c) /\ ~Resume(c)
  BY <1>1, <1>4 DEF PersistCheck, Becomes, Begins
<1>5. CASE PersistCheck(c) \/ ReplaceTokens(c)
  BY <1>3, <1>4, <1>5 DEF PersistCheck, ReplaceTokens
<1> QED BY <1>2, <1>5

LEMMA CallShape ==
  ASSUME TypeOK, NEW c \in Call, CallStep(c)
  PROVE  /\ UNCHANGED <<kind, admin>> /\ Others(c)
         /\ \/ Reads(c) \/ Builds(c) \/ Takes(c) \/ Releases(c) \/ Begins(c)
            \/ RefreshAnswered(c) \/ RefreshLost(c)
<1>1. \/ Reads(c) \/ Builds(c) \/ Takes(c) \/ Releases(c) \/ Begins(c)
      \/ RefreshAnswered(c) \/ RefreshLost(c)
  BY BuildShape, ReadShape, BeginShape, ReleaseShape DEF CallStep
<1>2. UNCHANGED <<kind, admin>>
  BY DEF CallStep, LoadSecrets, BuildProvider, EnsureAccessToken, DoAPI, BeginRefresh,
         RefreshAnswered, RefreshLost, RefreshFails, PersistCheck, ReplaceTokens
<1>3. UNCHANGED call \/ \E r : call' = [call EXCEPT ![c] = r]
  BY DEF CallStep, LoadSecrets, BuildProvider, EnsureAccessToken, DoAPI, BeginRefresh, Resume,
         RefreshAnswered, RefreshLost, RefreshFails, PersistCheck, ReplaceTokens, Becomes, Ends
<1> QED BY <1>1, <1>2, <1>3 DEF Others, TypeOK

\* What Unlock leaves of the instances.
LEMMA UnlockShape ==
  ASSUME TypeOK, NEW c \in Call, call[c].pc \in Holding, Unlock(c)
  PROVE  /\ Len(instances') = Len(instances) /\ instances \in Seq(Instance)
         /\ \A i \in 1..Len(instances) : instances'[i].secrets = instances[i].secrets
         /\ \A i \in 1..Len(instances) : i # call[c].inst => instances'[i] = instances[i]
<1>1. call[c].inst \in 1..Len(instances) /\ instances \in Seq(Instance)
  BY HasInstance DEF Holding, TypeOK
<1>2. instances[call[c].inst] \in Instance
  BY <1>1
<1>3. instances' = [instances EXCEPT ![call[c].inst] = [instances[call[c].inst] EXCEPT !.mu = NoCall]]
  BY DEF Unlock
<1>4. [instances[call[c].inst] EXCEPT !.mu = NoCall].secrets = instances[call[c].inst].secrets
  BY <1>2 DEF Instance
<1> QED BY <1>1, <1>3, <1>4

\* An answer gives the call's instance a new grant.
LEMMA AnswerShape ==
  ASSUME TypeOK, NEW c \in Call, RefreshAnswered(c)
  PROVE  /\ call[c].pc = "refreshing" /\ call' = [call EXCEPT ![c].pc = "persisting"]
         /\ call[c].inst \in 1..Len(instances) /\ instances \in Seq(Instance)
         /\ Len(instances') = Len(instances)
         /\ \A i \in 1..Len(instances) : instances'[i].mu = instances[i].mu
         /\ \A i \in 1..Len(instances) : i # call[c].inst => instances'[i] = instances[i]
         /\ instances'[call[c].inst].secrets = Granted(Secrets(c).client, Len(owner) + 1)
         /\ UNCHANGED <<stored, authMu>>
<1>1. /\ call[c].pc = "refreshing" /\ call[c].inst \in 1..Len(instances)
      /\ instances[call[c].inst] \in Instance /\ instances \in Seq(Instance)
  BY HasInstance DEF RefreshAnswered, Serves, TypeOK
<1> DEFINE new == Granted(Secrets(c).client, Len(owner) + 1)
           inst == [instances[call[c].inst] EXCEPT !.secrets = new]
<1>2. inst.mu = instances[call[c].inst].mu /\ inst.secrets = new
  BY <1>1 DEF Instance
<1>3. instances' = [instances EXCEPT ![call[c].inst] = inst]
  BY DEF RefreshAnswered, Secrets
<1> HIDE DEF inst, new
<1>4. /\ Len(instances') = Len(instances) /\ instances'[call[c].inst] = inst
      /\ \A i \in 1..Len(instances) : i # call[c].inst => instances'[i] = instances[i]
  BY <1>1, <1>3
<1> QED BY <1>1, <1>2, <1>4 DEF RefreshAnswered, Becomes, new

\* Grants keep their clients.
LEMMA OwnersKept ==
  ASSUME TypeOK, [Next]_vars
  PROVE  /\ Len(owner) \in Nat /\ Len(owner') \in Nat /\ Len(owner) <= Len(owner')
         /\ \A g \in 1..Len(owner) : owner'[g] = owner[g]
         /\ UNCHANGED kind
<1>1. owner \in Seq(Client) /\ Len(owner) \in Nat
  BY DEF TypeOK
<1>2. ASSUME NEW c \in Call, CallStep(c)
      PROVE  UNCHANGED kind /\ (UNCHANGED owner \/ Serves(c))
  BY <1>2, CallShape DEF Reads, Builds, Takes, Releases, Begins, SameOwners, RefreshAnswered,
                         RefreshLost
<1>3. ASSUME NEW c \in Call, Serves(c)
      PROVE  /\ Len(owner') = Len(owner) + 1 /\ \A g \in 1..Len(owner) : owner'[g] = owner[g]
  BY <1>3, ServedTyped
<1>4. CASE Authorize \/ ImportStored
  <2>1. owner' = Append(owner, stored.client) /\ stored.client \in Client /\ UNCHANGED kind
    BY <1>4 DEF Authorize, ImportStored, TypeOK, SecretsType
  <2> QED BY <1>1, <2>1
<1>5. UNCHANGED <<kind, owner>> \/ Authorize \/ ImportStored \/ \E c \in Call : CallStep(c)
  BY DEF Next, StoreGrant, StoreFails, InvalidateStored, EditProvider, ChangeClient, Lapse, Revoke, Restart,
         service, vars
<1> QED BY <1>1, <1>2, <1>3, <1>4, <1>5

LEMMA OwnKept == OwnInv /\ [Next]_vars => OwnInv'
<1> SUFFICES ASSUME OwnInv, [Next]_vars PROVE OwnInv'
  OBVIOUS
<1>1. TypeOK /\ TypeOK' /\ UNCHANGED kind
  BY StepTyped, OwnersKept DEF OwnInv
<1> SUFFICES ASSUME kind # "115open" PROVE AllOwned'
  BY <1>1 DEF OwnInv
<1>2. AllOwned
  BY DEF OwnInv
<1>3. \A s : Owned(owner, s) => Owned(owner', s)
  BY <1>1, OwnersKept DEF Owned
<1>4. ASSUME NEW c \in Call, CallStep(c) PROVE AllOwned'
  <2>1. Others(c) /\ UNCHANGED admin
    BY <1>1, <1>4, CallShape
  <2>2. CASE Reads(c)
    BY <1>2, <1>3, <2>1, <2>2 DEF AllOwned, Reads, Others, Secrets, Holding
  <2>3. CASE Builds(c)
    <3>1. PICK read \in call[c].read :
                 instances' = Append(instances, [secrets |-> read, mu |-> NoCall])
      BY <2>3 DEF Builds
    <3>2. \A i \in 1..Len(instances') :
            \/ instances'[i].secrets = read
            \/ i \in 1..Len(instances) /\ instances'[i] = instances[i]
      BY <1>1, <3>1 DEF TypeOK
    <3>3. \A i \in 1..Len(instances) : instances'[i] = instances[i]
      BY <1>1, <3>1 DEF TypeOK
    <3>4. \A d \in Call : d # c /\ call[d].pc = "writing" => Secrets(d)' = Secrets(d)
      BY <1>1, <2>1, <3>3, HasInstance DEF Secrets, Others
    <3> QED BY <1>2, <1>3, <2>1, <2>3, <3>2, <3>4 DEF AllOwned, Builds, Others, Holding
  <2>4. CASE Takes(c)
    <3>1. /\ Len(instances') = Len(instances)
          /\ \A i \in 1..Len(instances) : instances'[i].secrets = instances[i].secrets
      BY <1>1, <2>4, HeldByHolder DEF Takes, TypeOK, Instance
    <3>2. \A d \in Call : d # c /\ call[d].pc = "writing" => Secrets(d)' = Secrets(d)
      BY <1>1, <2>1, <3>1, HasInstance DEF Secrets, Others
    <3> QED BY <1>2, <1>3, <2>1, <2>4, <3>1, <3>2 DEF AllOwned, Takes, Others
  <2>5. CASE Releases(c)
    <3>1. /\ Len(instances') = Len(instances)
          /\ \A i \in 1..Len(instances) : instances'[i].secrets = instances[i].secrets
      BY <1>1, <2>5, UnlockShape DEF Releases
    <3>2. \A d \in Call : d # c /\ call[d].pc = "writing" => Secrets(d)' = Secrets(d)
      BY <1>1, <2>1, <3>1, HasInstance DEF Secrets, Others
    <3>3. CASE UNCHANGED <<stored, authMu>> /\ call[c].pc # "writing"
      BY <1>2, <1>3, <2>1, <2>5, <3>1, <3>2, <3>3 DEF AllOwned, Releases, Others, Holding
    <3>4. CASE call[c].pc = "writing" /\ stored' \in {stored, Written(c)}
      <4>1. authMu = c /\ stored.client = Secrets(c).client /\ Owned(owner, Secrets(c))
        BY <1>1, <1>2, <3>4, HasInstance DEF AllOwned, Secrets
      <4>2. Written(c).access = Secrets(c).access /\ Written(c).client = stored.client
        BY <1>1, <3>4, HasInstance DEF Written, SecretsType
      <4>3. Owned(owner', stored')
        BY <1>2, <1>3, <3>4, <4>1, <4>2 DEF AllOwned, Owned
      <4>4. \A d \in Call : d # c => call[d].pc # "writing"
        BY <1>2, <4>1 DEF AllOwned
      <4> QED BY <1>2, <1>3, <2>1, <2>5, <3>1, <4>3, <4>4 DEF AllOwned, Releases, Others, Holding
    <3> QED BY <2>5, <3>3, <3>4 DEF Releases
  <2>6. CASE Begins(c)
    <3>1. /\ call'[c].pc = "writing" /\ call'[c].read = call[c].read
          /\ call'[c].inst = call[c].inst /\ authMu' = c /\ UNCHANGED <<stored, instances>>
      BY <1>1, <2>6 DEF Begins, TypeOK, CallType
    <3>2. stored.client = Secrets(c).client /\ \A d \in Call : call[d].pc # "writing"
      BY <1>2, <2>6, TokenAssumption DEF Begins, PersistAllowed, AllOwned
    <3> QED BY <1>2, <1>3, <2>1, <3>1, <3>2 DEF AllOwned, Others, Secrets
  <2>7. CASE RefreshAnswered(c)
    <3>1. /\ call[c].pc = "refreshing" /\ call'[c].pc = "persisting"
          /\ call'[c].read = call[c].read /\ UNCHANGED <<stored, authMu>>
      BY <1>1, <2>7, AnswerShape DEF TypeOK, CallType
    <3>2. Secrets(c).client \in Client /\ Len(owner) + 1 \in Token /\ Len(owner') = Len(owner) + 1
          /\ owner'[Len(owner')] = Secrets(c).client
      BY <1>1, <2>7, <3>1, ServedTyped, HasInstance DEF RefreshAnswered, SecretsType
    <3>3. Owned(owner', Granted(Secrets(c).client, Len(owner) + 1))
      BY <1>1, <3>2, GrantedTyped, OwnersKept DEF Owned
    <3>4. \A i \in 1..Len(instances') : Owned(owner', instances'[i].secrets)
      BY <1>1, <1>2, <1>3, <2>7, <3>3, AnswerShape DEF AllOwned
    <3>5. ASSUME NEW d \in Call, call'[d].pc = "writing"
          PROVE  authMu' = d /\ stored'.client = Secrets(d)'.client
      <4>1. d # c /\ call'[d] = call[d] /\ authMu = d /\ stored.client = Secrets(d).client
        BY <1>2, <2>1, <3>1, <3>5 DEF Others, AllOwned
      <4>2. call[d].inst \in 1..Len(instances)
        BY <1>1, <3>5, <4>1, HasInstance
      <4>3. CASE call[d].inst = call[c].inst
        <5>1. Granted(Secrets(c).client, Len(owner) + 1).client = Secrets(c).client
          BY <3>2, GrantedTyped
        <5> QED BY <1>1, <2>7, <3>1, <4>1, <4>3, <5>1, AnswerShape DEF Secrets
      <4>4. CASE call[d].inst # call[c].inst
        BY <1>1, <2>7, <3>1, <4>1, <4>2, <4>4, AnswerShape DEF Secrets
      <4> QED BY <4>3, <4>4
    <3> QED BY <1>2, <1>3, <2>1, <3>1, <3>4, <3>5 DEF AllOwned, Others
  <2>8. CASE RefreshLost(c)
    BY <1>2, <1>3, <2>8 DEF AllOwned, RefreshLost, Secrets
  <2> QED BY <1>1, <1>4, <2>2, <2>3, <2>4, <2>5, <2>6, <2>7, <2>8, CallShape
<1>11. CASE ImportStored /\ UNCHANGED admin
  BY <1>2, <1>3, <1>11 DEF AllOwned, ImportStored, Secrets
<1>12. CASE StoreFails
  <2>1. admin'.grant = admin.grant /\ admin'.client = admin.client
    BY <1>1, <1>12 DEF StoreFails, TypeOK, AdminType
  <2> QED BY <1>2, <1>3, <1>12, <2>1 DEF AllOwned, StoreFails, Secrets
<1>5. CASE Authorize \/ (ImportStored /\ ~UNCHANGED admin)
  <2>1. /\ owner' = Append(owner, stored.client) /\ stored.client \in Client
        /\ admin'.grant = Len(owner) + 1 /\ admin'.client = stored.client
        /\ UNCHANGED <<stored, call, instances, authMu>>
    BY <1>1, <1>5 DEF Authorize, ImportStored, TypeOK, SecretsType
  <2>2. Owned(owner', [access |-> admin'.grant, client |-> admin'.client])
    BY <1>1, <2>1 DEF Owned, TypeOK
  <2> QED BY <1>2, <1>3, <2>1, <2>2 DEF AllOwned, Secrets
<1>6. CASE StoreGrant
  <2>1. /\ admin'.grant = admin.grant /\ admin'.client = admin.client
        /\ UNCHANGED <<call, instances, authMu>> /\ authMu = NoCall
    BY <1>1, <1>6 DEF StoreGrant, TypeOK, AdminType
  <2>2. \A c \in Call : call[c].pc # "writing"
    BY <1>2, <2>1, TokenAssumption DEF AllOwned
  <2>3. stored' \in {stored, Granted(admin.client, admin.grant)}
    BY <1>6 DEF StoreGrant
  <2>4. /\ Granted(admin.client, admin.grant).access = admin.grant
        /\ Granted(admin.client, admin.grant).client = admin.client
    BY <1>1, GrantedTyped DEF TypeOK, AdminType
  <2>5. Owned(owner', stored')
    BY <1>2, <1>3, <2>3, <2>4 DEF AllOwned, Owned
  <2> QED BY <1>2, <1>3, <2>1, <2>2, <2>5 DEF AllOwned
<1>7. ASSUME NEW k \in Client, ChangeClient(k) PROVE AllOwned'
  <2>1. /\ stored'.access = 0 /\ authMu = NoCall /\ UNCHANGED <<call, instances, admin, authMu>>
    BY <1>7 DEF ChangeClient
  <2>2. \A c \in Call : call[c].pc # "writing"
    BY <1>2, <2>1, TokenAssumption DEF AllOwned
  <2> QED BY <1>2, <1>3, <2>1, <2>2 DEF AllOwned, Owned
<1>8. CASE UNCHANGED <<stored, call, instances, admin, authMu>>
  BY <1>2, <1>3, <1>8 DEF AllOwned, Secrets
<1>9. CASE Restart
  <2>1. /\ stored' = stored /\ admin'.grant = admin.grant /\ admin'.client = admin.client
        /\ \A c \in Call : call'[c].pc = "idle" /\ call'[c].read = {}
    BY <1>1, <1>9 DEF Restart, Idle, TypeOK, AdminType
  <2>2. /\ Len(instances') = Len(instances)
        /\ \A i \in 1..Len(instances) : instances'[i].secrets = instances[i].secrets
    <3>1. /\ Len(instances) \in Nat
          /\ instances' = [i \in 1..Len(instances) |-> [instances[i] EXCEPT !.mu = NoCall]]
      BY <1>1, <1>9 DEF Restart, TypeOK
    <3>2. ASSUME NEW i \in 1..Len(instances)
          PROVE  instances'[i].secrets = instances[i].secrets
      <4>1. instances[i] \in Instance
        BY <1>1 DEF TypeOK
      <4>2. [instances[i] EXCEPT !.mu = NoCall].secrets = instances[i].secrets
        BY <4>1 DEF Instance
      <4> QED BY <3>1, <4>2
    <3>3. instances' \in Seq(Instance) /\ DOMAIN instances' = 1..Len(instances)
      BY <1>1, <3>1 DEF TypeOK
    <3> QED BY <3>1, <3>2, <3>3
  <2> QED BY <1>2, <1>3, <2>1, <2>2 DEF AllOwned
<1>10. \/ \E c \in Call : CallStep(c)
       \/ Authorize \/ ImportStored \/ StoreGrant \/ StoreFails \/ Restart
       \/ \E k \in Client : ChangeClient(k)
       \/ UNCHANGED <<stored, call, instances, admin, authMu>>
  BY DEF Next, vars, InvalidateStored, EditProvider, Lapse, Revoke
<1> QED BY <1>4, <1>5, <1>6, <1>7, <1>8, <1>9, <1>10, <1>11, <1>12

\* Tokens in the database belong to the client in the database, although a
\* refresh may end after the client was changed: the client is compared under
\* the mutex under which it changes (baiduopen_provider.go, app.go:3548-3551).
THEOREM TokensOwned == Spec => []OwnTokens
<1>1. Init => OwnInv
  <2> SUFFICES ASSUME Init PROVE OwnInv
    OBVIOUS
  <2>1. PICK k \in Client : owner = <<k>> /\ stored = Granted(k, 1)
    BY DEF Init
  <2>2. 1 \in Token
    BY TokenAssumption DEF Token
  <2>3. Owned(owner, stored)
    BY <2>1, <2>2, GrantedTyped DEF Owned
  <2>4. /\ \A c \in Call : call[c].read = {} /\ call[c].pc = "idle"
        /\ Len(instances) = 0 /\ admin.grant = 0
    BY DEF Init, Idle
  <2> QED BY <2>3, <2>4, InitTyped DEF OwnInv, AllOwned, Owned
<1>2. OwnInv /\ [Next]_vars => OwnInv'
  BY OwnKept
<1>3. OwnInv => OwnTokens
  BY DEF OwnInv, AllOwned, Owned, OwnTokens
<1> QED BY <1>1, <1>2, <1>3, PTL DEF Spec

-----------------------------------------------------------------------------
(* Why a refresh token is presented once *)

\* Who refreshes holds its instance's mutex.
Held == \A c \in Call : call[c].pc \in Holding => instances[call[c].inst].mu = c

\* So the token it presents is still the one the instance has.
Presents == \A c \in Call : call[c].pc = "refreshing" => call[c].refresh = Secrets(c).refresh

\* And no instance keeps a token whose answer has arrived.
Unanswered ==
  /\ \A a \in answered : a[1] \in 1..Len(instances) /\ a[2] \in 1..Len(owner)
  /\ \A i \in 1..Len(instances) : <<i, instances[i].secrets.refresh>> \notin answered

FreshInv == TypeOK /\ Held /\ Presents /\ (kind # "123pan" => Unanswered)

\* Instances that keep their tokens keep them unanswered.
LEMMA UnansweredKept ==
  ASSUME Unanswered, Len(instances') \in Nat, Len(instances) \in Nat, Len(owner) \in Nat,
         Len(owner') \in Nat,
         Len(instances') >= Len(instances), Len(owner') >= Len(owner), UNCHANGED answered,
         \A i \in 1..Len(instances) : instances'[i].secrets = instances[i].secrets
  PROVE  Unanswered'
<1>1. \A a \in answered : a[1] \in 1..Len(instances') /\ a[2] \in 1..Len(owner')
  BY DEF Unanswered
<1>2. ASSUME NEW i \in 1..Len(instances')
      PROVE  <<i, instances'[i].secrets.refresh>> \notin answered
  <2>1. CASE i \in 1..Len(instances)
    BY <2>1 DEF Unanswered
  <2>2. CASE i \notin 1..Len(instances)
    BY <2>2 DEF Unanswered
  <2> QED BY <2>1, <2>2
<1> QED BY <1>1, <1>2 DEF Unanswered

\* What a call that holds a mutex sees of its instance.
LEMMA HolderSees ==
  ASSUME FreshInv, NEW d \in Call, call[d].pc \in Holding,
         call'[d] = call[d], instances'[call[d].inst] = instances[call[d].inst]
  PROVE  /\ instances'[call'[d].inst].mu = d
         /\ call'[d].pc = "refreshing" => call'[d].refresh = Secrets(d)'.refresh
BY DEF FreshInv, Held, Presents, Secrets

LEMMA FreshKept == FreshInv /\ [Next]_vars => FreshInv'
<1> SUFFICES ASSUME FreshInv, [Next]_vars PROVE FreshInv'
  OBVIOUS
<1>1. TypeOK /\ TypeOK' /\ UNCHANGED kind
  BY StepTyped, OwnersKept DEF FreshInv
<1>2. /\ Len(owner) \in Nat /\ Len(owner') \in Nat /\ Len(owner) <= Len(owner')
      /\ instances \in Seq(Instance) /\ Len(instances) \in Nat /\ Len(instances') \in Nat
  BY <1>1, OwnersKept DEF TypeOK
<1> DEFINE Kept == (Held /\ Presents /\ (kind # "123pan" => Unanswered))'
<1> SUFFICES Kept
  BY <1>1 DEF FreshInv
<1>3. ASSUME NEW c \in Call, CallStep(c) PROVE Kept
  <2>1. Others(c)
    BY <1>1, <1>3, CallShape
  <2>2. ASSUME \A d \in Call : d # c /\ call[d].pc \in Holding =>
                 instances'[call[d].inst] = instances[call[d].inst],
               call'[c].pc \in Holding => instances'[call'[c].inst].mu = c,
               call'[c].pc = "refreshing" => call'[c].refresh = Secrets(c)'.refresh
        PROVE  (Held /\ Presents)'
    <3>1. ASSUME NEW d \in Call, call'[d].pc \in Holding
          PROVE  /\ instances'[call'[d].inst].mu = d
                 /\ call'[d].pc = "refreshing" => call'[d].refresh = Secrets(d)'.refresh
      BY <2>1, <2>2, <3>1, HolderSees DEF Others
    <3> QED BY <3>1 DEF Held, Presents, Holding
  <2>3. \A d \in Call : d # c /\ call[d].pc \in Holding =>
          /\ call[d].inst \in 1..Len(instances)
          /\ (instances[call[c].inst].mu \in {c, NoCall} => call[d].inst # call[c].inst)
    BY <1>1, HasInstance, TokenAssumption DEF FreshInv, Held, Holding
  <2>4. CASE Reads(c)
    <3>1. UNCHANGED <<instances, answered>> /\ call'[c].pc \notin Holding
      BY <2>4 DEF Reads, SameOwners
    <3>2. (Held /\ Presents)'
      BY <2>2, <3>1 DEF Holding
    <3> QED BY <1>1, <1>2, <3>1, <3>2, UnansweredKept DEF FreshInv
  <2>5. CASE Builds(c)
    <3>1. PICK new : instances' = Append(instances, new)
      BY <2>5 DEF Builds
    <3>2. /\ Len(instances') = Len(instances) + 1
          /\ \A i \in 1..Len(instances) : instances'[i] = instances[i]
      BY <1>2, <3>1
    <3>3. UNCHANGED answered /\ call'[c].pc \notin Holding
      BY <2>5 DEF Builds, SameOwners
    <3>4. (Held /\ Presents)'
      BY <2>2, <2>3, <3>2, <3>3 DEF Holding
    <3> QED BY <1>1, <1>2, <3>2, <3>3, <3>4, UnansweredKept DEF FreshInv
  <2>6. CASE Takes(c)
    <3>1. PICK i \in 1..Len(instances) : i = call[c].inst /\ instances[i] \in Instance
      BY <1>1, <2>6 DEF Takes, TypeOK
    <3>2. /\ [instances[i] EXCEPT !.mu = c].mu = c
          /\ [instances[i] EXCEPT !.mu = c].secrets = instances[i].secrets
      BY <3>1 DEF Instance
    <3>3. instances' = [instances EXCEPT ![i] = [instances[i] EXCEPT !.mu = c]]
      BY <2>6, <3>1 DEF Takes
    <3>4. /\ Len(instances') = Len(instances)
          /\ \A j \in 1..Len(instances) : j # i => instances'[j] = instances[j]
          /\ instances'[i].mu = c /\ instances'[i].secrets = instances[i].secrets
      BY <1>2, <3>1, <3>2, <3>3
    <3>5. /\ instances[i].mu = NoCall /\ call'[c].inst = i /\ UNCHANGED answered
          /\ call'[c].refresh = instances[i].secrets.refresh
      BY <2>6, <3>1 DEF Takes, SameOwners, Secrets
    <3>6. (Held /\ Presents)'
      BY <2>2, <2>3, <3>1, <3>4, <3>5 DEF Secrets
    <3> QED BY <1>1, <1>2, <3>4, <3>5, <3>6, UnansweredKept DEF FreshInv
  <2>7. CASE Releases(c)
    <3>1. /\ call[c].pc \in Holding /\ call'[c].pc \notin Holding /\ UNCHANGED answered
          /\ Len(instances') = Len(instances)
          /\ \A i \in 1..Len(instances) : instances'[i].secrets = instances[i].secrets
          /\ \A i \in 1..Len(instances) : i # call[c].inst => instances'[i] = instances[i]
      BY <1>1, <2>7, UnlockShape DEF Releases, SameOwners
    <3>2. instances[call[c].inst].mu = c
      BY <3>1 DEF FreshInv, Held
    <3>3. (Held /\ Presents)'
      BY <2>2, <2>3, <3>1, <3>2 DEF Holding
    <3> QED BY <1>1, <1>2, <3>1, <3>3, UnansweredKept DEF FreshInv
  <2>8. CASE Begins(c)
    <3>1. /\ call[c].pc = "persisting" /\ call'[c].pc = "writing"
          /\ call'[c].inst = call[c].inst /\ UNCHANGED <<instances, answered>>
      BY <1>1, <2>8 DEF Begins, TypeOK, CallType, SameOwners
    <3>2. instances[call[c].inst].mu = c
      BY <3>1 DEF FreshInv, Held, Holding
    <3>3. (Held /\ Presents)'
      BY <2>2, <3>1, <3>2
    <3> QED BY <1>1, <1>2, <3>1, <3>3, UnansweredKept DEF FreshInv
  <2>9. CASE RefreshAnswered(c)
    <3>1. PICK i \in 1..Len(instances) :
                 /\ i = call[c].inst /\ instances[i].mu = c /\ instances'[i].mu = c
                 /\ Len(instances') = Len(instances)
                 /\ \A j \in 1..Len(instances) : j # i => instances'[j] = instances[j]
                 /\ instances'[i].secrets = Granted(Secrets(c).client, Len(owner) + 1)
      BY <1>1, <2>9, AnswerShape DEF FreshInv, Held, Holding
    <3>2. call'[c].pc = "persisting" /\ call'[c].inst = i
      BY <1>1, <2>9, <3>1, AnswerShape DEF TypeOK, CallType
    <3>3. (Held /\ Presents)'
      BY <2>2, <2>3, <3>1, <3>2
    <3>4. ASSUME kind # "123pan" PROVE Unanswered'
      <4>1. /\ answered' = answered \cup {<<i, call[c].refresh>>}
            /\ call[c].refresh \in 1..Len(owner) /\ call[c].refresh = instances[i].secrets.refresh
        BY <2>9, <3>1, <3>4 DEF RefreshAnswered, Serves, FreshInv, Presents, Secrets
      <4>2. instances'[i].secrets.refresh = Len(owner) + 1
        BY <3>1, <3>4 DEF Granted
      <4>3. \A a \in answered' : a[1] \in 1..Len(instances) /\ a[2] \in 1..Len(owner)
        BY <3>4, <4>1 DEF FreshInv, Unanswered
      <4>4. <<i, Len(owner) + 1>> \notin answered'
        BY <1>2, <4>3
      <4>5. \A j \in 1..Len(instances) : j # i =>
              <<j, instances'[j].secrets.refresh>> \notin answered'
        BY <3>1, <3>4, <4>1 DEF FreshInv, Unanswered
      <4> QED BY <1>2, <3>1, <4>2, <4>3, <4>4, <4>5 DEF Unanswered
    <3> QED BY <1>1, <3>3, <3>4
  <2>10. CASE RefreshLost(c)
    <3>1. UNCHANGED <<instances, call, answered>>
      BY <2>10 DEF RefreshLost
    <3>2. (Held /\ Presents)'
      BY <3>1 DEF FreshInv, Held, Presents, Secrets
    <3> QED BY <1>1, <1>2, <3>1, <3>2, UnansweredKept DEF FreshInv
  <2> QED BY <1>1, <1>3, <2>4, <2>5, <2>6, <2>7, <2>8, <2>9, <2>10, CallShape
<1>4. CASE UNCHANGED <<call, instances, answered>>
  <2>1. (Held /\ Presents)'
    BY <1>4 DEF FreshInv, Held, Presents, Secrets
  <2> QED BY <1>1, <1>2, <1>4, <2>1, UnansweredKept DEF FreshInv
<1>5. CASE Restart
  <2>1. /\ UNCHANGED answered /\ \A c \in Call : call'[c].pc = "idle"
        /\ instances' = [i \in 1..Len(instances) |-> [instances[i] EXCEPT !.mu = NoCall]]
    BY <1>5 DEF Restart, Idle
  <2>2. ASSUME NEW i \in 1..Len(instances)
        PROVE  instances'[i].secrets = instances[i].secrets
    <3>1. instances[i] \in Instance
      BY <1>2
    <3>2. [instances[i] EXCEPT !.mu = NoCall].secrets = instances[i].secrets
      BY <3>1 DEF Instance
    <3> QED BY <2>1, <3>2
  <2>3. Len(instances') = Len(instances)
    <3>1. instances' \in Seq(Instance) /\ DOMAIN instances' = 1..Len(instances)
      BY <1>1, <2>1 DEF TypeOK
    <3> QED BY <1>2, <3>1
  <2>4. (Held /\ Presents)'
    BY <2>1 DEF Held, Presents, Holding
  <2> QED BY <1>1, <1>2, <2>1, <2>2, <2>3, <2>4, UnansweredKept DEF FreshInv
<1>6. \/ \E c \in Call : CallStep(c)
      \/ Restart \/ UNCHANGED <<call, instances, answered>>
  BY DEF Next, vars, history, Authorize, ImportStored, StoreGrant, StoreFails, ChangeClient,
         InvalidateStored, EditProvider, Lapse, Revoke
<1> QED BY <1>3, <1>4, <1>5, <1>6

\* Calls that share an instance refresh its token once: a call that waited for
\* the mutex presents what the instance has by then, and no instance keeps a
\* token that was answered (open115.go:739-751, baiduopen.go:644-656).
THEOREM SharedRefreshOnce == Spec => []RefreshedOnce
<1>1. Init => FreshInv
  <2> SUFFICES ASSUME Init PROVE FreshInv
    OBVIOUS
  <2>1. /\ \A c \in Call : call[c].pc = "idle"
        /\ Len(instances) = 0 /\ answered = {}
    BY DEF Init, Idle
  <2> QED BY <2>1, InitTyped DEF FreshInv, Held, Presents, Unanswered, Holding
<1>2. FreshInv /\ [Next]_vars => FreshInv'
  BY FreshKept
<1>3. FreshInv => RefreshedOnce
  <2> SUFFICES ASSUME FreshInv, NEW c \in Call, call[c].pc = "refreshing", kind # "123pan"
               PROVE  <<call[c].inst, call[c].refresh>> \notin answered
    BY DEF RefreshedOnce
  <2>1. call[c].inst \in 1..Len(instances)
    BY HasInstance DEF FreshInv
  <2> QED BY <2>1 DEF FreshInv, Presents, Unanswered, Secrets
<1> QED BY <1>1, <1>2, <1>3, PTL DEF Spec

-----------------------------------------------------------------------------
(* Why the refresh token in the database works *)

\* A refresh token, if there is one, came with a grant that was made, and with
\* the access token it is kept with.
Sound(o, s) == s.refresh \in 0..Len(o) \cap {0, s.access}

AllSound ==
  /\ Sound(owner, stored)
  /\ \A c \in Call : \A s \in call[c].read : Sound(owner, s)
  /\ \A i \in 1..Len(instances) : Sound(owner, instances[i].secrets)
  /\ admin.grant \in 0..Len(owner)
  /\ kind = "123pan" => spent = {}

LEMMA GrantedSound ==
  ASSUME NEW k \in Client, NEW o, NEW g \in 1..Len(o), Len(o) \in Nat
  PROVE  Sound(o, Granted(k, g))
BY DEF Sound, Granted

LEMMA WrittenAs ==
  ASSUME TypeOK, NEW c \in Call, call[c].pc \in Holding
  PROVE  /\ Written(c).refresh = Secrets(c).refresh /\ Written(c).access = Secrets(c).access
         /\ Written(c).client = stored.client
         /\ stored.client = Secrets(c).client => Written(c) = Secrets(c)
<1>1. Secrets(c) \in SecretsType
  BY HasInstance DEF Holding
<1> QED BY <1>1 DEF Written, SecretsType

\* A step of a call leaves the instances of the others alone, and the secrets
\* of its own unless an answer arrives.
LEMMA InstanceKept ==
  ASSUME TypeOK, NEW c \in Call,
         Reads(c) \/ Builds(c) \/ Takes(c) \/ Releases(c) \/ Begins(c) \/ RefreshLost(c)
  PROVE  /\ instances \in Seq(Instance) /\ Len(instances) <= Len(instances')
         /\ \A i \in 1..Len(instances) : instances'[i].secrets = instances[i].secrets
         /\ Builds(c) \/ Len(instances') = Len(instances)
<1>0. instances \in Seq(Instance)
  BY DEF TypeOK
<1>1. CASE Reads(c) \/ Begins(c) \/ RefreshLost(c)
  BY <1>0, <1>1 DEF Reads, Begins, RefreshLost
<1>2. CASE Builds(c)
  <2>1. PICK new : instances' = Append(instances, new)
    BY <1>2 DEF Builds
  <2> QED BY <1>0, <1>2, <2>1
<1>3. CASE Takes(c)
  BY <1>0, <1>3, HeldByHolder DEF Takes, Instance
<1>4. CASE Releases(c)
  BY <1>0, <1>4, UnlockShape DEF Releases
<1> QED BY <1>1, <1>2, <1>3, <1>4

\* A restart frees the mutexes and keeps the secrets.
LEMMA RestartKeeps ==
  ASSUME TypeOK, TypeOK', Restart
  PROVE  /\ Len(instances') = Len(instances)
         /\ \A i \in 1..Len(instances) : instances'[i].secrets = instances[i].secrets
<1>0. instances \in Seq(Instance) /\ instances' \in Seq(Instance)
  BY DEF TypeOK, Instance
<1>1. /\ Len(instances) \in Nat /\ instances \in Seq(Instance) /\ instances' \in Seq(Instance)
      /\ instances' = [i \in 1..Len(instances) |-> [instances[i] EXCEPT !.mu = NoCall]]
  BY <1>0 DEF Restart
<1>2. ASSUME NEW i \in 1..Len(instances)
      PROVE  instances'[i].secrets = instances[i].secrets
  <2>1. instances[i] \in Instance
    BY <1>1
  <2>2. [instances[i] EXCEPT !.mu = NoCall].secrets = instances[i].secrets
    BY <2>1 DEF Instance
  <2> QED BY <1>1, <2>2
<1>3. DOMAIN instances' = 1..Len(instances)
  BY <1>1
<1> QED BY <1>1, <1>2, <1>3

LEMMA SoundKept == TypeOK /\ AllSound /\ [Next]_vars => AllSound'
<1> SUFFICES ASSUME TypeOK, AllSound, [Next]_vars PROVE AllSound'
  OBVIOUS
<1>1. TypeOK' /\ UNCHANGED kind /\ Len(owner) \in Nat /\ Len(owner') \in Nat
      /\ Len(owner) <= Len(owner')
  BY StepTyped, OwnersKept
<1>2. \A s : Sound(owner, s) => Sound(owner', s)
  BY <1>1 DEF Sound
<1>3. admin.grant \in 0..Len(owner')
  BY <1>1 DEF AllSound
<1>4. ASSUME NEW c \in Call, CallStep(c) PROVE AllSound'
  <2>1. /\ Others(c) /\ admin' = admin
        /\ kind = "123pan" => spent' = {}
    BY <1>4, CallShape DEF AllSound, Reads, Builds, Takes, Releases, Begins, SameOwners,
                           RefreshAnswered, RefreshLost, Serves
  <2>2. CASE Reads(c) \/ Takes(c) \/ Begins(c) \/ RefreshLost(c)
    <3>1. /\ stored' = stored /\ Len(instances') = Len(instances)
          /\ \A i \in 1..Len(instances) : instances'[i].secrets = instances[i].secrets
      <4>1. stored' = stored
        BY <2>2 DEF Reads, Takes, Begins, RefreshLost
      <4>2. ~Builds(c) \/ UNCHANGED instances
        BY <2>2 DEF Reads, Takes, Begins, RefreshLost, Builds, Holding
      <4> QED BY <2>2, <4>1, <4>2, InstanceKept
    <3>2. call'[c].read \subseteq call[c].read \cup {stored}
      BY <2>2 DEF Reads, Takes, Begins, RefreshLost, TypeOK, CallType
    <3> QED BY <1>1, <1>2, <1>3, <2>1, <3>1, <3>2 DEF AllSound, Others
  <2>3. CASE Builds(c)
    <3>1. PICK read \in call[c].read :
                 instances' = Append(instances, [secrets |-> read, mu |-> NoCall])
      BY <2>3 DEF Builds
    <3>2. \A i \in 1..Len(instances') :
            \/ instances'[i].secrets = read
            \/ i \in 1..Len(instances) /\ instances'[i] = instances[i]
      BY <3>1 DEF TypeOK
    <3> QED BY <1>1, <1>2, <1>3, <2>1, <2>3, <3>1, <3>2 DEF AllSound, Builds, Others
  <2>4. CASE Releases(c)
    <3>1. /\ Len(instances') = Len(instances) /\ call'[c].read \subseteq call[c].read
          /\ \A i \in 1..Len(instances) : instances'[i].secrets = instances[i].secrets
      BY <2>4, UnlockShape DEF Releases
    <3>2. Sound(owner, stored')
      <4>1. CASE stored' = Written(c)
        <5>1. Sound(owner, Secrets(c))
          BY <2>4, HasInstance DEF AllSound, Secrets, Releases, Holding
        <5>2. /\ Written(c).refresh = Secrets(c).refresh
              /\ Written(c).access = Secrets(c).access
          BY <2>4, WrittenAs DEF Releases
        <5> QED BY <4>1, <5>1, <5>2 DEF Sound
      <4> QED BY <2>4, <4>1 DEF Releases, AllSound
    <3> QED BY <1>1, <1>2, <1>3, <2>1, <3>1, <3>2 DEF AllSound, Others
  <2>5. CASE RefreshAnswered(c)
    <3>1. /\ stored' = stored /\ Len(instances') = Len(instances)
          /\ \A i \in 1..Len(instances) :
               i # call[c].inst => instances'[i].secrets = instances[i].secrets
          /\ instances'[call[c].inst].secrets = Granted(Secrets(c).client, Len(owner) + 1)
          /\ call'[c].read = call[c].read
      BY <2>5, AnswerShape DEF TypeOK, CallType
    <3>2. Len(owner') = Len(owner) + 1 /\ Secrets(c).client \in Client
      BY <2>5, ServedTyped, HasInstance DEF RefreshAnswered, Serves, SecretsType
    <3>3. Sound(owner', Granted(Secrets(c).client, Len(owner) + 1))
      BY <1>1, <3>2, GrantedSound
    <3> QED BY <1>1, <1>2, <1>3, <2>1, <3>1, <3>3 DEF AllSound, Others
  <2> QED BY <1>4, <2>2, <2>3, <2>4, <2>5, CallShape
<1>5. ASSUME UNCHANGED instances, kind = "123pan" => spent' = spent, Sound(owner', stored'),
             admin'.grant \in 0..Len(owner'), UNCHANGED call
      PROVE  AllSound'
  BY <1>1, <1>2, <1>5 DEF AllSound
<1>6. CASE Authorize \/ ImportStored
  <2>1. Len(owner') = Len(owner) + 1 /\ admin'.grant \in {admin.grant, Len(owner) + 1}
    BY <1>1, <1>6 DEF Authorize, ImportStored, TypeOK, SecretsType
  <2>2. /\ UNCHANGED <<instances, stored, call>> /\ admin'.grant \in 0..Len(owner')
        /\ kind = "123pan" => spent' = spent
    BY <1>1, <1>3, <1>6, <2>1 DEF Authorize, ImportStored
  <2>3. Sound(owner', stored')
    BY <1>2, <2>2 DEF AllSound
  <2> QED BY <1>5, <2>2, <2>3
<1>12. CASE StoreFails
  <2>1. UNCHANGED <<instances, spent, stored, call, owner>> /\ admin'.grant = admin.grant
    BY <1>12 DEF StoreFails, service, TypeOK, AdminType
  <2> QED BY <1>2, <1>3, <1>5, <2>1 DEF AllSound
<1>7. CASE StoreGrant
  <2>1. /\ UNCHANGED <<instances, spent, call, owner>> /\ admin'.grant = admin.grant
        /\ stored' \in {stored, Granted(admin.client, admin.grant)}
    BY <1>7 DEF StoreGrant, service, TypeOK, AdminType
  <2>2. Sound(owner, stored')
    <3>1. Sound(owner, Granted(admin.client, admin.grant))
      BY <1>1 DEF AllSound, Sound, Granted
    <3> QED BY <2>1, <3>1 DEF AllSound
  <2> QED BY <1>2, <1>3, <1>5, <2>1, <2>2
<1>8. ASSUME NEW k \in Client, ChangeClient(k) PROVE AllSound'
  BY <1>1, <1>3, <1>5, <1>8 DEF ChangeClient, service, Sound
<1>9. CASE UNCHANGED <<stored, call, instances, admin, owner, spent>>
  BY <1>2, <1>3, <1>5, <1>9 DEF AllSound
<1>10. CASE Restart
  <2>1. /\ UNCHANGED <<stored, owner, spent>> /\ admin'.grant = admin.grant
        /\ \A c \in Call : call'[c].read = {}
    BY <1>10 DEF Restart, Idle, TypeOK, AdminType, service
  <2>2. /\ Len(instances') = Len(instances)
        /\ \A i \in 1..Len(instances) : instances'[i].secrets = instances[i].secrets
    BY <1>1, <1>10, RestartKeeps
  <2> QED BY <1>1, <1>2, <1>3, <2>1, <2>2 DEF AllSound
<1>11. \/ \E c \in Call : CallStep(c)
       \/ Authorize \/ ImportStored \/ StoreGrant \/ StoreFails \/ Restart
       \/ \E k \in Client : ChangeClient(k)
       \/ UNCHANGED <<stored, call, instances, admin, owner, spent>>
  BY DEF Next, vars, InvalidateStored, EditProvider, Lapse, Revoke, service
<1> QED BY <1>4, <1>6, <1>7, <1>8, <1>9, <1>10, <1>11, <1>12

\* A call that has an answer to write back.
Pending(c) == call[c].pc \in {"persisting", "writing"}

\* Refresh token t works, and only instance i has it, if any.
OnlyIn(t, i) ==
  /\ t \in 1..Len(owner) \ spent
  /\ stored.refresh # t
  /\ \A c \in Call : \A s \in call[c].read : s.refresh # t
  /\ \A j \in 1..Len(instances) : j # i => instances[j].secrets.refresh # t

\* What a call has to write back, and what an authorization was granted, is
\* known to nobody else yet.
NewTokens ==
  /\ \A c \in Call : Pending(c) =>
       /\ OnlyIn(Secrets(c).refresh, call[c].inst)
       /\ admin.pc # "idle" => admin.grant # Secrets(c).refresh
  /\ admin.pc # "idle" => OnlyIn(admin.grant, 0)

\* An import has a successor of the stored token for the client in the database.
Renewed == admin.pc = "renewed" /\ admin.client = stored.client

\* If the token in the database has been used, its successor is being written
\* back by an import or by a call, and will not find another client there.
Provided ==
  ~troubled /\ stored.refresh \in spent =>
    Renewed \/ \E c \in Call : Pending(c) /\ PersistAllowed(c)

SupplyInv ==
  /\ OwnInv /\ FreshInv /\ AllSound
  /\ kind # "123pan" => NewTokens
  /\ Provided

\* Two calls that refresh do so with instances of their own.
LEMMA HeldApart ==
  ASSUME FreshInv, NEW c \in Call, NEW d \in Call, c # d,
         call[c].pc \in Holding, call[d].pc \in Holding
  PROVE  call[c].inst # call[d].inst
BY DEF FreshInv, Held

\* The step of a call leaves what another writes back alone.
LEMMA OthersSecrets ==
  ASSUME FreshInv, NEW c \in Call, CallStep(c), NEW d \in Call, d # c, call[d].pc \in Holding
  PROVE  /\ call'[d] = call[d] /\ Secrets(d)' = Secrets(d)
         /\ call[d].inst \in 1..Len(instances)
<1>1. TypeOK /\ Others(c) /\ call[d].inst \in 1..Len(instances)
  BY CallShape, HasInstance DEF FreshInv, Holding
<1>2. CASE RefreshAnswered(c)
  <2>1. call[c].inst # call[d].inst
    BY <1>2, HeldApart DEF RefreshAnswered, Serves, Holding
  <2> QED BY <1>1, <1>2, <2>1, AnswerShape DEF Others, Secrets
<1>3. CASE Reads(c) \/ Builds(c) \/ Takes(c) \/ Releases(c) \/ Begins(c) \/ RefreshLost(c)
  <2>1. \A i \in 1..Len(instances) : instances'[i].secrets = instances[i].secrets
    BY <1>1, <1>3, InstanceKept
  <2> QED BY <1>1, <2>1 DEF Others, Secrets
<1> QED BY <1>1, <1>2, <1>3, CallShape

\* A call spreads and spends no token but that of the instance it holds.
LEMMA OnlyInCall ==
  ASSUME FreshInv, kind # "123pan", NEW c \in Call, CallStep(c), NEW t, NEW i, OnlyIn(t, i),
         call[c].pc \in Holding => Secrets(c).refresh # t
  PROVE  OnlyIn(t, i)'
<1>1. /\ TypeOK /\ TypeOK' /\ Others(c) /\ Len(owner) \in Nat /\ Len(owner') \in Nat
      /\ Len(owner) <= Len(owner') /\ t \in 1..Len(owner')
  <2>1. TypeOK /\ TypeOK' /\ Others(c)
    BY CallShape, StepTyped DEF FreshInv, Next
  <2>2. Len(owner) \in Nat /\ Len(owner') \in Nat /\ Len(owner) <= Len(owner')
    BY <2>1, OwnersKept DEF Next
  <2> QED BY <2>1, <2>2 DEF OnlyIn
<1>2. CASE Reads(c) \/ Begins(c) \/ Takes(c)
  <2>1. /\ stored' = stored /\ Len(instances') = Len(instances) /\ spent' = spent
        /\ \A j \in 1..Len(instances) : instances'[j].secrets = instances[j].secrets
    <3>1. stored' = stored /\ spent' = spent
      BY <1>2 DEF Reads, Takes, Begins, SameOwners
    <3>2. ~Builds(c) \/ UNCHANGED instances
      BY <1>2 DEF Reads, Takes, Begins, Builds, Holding
    <3> QED BY <1>1, <1>2, <3>1, <3>2, InstanceKept
  <2>2. call'[c].read \subseteq call[c].read \cup {stored}
    BY <1>1, <1>2 DEF Reads, Takes, Begins, TypeOK, CallType
  <2> QED BY <1>1, <2>1, <2>2 DEF OnlyIn, Others
<1>3. CASE Builds(c)
  <2>1. PICK read \in call[c].read :
               instances' = Append(instances, [secrets |-> read, mu |-> NoCall])
    BY <1>3 DEF Builds
  <2>2. \A j \in 1..Len(instances') :
          \/ instances'[j].secrets = read
          \/ j \in 1..Len(instances) /\ instances'[j] = instances[j]
    BY <1>1, <2>1 DEF TypeOK
  <2>3. /\ stored' = stored /\ spent' = spent /\ call'[c].read = {}
    BY <1>3 DEF Builds, SameOwners
  <2> QED BY <1>1, <2>1, <2>2, <2>3 DEF OnlyIn, Others
<1>4. CASE Releases(c)
  <2>1. /\ Len(instances') = Len(instances) /\ call'[c].read \subseteq call[c].read
        /\ \A j \in 1..Len(instances) : instances'[j].secrets = instances[j].secrets
        /\ spent' = spent /\ call[c].pc \in Holding
    BY <1>1, <1>4, UnlockShape DEF Releases, SameOwners
  <2>2. stored'.refresh # t
    <3>1. stored' \in {stored, Written(c)}
      BY <1>4 DEF Releases
    <3>2. Written(c).refresh # t
      BY <1>1, <2>1, WrittenAs
    <3> QED BY <3>1, <3>2 DEF OnlyIn
  <2> QED BY <1>1, <2>1, <2>2 DEF OnlyIn, Others
<1>5. ASSUME Serves(c) PROVE spent' = spent \cup {call[c].refresh} /\ call[c].refresh # t
  <2>1. call[c].pc = "refreshing" /\ call[c].refresh = Secrets(c).refresh
    BY <1>5 DEF Serves, FreshInv, Presents
  <2> QED BY <1>5, <2>1 DEF Serves, Holding
<1>6. CASE RefreshAnswered(c)
  <2>1. /\ stored' = stored /\ Len(instances') = Len(instances)
        /\ \A j \in 1..Len(instances) :
             j # call[c].inst => instances'[j].secrets = instances[j].secrets
        /\ instances'[call[c].inst].secrets = Granted(Secrets(c).client, Len(owner) + 1)
        /\ call'[c].read = call[c].read
    BY <1>1, <1>6, AnswerShape DEF TypeOK, CallType
  <2>2. Granted(Secrets(c).client, Len(owner) + 1).refresh # t
    BY <1>1 DEF Granted, OnlyIn
  <2>3. spent' = spent \cup {call[c].refresh} /\ call[c].refresh # t
    BY <1>5, <1>6 DEF RefreshAnswered
  <2> QED BY <1>1, <2>1, <2>2, <2>3 DEF OnlyIn, Others
<1>7. CASE RefreshLost(c)
  <2>1. UNCHANGED <<stored, instances, call>>
    BY <1>7 DEF RefreshLost
  <2>2. spent' = spent \cup {call[c].refresh} /\ call[c].refresh # t
    BY <1>5, <1>7 DEF RefreshLost
  <2> QED BY <1>1, <2>1, <2>2 DEF OnlyIn
<1> QED BY <1>1, <1>2, <1>3, <1>4, <1>6, <1>7, CallShape

\* What a call leaves pending: its own new token, or one that was before.
LEMMA NewTokensCall ==
  ASSUME FreshInv, AllSound, kind # "123pan", NewTokens, NEW c \in Call, CallStep(c)
  PROVE  NewTokens'
<1>1. /\ TypeOK /\ TypeOK' /\ Others(c) /\ admin' = admin /\ Len(owner) \in Nat
      /\ Len(owner') \in Nat /\ Len(owner) <= Len(owner')
  <2>1. TypeOK /\ TypeOK' /\ Others(c) /\ admin' = admin
    BY CallShape, StepTyped DEF FreshInv, Next
  <2>2. Len(owner) \in Nat /\ Len(owner') \in Nat /\ Len(owner) <= Len(owner')
    BY <2>1, OwnersKept DEF Next
  <2> QED BY <2>1, <2>2
<1>2. ASSUME NEW d \in Call, d # c, Pending(d)' 
      PROVE  /\ OnlyIn(Secrets(d).refresh, call[d].inst)'
             /\ admin'.pc # "idle" => admin'.grant # Secrets(d)'.refresh
  <2>1. call'[d] = call[d] /\ Pending(d) /\ call[d].pc \in Holding
    BY <1>1, <1>2 DEF Others, Pending, Holding
  <2>2. Secrets(d)' = Secrets(d) /\ call[d].inst \in 1..Len(instances)
    BY <1>2, <2>1, OthersSecrets
  <2>3. PICK t, i : t = Secrets(d).refresh /\ i = call[d].inst
    OBVIOUS
  <2>4. OnlyIn(t, i)
    BY <2>1, <2>3 DEF NewTokens
  <2>5. ASSUME call[c].pc \in Holding PROVE Secrets(c).refresh # t
    <3>1. call[c].inst # i /\ call[c].inst \in 1..Len(instances)
      BY <1>1, <1>2, <2>1, <2>3, <2>5, HeldApart, HasInstance DEF Holding
    <3> QED BY <2>4, <3>1 DEF OnlyIn, Secrets
  <2>6. OnlyIn(t, i)'
    BY <2>4, <2>5, OnlyInCall
  <2>7. Secrets(d)'.refresh = t /\ call'[d].inst = i
    BY <2>1, <2>2, <2>3
  <2>8. OnlyIn(Secrets(d).refresh, call[d].inst)'
    BY <2>6, <2>7 DEF OnlyIn
  <2> QED BY <1>1, <2>1, <2>2, <2>8 DEF NewTokens
<1>3. ASSUME Pending(c)'
      PROVE  /\ OnlyIn(Secrets(c).refresh, call[c].inst)'
             /\ admin'.pc # "idle" => admin'.grant # Secrets(c)'.refresh
  <2>1. CASE RefreshAnswered(c)
    <3>1. /\ stored' = stored /\ Len(instances') = Len(instances)
          /\ call[c].inst \in 1..Len(instances)
          /\ \A j \in 1..Len(instances) :
               j # call[c].inst => instances'[j].secrets = instances[j].secrets
          /\ instances'[call[c].inst].secrets = Granted(Secrets(c).client, Len(owner) + 1)
          /\ call'[c].read = call[c].read /\ call'[c].inst = call[c].inst
      BY <1>1, <2>1, AnswerShape DEF TypeOK, CallType
    <3>2. /\ Len(owner') = Len(owner) + 1 /\ call[c].refresh \in 1..Len(owner)
          /\ spent' = spent \cup {call[c].refresh} /\ spent \subseteq 1..Len(owner)
      BY <1>1, <2>1, ServedTyped DEF RefreshAnswered, Serves, TypeOK
    <3>3. Secrets(c)'.refresh = Len(owner) + 1
      BY <3>1 DEF Secrets, Granted
    <3>4. Len(owner) + 1 \in 1..Len(owner') \ spent'
      BY <1>1, <3>2
    <3>5. /\ \A d \in Call : \A s \in call'[d].read : s.refresh # Len(owner) + 1
          /\ stored'.refresh # Len(owner) + 1
          /\ \A j \in 1..Len(instances') :
               j # call[c].inst => instances'[j].secrets.refresh # Len(owner) + 1
      <4>1. \A s : Sound(owner, s) => s.refresh # Len(owner) + 1
        BY <1>1 DEF Sound
      <4> QED BY <1>1, <3>1, <4>1 DEF AllSound, Others
    <3>6. OnlyIn(Secrets(c).refresh, call[c].inst)'
      BY <3>1, <3>3, <3>4, <3>5 DEF OnlyIn
    <3>7. admin'.grant # Len(owner) + 1
      BY <1>1 DEF AllSound
    <3> QED BY <3>3, <3>6, <3>7
  <2>2. CASE Begins(c)
    <3>1. /\ call'[c].inst = call[c].inst /\ call'[c].read = call[c].read /\ Pending(c)
          /\ UNCHANGED <<instances, stored, owner, spent>>
      BY <1>1, <2>2 DEF Begins, Pending, SameOwners, TypeOK, CallType
    <3>2. Secrets(c)' = Secrets(c)
      BY <3>1 DEF Secrets
    <3> QED BY <1>1, <3>1, <3>2 DEF NewTokens, OnlyIn, Others
  <2>3. CASE RefreshLost(c)
    BY <1>3, <2>3 DEF RefreshLost, Serves, Pending
  <2> QED BY <1>1, <1>3, <2>1, <2>2, <2>3, CallShape
          DEF Pending, Reads, Builds, Takes, Releases, Holding
<1>4. ASSUME admin'.pc # "idle" PROVE OnlyIn(admin.grant, 0)'
  <2>1. PICK t : t = admin.grant
    OBVIOUS
  <2>2. OnlyIn(t, 0)
    BY <1>1, <1>4, <2>1 DEF NewTokens
  <2>3. ASSUME call[c].pc \in Holding PROVE Secrets(c).refresh # t
    <3>1. call[c].inst \in 1..Len(instances)
      BY <1>1, <2>3, HasInstance DEF Holding
    <3> QED BY <2>2, <3>1 DEF OnlyIn, Secrets
  <2>4. OnlyIn(t, 0)'
    BY <2>2, <2>3, OnlyInCall
  <2> QED BY <1>1, <2>1, <2>4
<1> QED BY <1>2, <1>3, <1>4 DEF NewTokens

\* A successor stays pending until it is written, unless it is lost.
LEMMA ProvidedCall ==
  ASSUME SupplyInv, NEW c \in Call, CallStep(c)
  PROVE  Provided'
<1>1. /\ TypeOK /\ TypeOK' /\ UNCHANGED kind /\ FreshInv /\ OwnInv /\ Provided /\ AllSound
      /\ kind # "123pan" => NewTokens
      /\ Others(c)
  <2>1. TypeOK /\ Others(c) /\ UNCHANGED kind
    BY CallShape DEF SupplyInv, FreshInv
  <2> QED BY <2>1, StepTyped DEF SupplyInv, Next
<1>2. SUFFICES ASSUME ~troubled', stored'.refresh \in spent', ~Renewed'
               PROVE  (\E d \in Call : Pending(d) /\ PersistAllowed(d))'
  BY DEF Provided
<1>3. ~troubled
  BY <1>2 DEF CallStep, LoadSecrets, BuildProvider, EnsureAccessToken, DoAPI, BeginRefresh,
     RefreshAnswered, RefreshLost, RefreshFails, PersistCheck, ReplaceTokens, history
<1>10. stored' = stored => ~Renewed
  BY <1>2 DEF Renewed, CallStep, LoadSecrets, BuildProvider, EnsureAccessToken, DoAPI, BeginRefresh,
     RefreshAnswered, RefreshLost, RefreshFails, PersistCheck, ReplaceTokens
<1>4. ASSUME NEW d \in Call, d # c, Pending(d), PersistAllowed(d), stored'.client = stored.client
      PROVE  (\E e \in Call : Pending(e) /\ PersistAllowed(e))'
  <2>1. call'[d] = call[d] /\ Secrets(d)' = Secrets(d)
    BY <1>1, <1>4, OthersSecrets DEF Pending, Holding
  <2>2. Pending(d)' /\ PersistAllowed(d)'
    BY <1>1, <1>4, <2>1 DEF Pending, PersistAllowed
  <2> QED BY <2>2
<1>5. CASE Reads(c) \/ Builds(c) \/ Takes(c)
  <2>1. UNCHANGED <<stored, spent>> /\ call[c].pc \notin Holding
    BY <1>5 DEF Reads, Builds, Takes, SameOwners
  <2>2. PICK d \in Call : Pending(d) /\ PersistAllowed(d)
    BY <1>1, <1>2, <1>3, <1>10, <2>1 DEF Provided
  <2> QED BY <1>4, <2>1, <2>2 DEF Pending, Holding
<1>6. CASE Releases(c)
  <2>1. UNCHANGED spent
    BY <1>6 DEF Releases, SameOwners
  <2>2. CASE UNCHANGED stored /\ call[c].pc # "writing"
    <3>1. PICK d \in Call : Pending(d) /\ PersistAllowed(d)
      BY <1>1, <1>2, <1>3, <1>10, <2>1, <2>2 DEF Provided
    <3>2. d # c
      BY <1>6, <2>2, <3>1 DEF Releases, Pending
    <3> QED BY <1>4, <2>2, <3>1, <3>2
  <2>3. CASE stored' = Written(c) /\ call[c].pc = "writing"
    <3>1. stored'.refresh = Secrets(c).refresh
      BY <1>1, <2>3, WrittenAs DEF Holding
    <3>2. CASE kind # "123pan"
      <4>1. OnlyIn(Secrets(c).refresh, call[c].inst)
        BY <1>1, <2>3, <3>2 DEF NewTokens, Pending
      <4> QED BY <1>2, <2>1, <3>1, <4>1 DEF OnlyIn
    <3>3. CASE kind = "123pan"
      BY <1>1, <1>2, <2>1, <3>3 DEF AllSound
    <3> QED BY <3>2, <3>3
  <2> QED BY <1>2, <1>6, <2>2, <2>3 DEF Releases
<1>7. CASE Begins(c)
  <2>1. /\ UNCHANGED <<instances, stored, spent>> /\ call'[c].pc = "writing"
        /\ call'[c].inst = call[c].inst
    BY <1>1, <1>7 DEF Begins, SameOwners, TypeOK, CallType
  <2>2. Pending(c)' /\ PersistAllowed(c)'
    BY <1>1, <1>7, <2>1 DEF Begins, Pending, PersistAllowed, Secrets
  <2> QED BY <2>2
<1>8. CASE RefreshAnswered(c)
  <2>1. /\ stored' = stored /\ call[c].pc = "refreshing"
        /\ call'[c].pc = "persisting" /\ call'[c].inst = call[c].inst
        /\ instances'[call[c].inst].secrets = Granted(Secrets(c).client, Len(owner) + 1)
    BY <1>1, <1>8, AnswerShape DEF TypeOK, CallType
  <2>2. CASE stored.refresh \in spent
    <3>1. PICK d \in Call : Pending(d) /\ PersistAllowed(d)
      BY <1>1, <1>3, <1>10, <2>1, <2>2 DEF Provided
    <3> QED BY <1>4, <2>1, <3>1 DEF Pending
  <2>3. CASE stored.refresh \notin spent
    <3>1. /\ kind # "123pan" /\ call[c].refresh = stored.refresh
          /\ stored.refresh \in 1..Len(owner) /\ owner[stored.refresh] = Secrets(c).client
      BY <1>2, <1>8, <2>1, <2>3 DEF RefreshAnswered, Serves
    <3>2. Secrets(c)'.client = Secrets(c).client
      BY <2>1 DEF Secrets, Granted
    <3>3. PersistAllowed(c)'
      <4>1. CASE kind = "115open"
        BY <1>1, <4>1 DEF PersistAllowed
      <4>2. CASE kind # "115open"
        <5>1. Owned(owner, stored) /\ stored.refresh \in {0, stored.access}
          BY <1>1, <4>2 DEF OwnInv, AllOwned, AllSound, Sound
        <5>2. owner[stored.refresh] = stored.client
          BY <1>1, <3>1, <5>1, OwnersKept DEF Owned, Next
        <5> QED BY <1>1, <2>1, <3>1, <3>2, <5>2 DEF PersistAllowed
      <4> QED BY <4>1, <4>2
    <3> QED BY <2>1, <3>3 DEF Pending
  <2> QED BY <2>2, <2>3
<1>9. CASE RefreshLost(c)
  BY <1>2, <1>9 DEF RefreshLost
<1> QED BY <1>1, <1>5, <1>6, <1>7, <1>8, <1>9, CallShape

\* The rest keeps the supply of tokens: a granted authorization is stored once,
\* another client comes without tokens, and a restart loses what is pending.
LEMMA SupplyKept == SupplyInv /\ [Next]_vars => SupplyInv'
<1> SUFFICES ASSUME SupplyInv, [Next]_vars PROVE SupplyInv'
  OBVIOUS
<1>1. /\ OwnInv' /\ FreshInv' /\ AllSound' /\ TypeOK /\ TypeOK' /\ UNCHANGED kind
      /\ FreshInv /\ AllSound
  <2>1. OwnInv' /\ FreshInv' /\ TypeOK
    BY OwnKept, FreshKept DEF SupplyInv, FreshInv
  <2> QED BY <2>1, SoundKept, OwnersKept DEF SupplyInv, FreshInv
<1> SUFFICES (kind # "123pan" => NewTokens') /\ Provided'
  BY <1>1 DEF SupplyInv
<1>2. ASSUME NEW c \in Call, CallStep(c) PROVE (kind # "123pan" => NewTokens') /\ Provided'
  BY <1>1, <1>2, NewTokensCall, ProvidedCall DEF SupplyInv
<1>3. /\ kind # "123pan" => NewTokens
      /\ Provided
      /\ Len(owner) \in Nat /\ spent \subseteq 1..Len(owner)
  BY <1>1 DEF SupplyInv, TypeOK
<1>4. CASE Authorize \/ ImportStored
  <2>1. /\ UNCHANGED <<stored, instances, call>> /\ Len(owner') = Len(owner) + 1
        /\ admin.pc = "idle" /\ kind # "123pan" /\ spent' \subseteq spent \cup {stored.refresh}
        /\ admin' # admin => admin'.grant = Len(owner) + 1
    BY <1>1, <1>3, <1>4 DEF Authorize, ImportStored, TypeOK, SecretsType, service
  <2>2. \A s : Sound(owner, s) => s.refresh # Len(owner) + 1
    BY <1>3 DEF Sound
  <2>3. ASSUME admin' # admin PROVE OnlyIn(admin.grant, 0)'
    BY <1>1, <1>3, <2>1, <2>2, <2>3 DEF OnlyIn, AllSound
  <2>4. ASSUME NEW c \in Call, Pending(c)
        PROVE  /\ OnlyIn(Secrets(c).refresh, call[c].inst)'
               /\ Secrets(c).refresh # Len(owner) + 1
    <3>1. OnlyIn(Secrets(c).refresh, call[c].inst)
      BY <1>3, <2>1, <2>4 DEF NewTokens
    <3> QED BY <1>3, <2>1, <3>1 DEF OnlyIn, Secrets
  <2>5. NewTokens'
    BY <2>1, <2>3, <2>4 DEF NewTokens, Pending, Secrets
  <2>6. CASE UNCHANGED <<spent, troubled>>
    <3>1. ~Renewed
      BY <2>1 DEF Renewed
    <3>2. Provided'
      BY <1>1, <1>3, <2>1, <2>6, <3>1 DEF Provided, Pending, PersistAllowed, Secrets
    <3> QED BY <2>5, <3>2
  <2>7. CASE ImportStored
    <3>1. troubled' \/ Renewed'
      BY <2>7 DEF ImportStored, Renewed
    <3> QED BY <2>5, <3>1 DEF Provided
  <2> QED BY <1>4, <2>6, <2>7 DEF Authorize, history
<1>10. CASE StoreFails
  <2>1. /\ UNCHANGED <<stored, instances, call, spent, owner>> /\ admin'.pc = "idle"
        /\ troubled' = (troubled \/ admin.pc = "renewed")
    BY <1>1, <1>10 DEF StoreFails, service, TypeOK, AdminType
  <2>2. kind # "123pan" => NewTokens'
    BY <1>3, <2>1 DEF NewTokens, OnlyIn, Pending, Secrets
  <2>3. Provided'
    BY <1>1, <1>3, <2>1 DEF Provided, Renewed, Pending, PersistAllowed, Secrets
  <2> QED BY <2>2, <2>3
<1>5. CASE StoreGrant
  <2>1. /\ UNCHANGED <<instances, call, spent, troubled, owner>>
        /\ admin'.pc = "idle" /\ admin.pc # "idle"
        /\ \/ stored' = stored /\ stored.client # admin.client
           \/ stored' = Granted(admin.client, admin.grant) /\ stored.client = admin.client
    BY <1>1, <1>5 DEF StoreGrant, service, history, TypeOK, AdminType
  <2>2. CASE stored' = stored /\ stored.client # admin.client
    BY <1>1, <1>3, <2>1, <2>2
       DEF NewTokens, OnlyIn, Provided, Renewed, Pending, PersistAllowed, Secrets
  <2>3. CASE stored' = Granted(admin.client, admin.grant)
    <3>1. stored'.refresh \in {0, admin.grant} /\ (kind # "123pan" => stored'.refresh = admin.grant)
      BY <2>3 DEF Granted
    <3>2. stored'.refresh \notin spent'
      <4>1. CASE kind = "123pan"
        BY <1>1, <2>1, <4>1 DEF AllSound
      <4>2. CASE kind # "123pan"
        BY <1>3, <2>1, <3>1, <4>2 DEF NewTokens, OnlyIn
      <4> QED BY <4>1, <4>2
    <3>3. kind # "123pan" => NewTokens'
      BY <1>3, <2>1, <3>1 DEF NewTokens, OnlyIn, Pending, Secrets
    <3> QED BY <3>2, <3>3 DEF Provided
  <2> QED BY <2>1, <2>2, <2>3
<1>6. ASSUME NEW k \in Client, ChangeClient(k)
      PROVE  (kind # "123pan" => NewTokens') /\ Provided'
  <2>1. /\ UNCHANGED <<instances, call, spent, troubled, owner, admin>>
        /\ stored'.refresh = 0
    BY <1>6 DEF ChangeClient, service
  <2>2. stored'.refresh \notin spent'
    BY <1>3, <2>1
  <2>3. kind # "123pan" => NewTokens'
    BY <1>3, <2>1 DEF NewTokens, OnlyIn, Pending, Secrets
  <2> QED BY <2>2, <2>3 DEF Provided
<1>7. CASE Restart
  <2>1. /\ stored' = stored /\ spent' = spent /\ admin'.pc = "idle"
        /\ \A c \in Call : call'[c].pc = "idle"
        /\ troubled' = (troubled \/ admin.pc = "renewed" \/ \E c \in Call : Pending(c))
    BY <1>1, <1>7 DEF Restart, Idle, service, TypeOK, AdminType, Pending
  <2>2. NewTokens'
    BY <2>1 DEF NewTokens, Pending
  <2>3. Provided'
    BY <1>3, <2>1 DEF Provided, Renewed
  <2> QED BY <2>2, <2>3
<1>8. CASE UNCHANGED <<stored, call, instances, admin, owner, spent, troubled>>
  BY <1>1, <1>3, <1>8 DEF NewTokens, OnlyIn, Provided, Renewed, Pending, PersistAllowed, Secrets
<1>9. \/ \E c \in Call : CallStep(c)
      \/ Authorize \/ ImportStored \/ StoreGrant \/ StoreFails \/ Restart
      \/ \E k \in Client : ChangeClient(k)
      \/ UNCHANGED <<stored, call, instances, admin, owner, spent, troubled>>
  BY DEF Next, vars, InvalidateStored, EditProvider, Lapse, Revoke, service, history
<1> QED BY <1>2, <1>4, <1>5, <1>6, <1>7, <1>8, <1>9, <1>10

\* SupplyInv is an invariant.
THEOREM SupplyInOrder == Spec => []SupplyInv
<1>1. Init => SupplyInv
  <2> SUFFICES ASSUME Init PROVE SupplyInv
    OBVIOUS
  <2>1. PICK k \in Client : owner = <<k>> /\ stored = Granted(k, 1)
    BY DEF Init
  <2>2. 1 \in Token /\ Len(owner) = 1
    BY <2>1, TokenAssumption DEF Token
  <2>3. Owned(owner, stored) /\ Sound(owner, stored)
    BY <2>1, <2>2, GrantedTyped, GrantedSound DEF Owned
  <2>4. /\ \A c \in Call : call[c].read = {} /\ call[c].pc = "idle"
        /\ Len(instances) = 0 /\ admin.grant = 0 /\ admin.pc = "idle"
        /\ answered = {} /\ spent = {}
    BY DEF Init, Idle
  <2>5. OwnInv
    BY <2>3, <2>4, InitTyped DEF OwnInv, AllOwned, Owned
  <2>6. FreshInv
    BY <2>4, InitTyped DEF FreshInv, Held, Presents, Unanswered, Holding
  <2>7. AllSound /\ NewTokens /\ Provided
    BY <2>2, <2>3, <2>4 DEF AllSound, NewTokens, Pending, Provided
  <2> QED BY <2>5, <2>6, <2>7 DEF SupplyInv
<1>2. SupplyInv /\ [Next]_vars => SupplyInv'
  BY SupplyKept
<1> QED BY <1>1, <1>2, PTL DEF Spec

\* At rest the refresh token in the database works, whatever refreshes,
\* authorizations and changes of the client overlapped; unless an answer, a
\* write or a process was lost (app.go:3486, :3531).
THEOREM StoredTokenWorks == Spec => []StoredUsable
<1>1. SupplyInv => StoredUsable
  BY DEF SupplyInv, Provided, Renewed, Pending, StoredUsable, AtRest, Resting
<1> QED BY <1>1, SupplyInOrder, PTL

-----------------------------------------------------------------------------
(* Why the cached instance agrees with the database *)

\* The cached instance has the secrets of the database or newer ones, which the
\* call that asked for them is writing back to the same client.
Agrees ==
  \/ instances[cached].secrets = stored
  \/ \E c \in Call : /\ Pending(c) /\ call[c].inst = cached
                     /\ instances[cached].secrets.client = stored.client

CacheInv ==
  /\ kind = "115open" => cached = 0
  /\ cached # 0 /\ ~troubled /\ ~overtaken /\ ~notice => Agrees

\* What the step of a call does to the cache.
LEMMA CacheShape ==
  ASSUME TypeOK, CacheInv, NEW c \in Call, CallStep(c)
  PROVE  /\ UNCHANGED notice /\ (troubled => troubled')
         /\ kind = "115open" => cached' = 0
         /\ kind # "115open" =>
              \/ UNCHANGED <<cached, overtaken>> /\ call[c].pc # "writing"
              \/ /\ cached' = Len(instances) + 1 /\ stored' = stored
                 /\ ~overtaken' =>
                      instances' = Append(instances, [secrets |-> stored, mu |-> NoCall])
              \/ /\ call[c].pc = "writing" /\ UNCHANGED cached
                 /\ overtaken' = (overtaken \/ cached \notin {0, call[c].inst})
<1>1. CASE \E read \in call[c].read : BuildProvider(c, read)
  <2>1. PICK read \in call[c].read : BuildProvider(c, read)
    BY <1>1
  <2>2. /\ call[c].pc = "building" /\ UNCHANGED <<notice, troubled>> /\ stored' = stored
        /\ kind = "115open" => ~Reusable(read)
    BY <2>1 DEF BuildProvider, Reusable
  <2>3. CASE Reusable(read)
    BY <2>1, <2>2, <2>3 DEF BuildProvider
  <2>4. CASE ~Reusable(read)
    <3>1. /\ instances' = Append(instances, [secrets |-> read, mu |-> NoCall])
          /\ kind = "115open" => cached' = 0
          /\ kind # "115open" => cached' = Len(instances) + 1 /\ (~overtaken' => read = stored)
      BY <2>1, <2>4 DEF BuildProvider
    <3> QED BY <2>2, <3>1
  <2> QED BY <2>3, <2>4
<1>2. CASE ReplaceTokens(c)
  BY <1>2 DEF ReplaceTokens, CacheInv
<1>3. CASE \/ LoadSecrets(c) \/ EnsureAccessToken(c) \/ DoAPI(c) \/ BeginRefresh(c)
           \/ RefreshAnswered(c) \/ RefreshLost(c) \/ RefreshFails(c) \/ PersistCheck(c)
  BY <1>3 DEF LoadSecrets, EnsureAccessToken, DoAPI, BeginRefresh, RefreshAnswered,
     RefreshLost, RefreshFails, PersistCheck, Serves, history, CacheInv
<1> QED BY <1>1, <1>2, <1>3 DEF CallStep

\* The step of a call keeps CacheInv.
LEMMA CacheCall ==
  ASSUME OwnInv, FreshInv, CacheInv, NEW c \in Call, CallStep(c)
  PROVE  CacheInv'
<1>1. TypeOK /\ TypeOK' /\ UNCHANGED kind /\ Others(c)
  BY CallShape, StepTyped DEF FreshInv, Next
<1>2. kind = "115open" => cached' = 0
  BY <1>1, CacheShape
<1>3. SUFFICES ASSUME kind # "115open", cached' # 0, ~troubled', ~overtaken', ~notice'
               PROVE  Agrees'
  BY <1>1, <1>2 DEF CacheInv
<1>4. ~troubled /\ ~notice
  BY <1>1, <1>3, CacheShape
<1>5. CASE /\ cached' = Len(instances) + 1 /\ stored' = stored
           /\ instances' = Append(instances, [secrets |-> stored, mu |-> NoCall])
  <2>1. instances'[cached'].secrets = stored
    BY <1>1, <1>5 DEF TypeOK
  <2> QED BY <1>5, <2>1 DEF Agrees
<1>6. CASE /\ call[c].pc = "writing" /\ UNCHANGED cached
           /\ overtaken' = (overtaken \/ cached \notin {0, call[c].inst})
  <2>1. cached = call[c].inst /\ call[c].inst \in 1..Len(instances)
    BY <1>1, <1>3, <1>6, HasInstance
  <2>2. Releases(c)
    BY <1>1, <1>6, CallShape DEF Reads, Builds, Takes, Begins, RefreshAnswered, RefreshLost,
       Serves, Holding
  <2>3. stored' = Written(c) /\ stored.client = Secrets(c).client
    BY <1>3, <1>6, <2>2 DEF Releases, OwnInv, AllOwned
  <2>4. stored' = Secrets(c)
    BY <1>1, <1>6, <2>3, WrittenAs DEF Holding
  <2>5. instances'[cached'].secrets = Secrets(c)
    BY <1>1, <1>6, <2>1, <2>2, UnlockShape DEF Releases, Secrets
  <2> QED BY <2>4, <2>5 DEF Agrees
<1>7. CASE UNCHANGED <<cached, overtaken>> /\ call[c].pc # "writing"
  <2>1. Agrees /\ cached \in 1..Len(instances)
    BY <1>1, <1>3, <1>4, <1>7 DEF CacheInv, TypeOK
  <2>2. stored' = stored
    BY <1>1, <1>7, CallShape, AnswerShape DEF Reads, Builds, Takes, Begins, Releases, RefreshLost
  <2>3. instances[cached].secrets.client = stored.client
    BY <2>1 DEF Agrees
  <2>4. CASE RefreshAnswered(c) /\ call[c].inst = cached
    <3>1. /\ call'[c].pc = "persisting" /\ call'[c].inst = cached
          /\ instances'[cached].secrets = Granted(Secrets(c).client, Len(owner) + 1)
      BY <1>1, <2>4, AnswerShape DEF TypeOK, CallType
    <3>2. instances'[cached].secrets.client = stored.client
      BY <2>3, <2>4, <3>1 DEF Secrets, Granted
    <3> QED BY <1>7, <2>2, <3>1, <3>2 DEF Agrees, Pending
  <2>5. CASE ~RefreshAnswered(c) \/ call[c].inst # cached
    <3>1. instances'[cached].secrets = instances[cached].secrets
      <4>1. CASE RefreshAnswered(c)
        BY <1>1, <2>1, <2>5, <4>1, AnswerShape
      <4>2. CASE ~RefreshAnswered(c)
        BY <1>1, <2>1, <4>2, CallShape, InstanceKept
      <4> QED BY <4>1, <4>2
    <3>2. ASSUME NEW d \in Call, Pending(d), call[d].inst = cached
          PROVE  Pending(d)' /\ call'[d].inst = cached
      <4>1. CASE d # c
        BY <1>1, <3>2, <4>1 DEF Others, Pending
      <4>2. CASE d = c
        <5>1. call[c].pc = "persisting" /\ PersistAllowed(c)
          BY <1>7, <2>3, <3>2, <4>2 DEF Pending, PersistAllowed, Secrets
        <5>2. Begins(c)
          BY <1>1, <5>1, CallShape DEF Reads, Builds, Takes, Releases, RefreshAnswered,
             RefreshLost, Serves, Holding
        <5> QED BY <1>1, <3>2, <4>2, <5>2 DEF Begins, Pending, TypeOK, CallType
      <4> QED BY <4>1, <4>2
    <3> QED BY <1>7, <2>1, <2>2, <3>1, <3>2 DEF Agrees
  <2> QED BY <2>4, <2>5
<1> QED BY <1>1, <1>3, <1>5, <1>6, <1>7, CacheShape

\* Whoever changes the secrets invalidates the cache, or is about to.
LEMMA CacheKept ==
  ASSUME OwnInv, FreshInv, CacheInv, [Next]_vars
  PROVE  CacheInv'
<1>1. TypeOK /\ UNCHANGED kind
  BY OwnersKept DEF FreshInv
<1>2. CASE InvalidateStored \/ EditProvider \/ Restart
  BY <1>2 DEF InvalidateStored, Invalidate, EditProvider, Restart, CacheInv
<1>3. ASSUME NEW k \in Client, ChangeClient(k) PROVE CacheInv'
  BY <1>3 DEF ChangeClient, CacheInv
<1>4. CASE UNCHANGED <<stored, instances, call, cached, overtaken, notice>> /\ (troubled => troubled')
  BY <1>1, <1>4 DEF CacheInv, Agrees, Pending
<1>5. CASE StoreGrant
  <2>1. CASE notice'
    BY <1>1, <1>5, <2>1 DEF StoreGrant, CacheInv
  <2>2. CASE ~notice'
    <3>1. UNCHANGED <<stored, instances, call, cached, troubled, overtaken>> /\ ~notice
      BY <1>5, <2>2 DEF StoreGrant, history
    <3> QED BY <1>1, <2>2, <3>1 DEF CacheInv, Agrees, Pending
  <2> QED BY <2>1, <2>2
<1>6. CASE ImportStored \/ StoreFails
  <2>1. UNCHANGED <<stored, instances, call, cached, overtaken, notice>>
    BY <1>6 DEF ImportStored, StoreFails
  <2>2. troubled => troubled'
    BY <1>6 DEF ImportStored, StoreFails
  <2> QED BY <1>4, <2>1, <2>2
<1> QED
  BY <1>2, <1>3, <1>4, <1>5, <1>6, CacheCall
  DEF Next, vars, history, Authorize, Lapse, Revoke

\* CacheInv is an invariant.
THEOREM CacheInOrder == Spec => []CacheInv
<1>1. Init => CacheInv
  BY DEF Init, CacheInv
<1>2. OwnInv /\ FreshInv /\ CacheInv /\ [Next]_vars => CacheInv'
  BY CacheKept
<1>3. SupplyInv => OwnInv /\ FreshInv
  BY DEF SupplyInv
<1> QED BY <1>1, <1>2, <1>3, SupplyInOrder, PTL DEF Spec

\* At rest the instance that later calls will use has the secrets of the
\* database: a change of the secrets invalidates it, and what it was answered
\* itself is written before its call is over (app.go:3406,
\* baiduopen_provider.go:10).
THEOREM CacheIsTrue == Spec => []CachedAgrees
<1>1. CacheInv => CachedAgrees
  BY DEF CacheInv, Agrees, Pending, CachedAgrees, AtRest, Resting
<1> QED BY <1>1, CacheInOrder, PTL

=============================================================================
