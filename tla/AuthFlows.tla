------------------------------ MODULE AuthFlows ------------------------------
(***************************************************************************)
(* How an administrator links a provider to a cloud account.               *)
(*                                                                         *)
(* 115open and 115cookie show a QR code; each status request asks 115 how  *)
(* far the user is, and the one that sees the confirmation fetches the     *)
(* tokens and stores them.  baiduopen sends the browser to Baidu, directly *)
(* or through a broker's relay, which calls back with a code to exchange;  *)
(* in the third mode the broker shows the tokens and the administrator     *)
(* imports them.  A flow lives in memory and is shared by the requests     *)
(* about it.  "client" is the client id, or the terminal of a 115cookie    *)
(* login; a grant (tokens or cookie) is named by the flow it came from.    *)
(***************************************************************************)
EXTENDS Integers, FiniteSets

CONSTANTS
  Kind,        \* the types of provider considered
  Mode,        \* the modes of baiduopen considered
  Flow,        \* authorizations
  Request,     \* requests under way at the same time
  Client,
  Imported,    \* names the tokens the administrator brings along
  NoGrant,
  MaxImports,  \* bound on imports and changes of the client
  MaxTroubles  \* bound on lost answers, failed writes and restarts

ASSUME AuthAssumption ==
  /\ Kind \subseteq {"115open", "115cookie", "baiduopen"}
  /\ Mode \subseteq {"official", "broker_relay", "broker_token_exchange"}
  /\ Imported \notin Flow /\ NoGrant \notin Flow /\ Imported # NoGrant
  /\ {MaxImports, MaxTroubles} \subseteq Nat

VARIABLES
  kind,
  stored,     \* provider_secrets: the client and the grant
  flow,       \* authFlows, cookieAuthFlows, baiduAuthFlows
  old,        \* flows last updated more than 30 minutes ago
  session,    \* the service: how far the user is
  request,    \* what each request does
  exchanges,  \* history: how often the code of a flow was presented
  kept,       \* history: flows whose grant reached the database
  lost,       \* history: flows with a grant of which a write failed
  overlapped, \* history: QR flows that two requests polled at the same time
  imports, troubles

history == <<exchanges, kept, lost, overlapped>>
vars == <<kind, stored, flow, old, session, request, history, imports, troubles>>

QR == kind \in {"115open", "115cookie"}
Modes == IF QR THEN {"qr"} ELSE Mode

Gone == [state |-> "gone", client |-> NoGrant, mode |-> "qr", late |-> FALSE]
Idle == [pc |-> "idle", flow |-> NoGrant, mode |-> "qr", client |-> NoGrant,
         status |-> "waiting", via |-> "state", says |-> "code"]

AtRest == \A r \in Request : request[r].pc = "idle"

\* Every variable keeps to its type, and a flow is processed by one callback,
\* unless a broker's late answer has put it back to pending.
TypeOK ==
  /\ kind \in Kind /\ stored \in [client : Client, grant : Flow \cup {Imported, NoGrant}]
  /\ \A f \in Flow :
       /\ flow[f].state \in {"gone", "pending", "scanned", "confirming", "authorized", "expired",
                             "cancelled", "error", "processing", "completed", "failed"}
       /\ flow[f].mode \in Modes \cup {"qr"} /\ flow[f].client \in Client \cup {NoGrant}
       /\ session[f] \in {"none", "waiting", "scanned", "confirmed", "cancelled", "expired"}
       /\ flow[f].state = "processing" /\ flow[f].mode # "broker_token_exchange" =>
            Cardinality({r \in Request : request[r].flow = f /\
              request[r].pc \in {"called", "loading", "exchanging", "storing",
                                 "finishing", "failing"}}) = 1
  /\ \A r \in Request : request[r].pc \in
       {"idle", "inserting", "asking", "noting", "exchanging", "storing", "storing rest",
        "finishing", "failing", "called", "loading", "importing", "persisting import"}
  /\ old \subseteq Flow /\ lost \subseteq Flow /\ kept \subseteq Flow

-----------------------------------------------------------------------------
(* Helpers *)

\* A flow that was not updated for 30 minutes is deleted.
Prune(flows) == [f \in Flow |-> IF f \in old THEN Gone ELSE flows[f]]

\* What a request that looks a flow up has in hand.
Present(f) == flow[f].state # "gone" /\ f \notin old

QRTerminal(state) == state \in {"authorized", "expired", "cancelled", "error"}

Goes(r, pc) == request' = [request EXCEPT ![r].pc = pc]
Ends(r) == request' = [request EXCEPT ![r] = Idle]

\* The update of a flow that may have been pruned in the meantime.
Update(f, state, late) ==
  /\ flow' = [flow EXCEPT ![f] = IF @.state = "gone" THEN @
                                 ELSE [@ EXCEPT !.state = state, !.late = late]]
  /\ old' = old \ {f}

SetState(f, state) == Update(f, state, flow[f].late)

Trouble == troubles < MaxTroubles /\ troubles' = troubles + 1
Import == imports < MaxImports /\ imports' = imports + 1

Init ==
  /\ kind \in Kind
  /\ stored \in [client : Client, grant : {NoGrant}]
  /\ flow = [f \in Flow |-> Gone] /\ old = {} /\ session = [f \in Flow |-> "none"]
  /\ request = [r \in Request |-> Idle]
  /\ exchanges = [f \in Flow |-> 0] /\ kept = {} /\ lost = {} /\ overlapped = {}
  /\ imports = 0 /\ troubles = 0

-----------------------------------------------------------------------------
(* Starting a flow *)

\* The service opens a session for a flow.
Opened(f) == session[f] = "none" /\ session' = [session EXCEPT ![f] = "waiting"]

\* 115open and 115cookie: the client id or terminal comes with the request, or
\* is the stored one; 115 opens a session with a QR code.
StartQR(r, f, client) ==
  /\ QR /\ request[r].pc = "idle" /\ Opened(f)
  /\ request' = [request EXCEPT ![r] =
       [Idle EXCEPT !.pc = "inserting", !.flow = f, !.client = client]]
  /\ UNCHANGED <<kind, stored, flow, old, history, imports, troubles>>

\* baiduopen: the stored client is read; the broker opens a session of its own.
StartBaidu(r, f, mode) ==
  /\ ~QR /\ request[r].pc = "idle" /\ Opened(f)
  /\ request' = [request EXCEPT ![r] =
       [Idle EXCEPT !.pc = "inserting", !.flow = f, !.mode = mode, !.client = stored.client]]
  /\ UNCHANGED <<kind, stored, flow, old, history, imports, troubles>>

Insert(r) ==
  LET q == request[r] IN
  /\ q.pc = "inserting" /\ Ends(r)
  /\ flow' = [Prune(flow) EXCEPT ![q.flow] =
       [state |-> "pending", client |-> q.client, mode |-> q.mode, late |-> FALSE]]
  /\ old' = {}
  /\ UNCHANGED <<kind, stored, session, history, imports, troubles>>

-----------------------------------------------------------------------------
(* Status requests of a QR flow *)

\* The flow is copied; unless it has ended, 115 is asked.
StatusQR(r, f) ==
  /\ QR /\ request[r].pc = "idle" /\ Present(f) /\ ~QRTerminal(flow[f].state)
  /\ flow' = Prune(flow) /\ old' = {}
  /\ request' = [request EXCEPT ![r] =
       [Idle EXCEPT !.pc = "asking", !.flow = f, !.client = flow[f].client]]
  /\ overlapped' = IF \E q \in Request : request[q].flow = f THEN overlapped \cup {f} ELSE overlapped
  /\ UNCHANGED <<kind, stored, session, exchanges, kept, lost, imports, troubles>>

Answered(r) ==
  /\ request' = [request EXCEPT ![r].pc = "noting", ![r].status = session[request[r].flow]]
  /\ UNCHANGED troubles

\* The answer may be a while on its way, or fail, which fails the flow.
AskQR(r) ==
  /\ QR /\ request[r].pc = "asking"
  /\ \/ Answered(r)
     \/ Trouble /\ Goes(r, "failing")
  /\ UNCHANGED <<kind, stored, flow, old, session, history, imports>>

\* The state a QR flow is given for an answer; an answer of 115open may say at
\* once that the code has expired, and how far the user is.
StateFor(status) ==
  [waiting |-> "pending", scanned |-> "scanned", confirmed |-> "confirming",
   cancelled |-> "cancelled", expired |-> "expired"][status]

\* Whatever the flow's state has become, it is overwritten.
NoteQR(r) ==
  LET q == request[r] IN
  /\ QR /\ q.pc = "noting"
  /\ \E state \in {StateFor(q.status)} \cup (IF kind = "115open" THEN {"expired"} ELSE {}) :
       SetState(q.flow, state)
  /\ IF q.status = "confirmed"
     THEN request' = [request EXCEPT ![r].pc = "exchanging", ![r].status = "waiting"]
     ELSE Ends(r)
  /\ UNCHANGED <<kind, stored, session, history, imports, troubles>>

\* The session is exchanged for tokens, or a cookie.  115 may refuse the second time.
ExchangeQR(r) ==
  LET f == request[r].flow IN
  /\ QR /\ request[r].pc = "exchanging"
  /\ exchanges' = [exchanges EXCEPT ![f] = IF @ < 2 THEN @ + 1 ELSE @]
  /\ \/ Goes(r, "storing") /\ UNCHANGED troubles
     \/ exchanges[f] > 0 /\ Goes(r, "failing") /\ UNCHANGED troubles
     \/ Trouble /\ Goes(r, "failing")
  /\ UNCHANGED <<kind, stored, flow, old, session, kept, lost, overlapped, imports>>

\* A write that fails is logged, and no more.
Written(f, new, grant) ==
  \/ /\ stored' = new /\ UNCHANGED <<lost, troubles>>
     /\ kept' = IF grant THEN kept \cup {f} ELSE kept
  \/ Trouble /\ lost' = lost \cup {f} /\ UNCHANGED <<stored, kept>>

\* The client id is stored, then the tokens that go with it.
StoreOpen(r) ==
  LET q == request[r] IN
  /\ kind = "115open"
  /\ \/ /\ q.pc = "storing" /\ Goes(r, "storing rest")
        /\ Written(q.flow, [stored EXCEPT !.client = q.client], FALSE)
     \/ /\ q.pc = "storing rest" /\ Goes(r, "finishing")
        /\ Written(q.flow, [stored EXCEPT !.grant = q.flow], TRUE)
  /\ UNCHANGED <<kind, flow, old, session, exchanges, overlapped, imports>>

\* The cookie is stored, then the terminal it belongs to.
StoreCookie(r) ==
  LET q == request[r] IN
  /\ kind = "115cookie"
  /\ \/ /\ q.pc = "storing" /\ Goes(r, "storing rest")
        /\ Written(q.flow, [stored EXCEPT !.grant = q.flow], TRUE)
     \/ /\ q.pc = "storing rest" /\ Goes(r, "finishing")
        /\ Written(q.flow, [stored EXCEPT !.client = q.client], FALSE)
  /\ UNCHANGED <<kind, flow, old, session, exchanges, overlapped, imports>>

-----------------------------------------------------------------------------
(* Status requests of a flow through the broker *)

StatusBroker(r, f) ==
  /\ ~QR /\ request[r].pc = "idle" /\ Present(f)
  /\ flow' = Prune(flow) /\ old' = {}
  /\ flow[f].mode = "broker_token_exchange" /\ flow[f].state = "pending"
  /\ request' = [request EXCEPT ![r] = [Idle EXCEPT !.pc = "asking", !.flow = f]]
  /\ UNCHANGED <<kind, stored, session, history, imports, troubles>>

\* A failed answer leaves the flow as it is.
AskBroker(r) ==
  /\ ~QR /\ request[r].pc = "asking"
  /\ \/ Answered(r)
     \/ Trouble /\ Ends(r)
  /\ UNCHANGED <<kind, stored, flow, old, session, history, imports>>

\* The broker says anew how long its session lasts.
NoteBroker(r) ==
  LET q == request[r]
      state == [waiting |-> "pending", scanned |-> "pending", confirmed |-> "completed",
                cancelled |-> "failed", expired |-> "expired"][q.status] IN
  /\ ~QR /\ q.pc = "noting" /\ Ends(r)
  /\ \E late \in BOOLEAN : Update(q.flow, state, late)
  /\ UNCHANGED <<kind, stored, session, history, imports, troubles>>

-----------------------------------------------------------------------------
(* The callback of a Baidu authorization *)

ConsumeAgain(f) ==
  /\ flow[f].state \in {"pending", "processing"}
  /\ flow' = [Prune(flow) EXCEPT ![f].state = "processing"]

ConsumeUnmarked(f) == flow[f].state = "pending" /\ ~flow[f].late /\ flow' = Prune(flow)

\* Only a pending flow is taken, and by one callback.
Consumed(f) ==
  /\ flow[f].state = "pending" /\ ~flow[f].late
  /\ flow' = [Prune(flow) EXCEPT ![f].state = "processing"]

\* A callback carries the flow in "state", or in "client_state" if the relay
\* sent it, and a code or an error; a browser may repeat it.
Callback(r, f, via, says) ==
  /\ ~QR /\ request[r].pc = "idle" /\ session[f] # "none" /\ Present(f) /\ old' = {}
  /\ \/ /\ Consumed(f)
        /\ request' = [request EXCEPT ![r] = [Idle EXCEPT
             !.pc = "called", !.flow = f, !.mode = flow[f].mode, !.client = flow[f].client,
             !.via = via, !.says = says]]
     \/ /\ flow[f].state = "pending" /\ flow[f].late
        /\ flow' = [Prune(flow) EXCEPT ![f].state = "expired"]
        /\ UNCHANGED request
  /\ UNCHANGED <<kind, stored, session, history, imports, troubles>>

\* The callback must be of the flow's mode and bring a code.
CheckCallback(r) ==
  LET q == request[r]
      expected == [official |-> "state", broker_relay |-> "client_state",
                   broker_token_exchange |-> "none"][q.mode] IN
  /\ q.pc = "called"
  /\ request' = [request EXCEPT ![r] = [Idle EXCEPT !.flow = q.flow, !.mode = q.mode,
       !.client = q.client,
       !.pc = IF q.via = expected /\ q.says = "code" THEN "loading" ELSE "failing"]]
  /\ UNCHANGED <<kind, stored, flow, old, session, history, imports, troubles>>

\* The client must be the one the flow was started for.
LoadClient(r) ==
  /\ request[r].pc = "loading"
  /\ \/ Goes(r, IF stored.client = request[r].client THEN "exchanging" ELSE "failing")
        /\ UNCHANGED troubles
     \/ Trouble /\ Goes(r, "failing")
  /\ UNCHANGED <<kind, stored, flow, old, session, history, imports>>

\* Baidu takes a code once, if the user has agreed.
ExchangeCode(r) ==
  LET f == request[r].flow IN
  /\ ~QR /\ request[r].pc = "exchanging"
  /\ exchanges' = [exchanges EXCEPT ![f] = IF @ < 2 THEN @ + 1 ELSE @]
  /\ \/ /\ Goes(r, IF session[f] = "confirmed" /\ exchanges[f] = 0 THEN "storing" ELSE "failing")
        /\ UNCHANGED troubles
     \/ Trouble /\ Goes(r, "failing")
  /\ UNCHANGED <<kind, stored, flow, old, session, kept, lost, overlapped, imports>>

FinishAnyway(r) == Goes(r, "finishing")

\* What a callback does about tokens that were not stored.
NotPersisted(r) == Goes(r, "failing")

\* The tokens are stored unless the client has changed in the meantime, in one
\* critical section of baiduAuthMu; a failure is reported to the caller.
PersistTokens(r) ==
  LET q == request[r] IN
  /\ ~QR /\ q.pc = "storing"
  /\ \/ /\ stored.client = q.client /\ stored' = [stored EXCEPT !.grant = q.flow]
        /\ kept' = kept \cup {q.flow} /\ Goes(r, "finishing") /\ UNCHANGED troubles
     \/ /\ stored.client # q.client
        /\ NotPersisted(r) /\ UNCHANGED <<stored, kept, troubles>>
     \/ Trouble /\ NotPersisted(r) /\ UNCHANGED <<stored, kept>>
  /\ UNCHANGED <<kind, flow, old, session, exchanges, lost, overlapped, imports>>

-----------------------------------------------------------------------------
(* The end of a request *)

\* The flow is authorized, if it is still there.
Finish(r) ==
  /\ request[r].pc = "finishing" /\ SetState(request[r].flow, "authorized") /\ Ends(r)
  /\ UNCHANGED <<kind, stored, session, history, imports, troubles>>

\* The flow is failed, whatever it was.
Fail(r) ==
  /\ request[r].pc = "failing" /\ SetState(request[r].flow, "error") /\ Ends(r)
  /\ UNCHANGED <<kind, stored, session, history, imports, troubles>>

-----------------------------------------------------------------------------
(* Credentials and tokens brought along *)

\* 115open: what was given replaces what there was, in one transaction.
ImportOpen(client) ==
  /\ kind = "115open" /\ Import
  /\ stored' = [client |-> client, grant |-> Imported]
  /\ UNCHANGED <<kind, flow, old, session, request, history, troubles>>

\* baiduopen: the tokens are tried with the stored client, and refreshed.
ImportBaidu(r) ==
  /\ kind = "baiduopen" /\ request[r].pc = "idle" /\ Import
  /\ request' = [request EXCEPT ![r] = [Idle EXCEPT !.pc = "importing", !.client = stored.client]]
  /\ UNCHANGED <<kind, stored, flow, old, session, history, troubles>>

\* They are stored if the client is still the same.
PersistImport(r) ==
  /\ request[r].pc = "importing" /\ Ends(r)
  /\ stored' = IF stored.client = request[r].client THEN [stored EXCEPT !.grant = Imported] ELSE stored
  /\ UNCHANGED <<kind, flow, old, session, history, imports, troubles>>

\* baiduopen: new credentials delete the tokens of the old ones.
Credentials(client) ==
  /\ kind = "baiduopen" /\ Import /\ client # stored.client
  /\ stored' = [client |-> client, grant |-> NoGrant]
  /\ UNCHANGED <<kind, flow, old, session, request, history, troubles>>

-----------------------------------------------------------------------------
(* The user, the clock and the process *)

User(f) ==
  /\ \/ session[f] = "waiting" /\ \E s \in {"scanned", "cancelled", "expired"} :
          session' = [session EXCEPT ![f] = s]
     \/ session[f] = "scanned" /\ \E s \in {"confirmed", "cancelled", "expired"} :
          session' = [session EXCEPT ![f] = s]
  /\ UNCHANGED <<kind, stored, flow, old, request, history, imports, troubles>>

\* A broker's session is over.
Expire(f) ==
  /\ flow[f].mode \notin {"qr", "official"} /\ flow[f].state = "pending" /\ ~flow[f].late
  /\ flow' = [flow EXCEPT ![f].late = TRUE]
  /\ UNCHANGED <<kind, stored, old, session, request, history, imports, troubles>>

Age(f) ==
  /\ flow[f].state # "gone" /\ f \notin old /\ old' = old \cup {f}
  /\ UNCHANGED <<kind, stored, flow, session, request, history, imports, troubles>>

\* The process ends and starts again, without the flows.
Restart ==
  /\ Trouble
  /\ flow' = [f \in Flow |-> Gone] /\ old' = {} /\ request' = [r \in Request |-> Idle]
  /\ UNCHANGED <<kind, stored, session, history, imports>>

-----------------------------------------------------------------------------
RequestStep(r) ==
  \/ \E f \in Flow :
       \/ \E client \in Client : StartQR(r, f, client)
       \/ \E mode \in Mode : StartBaidu(r, f, mode)
       \/ StatusQR(r, f) \/ StatusBroker(r, f)
       \/ \E via \in {"state", "client_state"}, says \in {"code", "error"} : Callback(r, f, via, says)
  \/ Insert(r) \/ AskQR(r) \/ NoteQR(r) \/ ExchangeQR(r) \/ StoreOpen(r) \/ StoreCookie(r)
  \/ AskBroker(r) \/ NoteBroker(r) \/ CheckCallback(r) \/ LoadClient(r) \/ ExchangeCode(r)
  \/ PersistTokens(r) \/ Finish(r) \/ Fail(r) \/ ImportBaidu(r) \/ PersistImport(r)

Next ==
  \/ \E r \in Request : RequestStep(r)
  \/ \E client \in Client : ImportOpen(client) \/ Credentials(client)
  \/ \E f \in Flow : User(f) \/ Expire(f) \/ Age(f)
  \/ Restart

Spec == Init /\ [][Next]_vars

-----------------------------------------------------------------------------
\* The code of a Baidu callback is presented once, however often the browser
\* repeats it; the confirmed session of a QR flow too, unless two status
\* requests polled it at the same time (baiduopen_auth.go:737-766,
\* open115_auth.go:308).
ExchangedOnce ==
  \A f \in Flow \ overlapped : exchanges[f] <= 1

\* When no request is under way, a flow that is still there tells the truth: it
\* says "authorized" if and only if its tokens were stored, and none is left
\* being processed; unless two status requests polled it at the same time, or
\* 115's writer swallowed a failed write (open115_auth.go:313-333,
\* cookie115_auth.go:190-202, baiduopen_auth.go:633-651).
TellsTruth ==
  AtRest => \A f \in Flow \ overlapped :
    /\ flow[f].state \notin {"processing", "confirming"}
    /\ flow[f].state = "authorized" => f \in kept \cup lost
    /\ f \in kept => flow[f].state \in {"authorized", "gone"}

=============================================================================
