-------------------------- MODULE AuthFlowsProofs --------------------------
(***************************************************************************)
(* Proofs about AuthFlows, for every set of flows, requests and clients    *)
(* and every bound.                                                        *)
(***************************************************************************)
EXTENDS AuthFlows, FiniteSetTheorems, TLAPS

-----------------------------------------------------------------------------
(* The inductive invariant *)

States == {"gone", "pending", "scanned", "confirming", "authorized", "expired",
           "cancelled", "error", "processing", "completed", "failed"}
Statuses == {"waiting", "scanned", "confirmed", "cancelled", "expired"}

\* What a request does for a Baidu callback, for a status request, and when it
\* is about no flow.
Handling == {"called", "loading", "exchanging", "storing", "finishing", "failing"}
Asking == {"asking", "noting"}
Unnamed == {"idle", "importing"}
PCs == {"inserting", "storing rest"} \cup Handling \cup Asking \cup Unnamed

Token == "broker_token_exchange"

FlowType == [state : States, client : Client \cup {NoGrant}, mode : Mode \cup {"qr"}, late : BOOLEAN]
RequestType ==
  [pc : PCs, flow : Flow \cup {NoGrant}, mode : Mode \cup {"qr"}, client : Client \cup {NoGrant},
   status : Statuses, via : {"state", "client_state"}, says : {"code", "error"}]

Typed ==
  /\ kind \in Kind /\ stored \in [client : Client, grant : Flow \cup {Imported, NoGrant}]
  /\ flow \in [Flow -> FlowType] /\ session \in [Flow -> Statuses \cup {"none"}]
  /\ exchanges \in [Flow -> 0 .. 2]
  /\ old \subseteq Flow /\ kept \subseteq Flow /\ lost \subseteq Flow /\ overlapped \subseteq Flow

About(r, f) == request[r].flow = f

RequestsTyped ==
  /\ request \in [Request -> RequestType]
  /\ \A r \in Request : request[r].pc \in Unnamed <=> About(r, NoGrant)

\* QR flows know no callbacks and carry a client, the others know no second write.
RequestFits(r) ==
  IF QR THEN /\ request[r].pc \notin {"called", "loading", "importing"} /\ request[r].mode = "qr"
             /\ request[r].pc = "idle" \/ request[r].client \in Client
        ELSE request[r].pc # "storing rest"
FlowFits(f) ==
  QR => /\ flow[f].mode = "qr" /\ flow[f].state \notin {"processing", "completed", "failed"}
        /\ flow[f].state = "gone" \/ flow[f].client \in Client

\* No code of the flow was presented and none of its tokens written.
Fresh(f) == exchanges[f] = 0 /\ f \notin kept \cup lost

\* A flow has a session before anything is done about it, and the request that
\* opens it is alone until the flow is there.
Opening(f) ==
  /\ session[f] = "none" =>
       flow[f].state = "gone" /\ Fresh(f) /\ \A r \in Request : ~About(r, f)
  /\ \A r \in Request : About(r, f) /\ request[r].pc = "inserting" =>
       flow[f].state = "gone" /\ Fresh(f) /\ \A s \in Request \ {r} : ~About(s, f)

\* A QR flow that no two requests have polled: how far its request is says what
\* has been exchanged and written.
QRRequest(r, f) ==
  /\ request[r].pc \in {"inserting", "asking", "noting"} =>
       Fresh(f) /\ flow[f].state \in {"gone", "pending", "scanned"}
  /\ request[r].pc = "exchanging" => Fresh(f)
  /\ request[r].pc \in {"storing", "failing"} => f \notin kept
  /\ request[r].pc = "storing rest" /\ kind = "115cookie" => f \in kept \cup lost
  /\ request[r].pc = "finishing" => f \in kept \cup lost

QRFlow(f) ==
  /\ \A r, s \in Request : About(r, f) /\ About(s, f) => r = s
  /\ \A r \in Request : About(r, f) => QRRequest(r, f)
  /\ exchanges[f] <= 1
  /\ (\A r \in Request : ~About(r, f)) =>
       /\ flow[f].state # "confirming"
       /\ flow[f].state \in {"pending", "scanned"} => Fresh(f)
  /\ flow[f].state = "authorized" => f \in kept \cup lost
  /\ f \in kept =>
       \/ flow[f].state \in {"gone", "authorized"}
       \/ \E r \in Request : About(r, f) /\ request[r].pc \in {"storing rest", "finishing"}

\* A Baidu flow: callbacks of the mode that imports tokens only ever fail; of
\* the other modes one callback takes the flow and carries it to its end.
Handles(r, f) == About(r, f) /\ request[r].pc \in Handling
Carries(r, f) == Handles(r, f) /\ request[r].mode # Token

BaiduRequest(r, f) ==
  /\ request[r].pc \in Asking => flow[f].state = "gone" \/ flow[f].mode = Token
  /\ request[r].pc \in Handling => flow[f].state = "gone" \/ flow[f].mode = request[r].mode
  /\ request[r].pc \in Handling \ {"called", "failing"} => request[r].mode # Token
  /\ request[r].pc \in Handling /\ request[r].mode # Token =>
       /\ flow[f].state \in {"gone", "processing"}
       /\ \A s \in Request : Carries(s, f) => s = r
       /\ request[r].pc \in {"called", "loading", "exchanging"} => Fresh(f)
       /\ f \in kept <=> request[r].pc = "finishing"

BaiduFlow(f) ==
  /\ \A r \in Request : About(r, f) => BaiduRequest(r, f)
  /\ exchanges[f] <= 1
  /\ flow[f].state # "gone" /\ flow[f].mode = Token => Fresh(f)
  /\ flow[f].state = "pending" => Fresh(f)
  /\ flow[f].state = "processing" => \E r \in Request : Handles(r, f)
  /\ flow[f].state # "confirming"
  /\ flow[f].state = "authorized" => f \in kept
  /\ f \in kept =>
       \/ flow[f].state \in {"gone", "authorized"}
       \/ \E r \in Request : About(r, f) /\ request[r].pc = "finishing"

FlowInv(f) ==
  /\ Opening(f)
  /\ QR /\ f \notin overlapped => QRFlow(f)
  /\ ~QR => BaiduFlow(f)

IInv ==
  /\ Typed /\ RequestsTyped
  /\ \A r \in Request : RequestFits(r)
  /\ \A f \in Flow : FlowFits(f) /\ FlowInv(f)

-----------------------------------------------------------------------------
(* What a step does to one request, and to one flow *)

\* Request r goes on at pc with a flow and a mode; the others stay.
MovesTo(r, pc, f, mode) ==
  /\ request' \in [Request -> RequestType]
  /\ request'[r].pc = pc /\ request'[r].flow = f /\ request'[r].mode = mode
  /\ \A s \in Request \ {r} : request'[s] = request[s]

\* A flow is left alone, or pruned.
SameFlow(f) ==
  /\ \/ flow'[f] = Gone
     \/ /\ flow'[f].state = flow[f].state /\ flow'[f].mode = flow[f].mode
        /\ flow'[f].client = flow[f].client
  /\ exchanges'[f] = exchanges[f] /\ (f \in kept' <=> f \in kept) /\ (f \in lost' <=> f \in lost)
  /\ f \in overlapped => f \in overlapped'
  /\ session'[f] = "none" => session[f] = "none"

LEMMA IdleIs ==
  /\ Idle \in RequestType /\ Idle.pc = "idle" /\ Idle.flow = NoGrant /\ Idle.mode = "qr"
  /\ Gone \in FlowType /\ Gone.state = "gone" /\ Gone.mode = "qr"
BY DEF Idle, Gone, RequestType, FlowType, PCs, Unnamed, Statuses, States

LEMMA EndMoves ==
  ASSUME RequestsTyped, NEW r \in Request, Ends(r)
  PROVE  MovesTo(r, "idle", NoGrant, "qr")
BY IdleIs DEF RequestsTyped, Ends, MovesTo

LEMMA GoMoves ==
  ASSUME RequestsTyped, NEW r \in Request, NEW pc \in PCs, Goes(r, pc)
  PROVE  /\ MovesTo(r, pc, request[r].flow, request[r].mode)
         /\ request'[r].client = request[r].client
<1> DEFINE q == [request[r] EXCEPT !.pc = pc]
<1>1. request[r] \in RequestType
  BY DEF RequestsTyped
<1>2. /\ q \in RequestType /\ q.pc = pc /\ q.flow = request[r].flow /\ q.mode = request[r].mode
      /\ q.client = request[r].client
  BY <1>1 DEF RequestType
<1>3. request' = [request EXCEPT ![r] = q]
  BY DEF Goes
<1> HIDE DEF q
<1> QED BY <1>2, <1>3 DEF MovesTo, RequestsTyped

\* A request that is made anew.
LEMMA NewMoves ==
  ASSUME RequestsTyped, NEW r \in Request, NEW q \in RequestType, request' = [request EXCEPT ![r] = q]
  PROVE  MovesTo(r, q.pc, q.flow, q.mode)
BY DEF MovesTo, RequestsTyped

LEMMA NewIs ==
  ASSUME RequestsTyped, NEW r \in Request, NEW q, request' = [request EXCEPT ![r] = q]
  PROVE  request'[r] = q
BY DEF RequestsTyped

LEMMA UpdateIs ==
  ASSUME Typed, NEW f \in Flow, NEW state \in States, NEW late \in BOOLEAN,
         Update(f, state, late)
  PROVE  /\ flow' \in [Flow -> FlowType] /\ old' \subseteq Flow
         /\ flow'[f].mode = flow[f].mode /\ flow'[f].client = flow[f].client
         /\ flow[f].state = "gone" => flow'[f].state = "gone"
         /\ flow[f].state # "gone" => flow'[f].state = state
         /\ \A g \in Flow \ {f} : flow'[g] = flow[g]
<1> DEFINE q == IF flow[f].state = "gone" THEN flow[f]
                ELSE [flow[f] EXCEPT !.state = state, !.late = late]
<1>1. flow[f] \in FlowType
  BY DEF Typed
<1>2. /\ q \in FlowType /\ q.mode = flow[f].mode /\ q.client = flow[f].client
      /\ q.state = IF flow[f].state = "gone" THEN "gone" ELSE state
  BY <1>1 DEF FlowType
<1>3. flow' = [flow EXCEPT ![f] = q] /\ old' = old \ {f}
  BY DEF Update
<1> HIDE DEF q
<1> QED BY <1>2, <1>3 DEF Typed

\* An update that sets the state only.
LEMMA SetStateIs ==
  ASSUME Typed, NEW f \in Flow, NEW state \in States, SetState(f, state)
  PROVE  /\ flow' \in [Flow -> FlowType] /\ old' \subseteq Flow
         /\ flow'[f].mode = flow[f].mode /\ flow'[f].client = flow[f].client
         /\ flow[f].state = "gone" => flow'[f].state = "gone"
         /\ flow[f].state # "gone" => flow'[f].state = state
         /\ \A g \in Flow \ {f} : flow'[g] = flow[g]
<1>1. flow[f].late \in BOOLEAN
  BY DEF Typed, FlowType
<1>2. Update(f, state, flow[f].late)
  BY DEF SetState
<1> QED BY <1>1, <1>2, UpdateIs

LEMMA PruneIs ==
  ASSUME Typed
  PROVE  /\ Prune(flow) \in [Flow -> FlowType]
         /\ \A f \in Flow : Prune(flow)[f] = Gone \/ Prune(flow)[f] = flow[f]
         /\ \A f \in Flow \ old : Prune(flow)[f] = flow[f]
BY IdleIs DEF Prune, Typed

\* What is known about a flow stays true while nothing is done about it, and
\* when it is pruned.
LEMMA FlowKept ==
  ASSUME NEW f \in Flow, FlowInv(f), kind' = kind, SameFlow(f),
         \A s \in Request : About(s, f) \/ About(s, f)' => request'[s] = request[s]
  PROVE  FlowInv(f)'
<1>1. /\ flow'[f].state = "gone" \/ (flow'[f].state = flow[f].state /\ flow'[f].mode = flow[f].mode)
      /\ Fresh(f)' <=> Fresh(f)
      /\ QR' <=> QR
  BY IdleIs DEF SameFlow, Fresh, QR
<1>2. \A s \in Request : /\ About(s, f)' <=> About(s, f)
                         /\ About(s, f) => request'[s] = request[s]
  BY DEF About
<1>3. Opening(f)'
  BY <1>1, <1>2 DEF FlowInv, Opening, SameFlow
<1>4. ASSUME QR, f \notin overlapped'
      PROVE  QRFlow(f)'
  <2>1. QRFlow(f)
    BY <1>4 DEF FlowInv, SameFlow
  <2>2. \A s \in Request : About(s, f) => QRRequest(s, f)'
    BY <1>1, <1>2, <2>1 DEF QRFlow, QRRequest, SameFlow
  <2>3. exchanges'[f] <= 1 /\ (f \in kept' <=> f \in kept) /\ (f \in lost' <=> f \in lost)
    BY <2>1 DEF QRFlow, SameFlow
  <2> QED BY <1>1, <1>2, <2>1, <2>2, <2>3 DEF QRFlow
<1>5. ASSUME ~QR
      PROVE  BaiduFlow(f)'
  <2>1. BaiduFlow(f)
    BY <1>5 DEF FlowInv
  <2>2. \A s \in Request : (Handles(s, f)' <=> Handles(s, f)) /\ (Carries(s, f)' <=> Carries(s, f))
    BY <1>2 DEF Handles, Carries
  <2>3. \A s \in Request : About(s, f) => BaiduRequest(s, f)'
    BY <1>1, <1>2, <2>1, <2>2 DEF BaiduFlow, BaiduRequest, SameFlow
  <2>4. exchanges'[f] <= 1 /\ (f \in kept' <=> f \in kept)
    BY <2>1 DEF BaiduFlow, SameFlow
  <2> QED BY <1>1, <1>2, <2>1, <2>2, <2>3, <2>4 DEF BaiduFlow
<1> QED BY <1>1, <1>3, <1>4, <1>5 DEF FlowInv

\* A step of a request about one flow: nothing else is disturbed.
LEMMA OneFlow ==
  ASSUME IInv, Typed', kind' = kind, NEW f \in Flow, NEW r \in Request,
         NEW pc \in PCs, NEW g \in {f, NoGrant}, NEW mode, MovesTo(r, pc, g, mode),
         request[r].flow \in {f, NoGrant}, pc \in Unnamed <=> g = NoGrant,
         IF QR THEN /\ pc \notin {"called", "loading", "importing"} /\ mode = "qr"
                    /\ pc = "idle" \/ request'[r].client \in Client
               ELSE pc # "storing rest",
         \A h \in Flow \ {f} : SameFlow(h),
         FlowFits(f)', FlowInv(f)'
  PROVE  IInv'
<1>1. NoGrant \notin Flow
  BY AuthAssumption
<1>2. RequestsTyped'
  BY <1>1 DEF MovesTo, IInv, RequestsTyped, About
<1>3. \A s \in Request : RequestFits(s)'
  BY DEF IInv, RequestFits, MovesTo, QR
<1>4. ASSUME NEW h \in Flow \ {f}
      PROVE  FlowFits(h)' /\ FlowInv(h)'
  <2>1. FlowFits(h)'
    BY IdleIs DEF SameFlow, FlowFits, IInv, QR
  <2>2. \A s \in Request : About(s, h) \/ About(s, h)' => request'[s] = request[s]
    BY <1>1 DEF MovesTo, About
  <2> QED BY <2>1, <2>2, FlowKept DEF IInv
<1> QED BY <1>2, <1>3, <1>4 DEF IInv

\* A step that no request about a flow takes.
LEMMA NoFlow ==
  ASSUME IInv, Typed', RequestsTyped', kind' = kind,
         \A s \in Request : request'[s] = request[s] \/ (request[s].flow = NoGrant /\ request'[s].flow = NoGrant),
         \A s \in Request : RequestFits(s)',
         \A f \in Flow : SameFlow(f)
  PROVE  IInv'
<1> SUFFICES ASSUME NEW f \in Flow
             PROVE  FlowFits(f)' /\ FlowInv(f)'
  BY DEF IInv
<1>1. FlowFits(f)'
  BY IdleIs DEF SameFlow, FlowFits, IInv, QR
<1>2. \A s \in Request : About(s, f) \/ About(s, f)' => request'[s] = request[s]
  BY AuthAssumption DEF About
<1> QED BY <1>1, <1>2, FlowKept DEF IInv

\* Once a request is about a flow, the flow has a session and is not opened again.
LEMMA OpeningKept ==
  ASSUME NEW f \in Flow, NEW r \in Request, About(r, f), Opening(f), session' = session,
         NEW pc, NEW g \in {f, NoGrant}, NEW mode, MovesTo(r, pc, g, mode), pc # "inserting"
  PROVE  Opening(f)'
BY DEF Opening, MovesTo, About

-----------------------------------------------------------------------------
(* Starting a flow *)

LEMMA RequestNamed ==
  ASSUME IInv, NEW r \in Request, request[r].pc \notin Unnamed
  PROVE  request[r].flow \in Flow /\ request[r] \in RequestType
BY DEF IInv, RequestsTyped, About, RequestType

LEMMA RequestUnnamed ==
  ASSUME IInv, NEW r \in Request, request[r].pc \in Unnamed
  PROVE  request[r].flow = NoGrant
BY DEF IInv, RequestsTyped, About

LEMMA Started ==
  ASSUME IInv, NEW r \in Request, NEW f \in Flow, NEW mode, MovesTo(r, "inserting", f, mode),
         request[r].pc = "idle", Opened(f), QR => mode = "qr" /\ request'[r].client \in Client,
         UNCHANGED <<kind, stored, flow, old, history>>
  PROVE  IInv'
<1>1. /\ flow[f].state = "gone" /\ Fresh(f) /\ \A s \in Request : ~About(s, f)
      /\ session' = [session EXCEPT ![f] = "waiting"] /\ session' \in [Flow -> Statuses \cup {"none"}]
      /\ session'[f] # "none"
  BY DEF Opened, IInv, FlowInv, Opening, Typed, Statuses
<1>2. /\ \A s \in Request : About(s, f)' <=> s = r
      /\ request'[r].pc = "inserting" /\ (Fresh(f)' <=> Fresh(f))
      /\ (QR' <=> QR) /\ exchanges[f] = 0 /\ f \notin kept \cup lost
  BY <1>1 DEF About, MovesTo, Fresh, history, QR
<1>3. Typed'
  BY <1>1 DEF IInv, Typed, history
<1>4. Opening(f)'
  BY <1>1, <1>2 DEF Opening
<1>5. QRFlow(f)' /\ BaiduFlow(f)'
  <2>1. exchanges'[f] = 0 /\ f \notin kept' \cup lost' /\ flow'[f].state = "gone"
    BY <1>1, <1>2 DEF history
  <2>2. QRRequest(r, f)' /\ BaiduRequest(r, f)'
    BY <1>1, <1>2, <2>1 DEF QRRequest, BaiduRequest, Asking, Handling
  <2> QED BY <1>2, <2>1, <2>2 DEF QRFlow, BaiduFlow
<1>6. FlowInv(f)' /\ FlowFits(f)'
  BY <1>2, <1>4, <1>5 DEF FlowInv, FlowFits, IInv, QR
<1>7. \A h \in Flow \ {f} : SameFlow(h)
  BY <1>1 DEF SameFlow, history, IInv, Typed
<1>8. request[r].flow = NoGrant
  BY RequestUnnamed DEF Unnamed
<1>9. "inserting" \in PCs \ Unnamed /\ f # NoGrant
  BY AuthAssumption DEF PCs, Unnamed
<1> QED BY <1>3, <1>6, <1>7, <1>8, <1>9, OneFlow

LEMMA StartedQR ==
  ASSUME IInv, NEW r \in Request, NEW f \in Flow, NEW client \in Client, StartQR(r, f, client)
  PROVE  IInv'
<1> DEFINE q == [Idle EXCEPT !.pc = "inserting", !.flow = f, !.client = client]
<1>1. q \in RequestType /\ q.pc = "inserting" /\ q.flow = f /\ q.mode = "qr" /\ q.client = client
  BY IdleIs DEF Idle, RequestType, PCs
<1>2. /\ request' = [request EXCEPT ![r] = q] /\ request[r].pc = "idle" /\ Opened(f)
      /\ UNCHANGED <<kind, stored, flow, old, history>>
  BY DEF StartQR
<1> HIDE DEF q
<1>3. MovesTo(r, "inserting", f, "qr")
  BY <1>1, <1>2, NewMoves DEF IInv
<1>4. request'[r].client \in Client
  BY <1>1, <1>2, NewIs DEF IInv
<1> QED BY <1>2, <1>3, <1>4, Started

LEMMA StartedBaidu ==
  ASSUME IInv, NEW r \in Request, NEW f \in Flow, NEW mode \in Mode, StartBaidu(r, f, mode)
  PROVE  IInv'
<1> DEFINE q == [Idle EXCEPT !.pc = "inserting", !.flow = f, !.mode = mode, !.client = stored.client]
<1>1. q \in RequestType /\ q.pc = "inserting" /\ q.flow = f /\ q.mode = mode
  BY IdleIs DEF Idle, RequestType, PCs, IInv, Typed
<1>2. /\ request' = [request EXCEPT ![r] = q] /\ request[r].pc = "idle" /\ Opened(f) /\ ~QR
      /\ UNCHANGED <<kind, stored, flow, old, history>>
  BY DEF StartBaidu
<1> HIDE DEF q
<1>3. MovesTo(r, "inserting", f, mode)
  BY <1>1, <1>2, NewMoves DEF IInv
<1> QED BY <1>2, <1>3, Started

LEMMA Inserted ==
  ASSUME IInv, NEW r \in Request, Insert(r)
  PROVE  IInv'
<1> DEFINE q == request[r]
           new == [state |-> "pending", client |-> q.client, mode |-> q.mode, late |-> FALSE]
<1>2. q.pc = "inserting" /\ q \in RequestType /\ q.flow \in Flow
  BY RequestNamed DEF Insert, Unnamed
<1> PICK f \in Flow : f = q.flow
  BY <1>2
<1>1. /\ Ends(r) /\ flow' = [Prune(flow) EXCEPT ![f] = new] /\ old' = {}
      /\ UNCHANGED <<kind, stored, session, history>>
  BY DEF Insert
<1>3. MovesTo(r, "idle", NoGrant, "qr")
  BY <1>1, EndMoves DEF IInv
<1>4. new \in FlowType /\ new.state = "pending" /\ new.mode = q.mode /\ new.client = q.client
  BY <1>2 DEF FlowType, RequestType, States
<1> HIDE DEF new
<1>5. About(r, f) /\ (QR => q.mode = "qr" /\ q.client \in Client)
  BY <1>2 DEF About, IInv, RequestFits
<1>6. /\ flow' \in [Flow -> FlowType] /\ flow'[f] = new
      /\ \A h \in Flow \ {f} : flow'[h] = Gone \/ flow'[h] = flow[h]
  BY <1>1, <1>4, PruneIs DEF IInv
<1>7. Typed'
  BY <1>1, <1>6 DEF IInv, Typed, history
<1>8. Fresh(f) /\ session[f] # "none" /\ \A s \in Request \ {r} : ~About(s, f)
  BY <1>1, <1>2, <1>5 DEF IInv, FlowInv, Opening
<1>9. /\ \A s \in Request : ~About(s, f)'
      /\ Fresh(f)' /\ exchanges'[f] = 0 /\ f \notin kept' \cup lost' /\ (QR' <=> QR)
  BY <1>1, <1>2, <1>3, <1>8, AuthAssumption DEF MovesTo, About, Fresh, history, QR
<1>10. Opening(f)'
  BY <1>1, <1>8, <1>9 DEF Opening
<1>11. QRFlow(f)' /\ BaiduFlow(f)'
  <2>1. flow'[f].state = "pending"
    BY <1>4, <1>6
  <2>2. QRFlow(f)'
    <3>1. exchanges'[f] <= 1 /\ flow'[f].state # "authorized" /\ f \notin kept'
      BY <1>9, <2>1
    <3> QED BY <1>9, <2>1, <3>1, Zenon DEF QRFlow
  <2>3. BaiduFlow(f)'
    BY <1>9, <2>1 DEF BaiduFlow
  <2> QED BY <2>2, <2>3
<1>12. FlowInv(f)' /\ FlowFits(f)'
  BY <1>4, <1>5, <1>6, <1>9, <1>10, <1>11 DEF FlowInv, FlowFits
<1>13. \A h \in Flow \ {f} : SameFlow(h)
  BY <1>1, <1>6 DEF SameFlow, history
<1>14. "idle" \in PCs /\ "idle" \in Unnamed /\ request[r].flow = f
  BY DEF PCs, Unnamed
<1> QED BY <1>1, <1>2, <1>3, <1>7, <1>12, <1>13, <1>14, OneFlow

-----------------------------------------------------------------------------
(* Requests of a QR flow *)

\* A request that was the flow's only one goes on, or ends.
LEMMA QRStep ==
  ASSUME IInv, QR, NEW f \in Flow, NEW r \in Request, About(r, f),
         NEW pc, NEW g \in {f, NoGrant}, NEW mode, MovesTo(r, pc, g, mode),
         kind' = kind, f \notin overlapped, exchanges'[f] <= 1,
         g = f => QRRequest(r, f)',
         g = NoGrant => /\ flow'[f].state # "confirming"
                        /\ flow'[f].state \in {"pending", "scanned"} => Fresh(f)',
         flow'[f].state = "authorized" => f \in kept' \cup lost',
         f \in kept' => \/ flow'[f].state \in {"gone", "authorized"}
                        \/ g = f /\ pc \in {"storing rest", "finishing"}
  PROVE  QRFlow(f)'
<1>1. NoGrant # f
  BY AuthAssumption
<1>2. \A s \in Request : About(s, f) => s = r
  BY DEF IInv, FlowInv, QRFlow
<1>3. \A s \in Request : About(s, f)' <=> s = r /\ g = f
  BY <1>1, <1>2 DEF About, MovesTo
<1>4. (\A s \in Request : ~About(s, f)') => g = NoGrant
  BY <1>3
<1>5. f \in kept' =>
        \/ flow'[f].state \in {"gone", "authorized"}
        \/ \E s \in Request : About(s, f)' /\ request'[s].pc \in {"storing rest", "finishing"}
  BY <1>3 DEF MovesTo
<1> QED BY <1>3, <1>4, <1>5 DEF QRFlow

\* What every later step of a QR request has in common.
LEMMA QRGoesOn ==
  ASSUME IInv, Typed', QR, NEW f \in Flow, NEW r \in Request, About(r, f),
         NEW pc \in PCs, NEW g \in {f, NoGrant}, MovesTo(r, pc, g, "qr"),
         pc \notin {"inserting", "called", "loading", "importing"}, pc \in Unnamed <=> g = NoGrant,
         pc = "idle" \/ request'[r].client \in Client,
         kind' = kind, session' = session, overlapped' = overlapped,
         \A h \in Flow \ {f} : SameFlow(h),
         flow'[f].mode = flow[f].mode, flow'[f].client = flow[f].client,
         flow[f].state = "gone" => flow'[f].state = "gone", flow'[f].state \notin {"processing", "completed", "failed"},
         f \notin overlapped => QRFlow(f)'
  PROVE  IInv'
<1>1. Opening(f)'
  BY OpeningKept DEF IInv, FlowInv
<1>2. FlowFits(f)' /\ FlowInv(f)'
  BY <1>1 DEF IInv, FlowInv, FlowFits, QR
<1>3. request[r].flow = f
  BY DEF About
<1> QED BY <1>2, <1>3, OneFlow

LEMMA PolledQR ==
  ASSUME IInv, NEW r \in Request, NEW f \in Flow, StatusQR(r, f)
  PROVE  IInv'
<1> DEFINE q == [Idle EXCEPT !.pc = "asking", !.flow = f, !.client = flow[f].client]
<1>1. /\ QR /\ request[r].pc = "idle" /\ flow[f].state # "gone" /\ f \notin old
      /\ ~QRTerminal(flow[f].state) /\ flow' = Prune(flow) /\ old' = {}
      /\ request' = [request EXCEPT ![r] = q]
      /\ overlapped' = IF \E s \in Request : About(s, f) THEN overlapped \cup {f} ELSE overlapped
      /\ UNCHANGED <<kind, stored, session, exchanges, kept, lost>>
  BY DEF StatusQR, Present, About
<1>2. flow[f] \in FlowType
  BY DEF IInv, Typed
<1>3. q \in RequestType /\ q.pc = "asking" /\ q.flow = f /\ q.mode = "qr" /\ q.client = flow[f].client
  BY <1>2 DEF Idle, RequestType, FlowType, PCs, Asking, Statuses
<1> HIDE DEF q
<1>4. MovesTo(r, "asking", f, "qr") /\ request'[r].client \in Client
  <2>1. MovesTo(r, "asking", f, "qr")
    BY <1>1, <1>3, NewMoves DEF IInv
  <2>2. request'[r].client \in Client
    BY <1>1, <1>3, NewIs DEF IInv, FlowFits
  <2> QED BY <2>1, <2>2
<1>5. /\ flow' \in [Flow -> FlowType] /\ flow'[f] = flow[f]
      /\ \A h \in Flow \ {f} : flow'[h] = Gone \/ flow'[h] = flow[h]
  BY <1>1, PruneIs DEF IInv
<1>6. Typed'
  BY <1>1, <1>5 DEF IInv, Typed
<1>7. request[r].flow = NoGrant
  BY <1>1, RequestUnnamed DEF Unnamed
<1>8. Opening(f)'
  <2>1. session'[f] # "none" /\ \A s \in Request : About(s, f) => request[s].pc # "inserting"
    BY <1>1 DEF IInv, FlowInv, Opening
  <2>2. \A s \in Request : About(s, f)' => request'[s].pc # "inserting"
    BY <1>4, <2>1 DEF MovesTo, About
  <2> QED BY <2>1, <2>2 DEF Opening
<1>9. ASSUME f \notin overlapped'
      PROVE  QRFlow(f)'
  <2>1. f \notin overlapped /\ \A s \in Request : ~About(s, f)
    BY <1>1, <1>9
  <2>2. QRFlow(f)
    BY <1>1, <2>1 DEF IInv, FlowInv
  <2>3. flow[f].state \in {"pending", "scanned"}
    BY <1>1, <1>2, <2>1, <2>2 DEF QRFlow, QRTerminal, FlowType, States, IInv, FlowFits
  <2>4. \A s \in Request : About(s, f)' <=> s = r
    BY <1>4, <2>1 DEF MovesTo, About
  <2>5. Fresh(f) /\ Fresh(f)' /\ request'[r].pc = "asking" /\ About(r, f)'
    BY <1>1, <1>4, <2>1, <2>2, <2>3, <2>4 DEF QRFlow, MovesTo, Fresh
  <2>6. QRRequest(r, f)'
    BY <1>5, <2>3, <2>5 DEF QRRequest
  <2>7. exchanges'[f] <= 1 /\ f \notin kept' /\ flow'[f].state # "authorized"
    BY <1>1, <1>5, <2>3, <2>5 DEF Fresh
  <2> QED BY <2>4, <2>6, <2>7 DEF QRFlow
<1>10. FlowInv(f)' /\ FlowFits(f)'
  BY <1>1, <1>5, <1>8, <1>9 DEF FlowInv, FlowFits, IInv, QR
<1>11. \A h \in Flow \ {f} : SameFlow(h)
  BY <1>1, <1>5 DEF SameFlow
<1>12. "asking" \in PCs \ Unnamed /\ f # NoGrant
  BY AuthAssumption DEF PCs, Asking, Unnamed
<1> QED BY <1>1, <1>4, <1>6, <1>7, <1>10, <1>11, <1>12, OneFlow

\* What is known of a request of a QR flow when it goes on.
LEMMA QRKnown ==
  ASSUME IInv, QR, NEW r \in Request, NEW f \in Flow, request[r].flow = f
  PROVE  /\ About(r, f) /\ f # NoGrant /\ request[r].mode = "qr" /\ flow[f].state \in States
         /\ request[r].client \in Client
         /\ flow[f].mode = "qr" /\ flow[f].state \notin {"processing", "completed", "failed"}
         /\ session[f] \in Statuses
         /\ f \notin overlapped => QRFlow(f) /\ QRRequest(r, f) /\ exchanges[f] <= 1
<1>1. session[f] # "none"
  BY DEF IInv, FlowInv, Opening, About
<1>2. flow[f] \in FlowType /\ session[f] \in Statuses \cup {"none"}
  BY DEF IInv, Typed
<1>3. f \notin overlapped => QRFlow(f)
  BY DEF IInv, FlowInv
<1> QED BY <1>1, <1>2, <1>3, AuthAssumption
          DEF About, IInv, RequestsTyped, RequestFits, FlowFits, FlowType, QRFlow, Unnamed

LEMMA AskedQR ==
  ASSUME IInv, NEW r \in Request, AskQR(r)
  PROVE  IInv'
<1>1. QR /\ request[r].pc = "asking" /\ UNCHANGED <<kind, stored, flow, old, session, history>>
  BY DEF AskQR
<1> PICK f \in Flow : f = request[r].flow
  BY <1>1, RequestNamed DEF Unnamed
<1>2. Typed'
  BY <1>1 DEF IInv, Typed, history
<1>3. ASSUME NEW pc \in {"noting", "failing"}, MovesTo(r, pc, f, "qr"), request'[r].client \in Client
      PROVE  IInv'
  <2>1. pc \in PCs \ Unnamed /\ pc \notin {"inserting", "called", "loading", "importing"}
    BY DEF PCs, Asking, Handling, Unnamed
  <2>2. \A h \in Flow \ {f} : SameFlow(h)
    BY <1>1 DEF SameFlow, history
  <2>3. ASSUME f \notin overlapped
        PROVE  QRFlow(f)'
    <3>1. /\ QRFlow(f) /\ QRRequest(r, f) /\ exchanges'[f] <= 1 /\ Fresh(f)
          /\ flow'[f].state \in {"gone", "pending", "scanned"}
      BY <1>1, <2>3, QRKnown DEF QRRequest, history
    <3>2. Fresh(f)' /\ f \notin kept'
      BY <1>1, <3>1 DEF Fresh, history
    <3>3. QRRequest(r, f)'
      BY <1>3, <3>1, <3>2 DEF QRRequest, MovesTo
    <3> QED BY <1>1, <1>3, <2>3, <3>1, <3>2, <3>3, QRKnown, QRStep
  <2> QED BY <1>1, <1>2, <1>3, <2>1, <2>2, <2>3, QRKnown, QRGoesOn DEF history
<1>4. ASSUME Answered(r)
      PROVE  MovesTo(r, "noting", f, "qr") /\ request'[r].client \in Client
  <2> DEFINE q == [request[r] EXCEPT !.pc = "noting", !.status = session[f]]
  <2>1. request' = [request EXCEPT ![r] = q]
    BY <1>4 DEF Answered
  <2>2. request[r] \in RequestType /\ session[f] \in Statuses
    BY <1>1, QRKnown DEF IInv, RequestsTyped
  <2>3. /\ q \in RequestType /\ q.pc = "noting" /\ q.flow = request[r].flow
        /\ q.mode = request[r].mode /\ q.client = request[r].client
    BY <2>2 DEF RequestType, PCs, Asking
  <2> HIDE DEF q
  <2>4. MovesTo(r, "noting", f, "qr")
    BY <1>1, <2>1, <2>3, NewMoves, QRKnown DEF IInv
  <2>5. request'[r].client \in Client
    BY <1>1, <2>1, <2>3, NewIs, QRKnown DEF IInv
  <2> QED BY <2>4, <2>5
<1>5. ASSUME Goes(r, "failing")
      PROVE  MovesTo(r, "failing", f, "qr") /\ request'[r].client \in Client
  <2>1. "failing" \in PCs
    BY DEF PCs, Handling
  <2> QED BY <1>1, <1>5, <2>1, GoMoves, QRKnown DEF IInv
<1> QED BY <1>3, <1>4, <1>5 DEF AskQR

LEMMA NotedQR ==
  ASSUME IInv, NEW r \in Request, NoteQR(r)
  PROVE  IInv'
<1>1. QR /\ request[r].pc = "noting" /\ UNCHANGED <<kind, stored, session, history>>
  BY DEF NoteQR
<1> PICK f \in Flow : f = request[r].flow
  BY <1>1, RequestNamed DEF Unnamed
<1>2. request[r] \in RequestType
  BY DEF IInv, RequestsTyped
<1>3. PICK state \in {"pending", "scanned", "confirming", "cancelled", "expired"} :
        SetState(f, state) /\ (state = "confirming" => request[r].status = "confirmed")
  <2>1. /\ request[r].status \in Statuses
        /\ \E state \in {StateFor(request[r].status), "expired"} : SetState(f, state)
    BY <1>2 DEF NoteQR, RequestType
  <2>2. /\ StateFor(request[r].status) \in {"pending", "scanned", "confirming", "cancelled", "expired"}
        /\ StateFor(request[r].status) = "confirming" <=> request[r].status = "confirmed"
    BY <2>1 DEF StateFor, Statuses
  <2> QED BY <2>1, <2>2
<1>4. /\ flow' \in [Flow -> FlowType] /\ old' \subseteq Flow /\ flow'[f].mode = flow[f].mode
      /\ flow'[f].client = flow[f].client
      /\ flow'[f].state \in {"gone", state} /\ (flow[f].state = "gone" => flow'[f].state = "gone")
      /\ \A h \in Flow \ {f} : flow'[h] = flow[h]
  BY <1>3, SetStateIs DEF IInv, States
<1>5. Typed'
  BY <1>1, <1>4 DEF IInv, Typed, history
<1>6. \A h \in Flow \ {f} : SameFlow(h)
  BY <1>1, <1>4 DEF SameFlow, history
<1>7. f \notin overlapped => Fresh(f) /\ Fresh(f)' /\ f \notin kept' /\ exchanges'[f] <= 1
  BY <1>1, QRKnown DEF QRRequest, Fresh, history
<1>8. CASE request[r].status = "confirmed"
  <2> DEFINE q == [request[r] EXCEPT !.pc = "exchanging", !.status = "waiting"]
  <2>1. request' = [request EXCEPT ![r] = q]
    BY <1>8 DEF NoteQR
  <2>2. /\ q \in RequestType /\ q.pc = "exchanging" /\ q.flow = request[r].flow
        /\ q.mode = request[r].mode /\ q.client = request[r].client
    BY <1>2 DEF RequestType, PCs, Handling, Statuses
  <2> HIDE DEF q
  <2>3. MovesTo(r, "exchanging", f, "qr") /\ request'[r].client \in Client
    <3>1. MovesTo(r, "exchanging", f, "qr")
      BY <1>1, <2>1, <2>2, NewMoves, QRKnown DEF IInv
    <3>2. request'[r].client \in Client
      BY <1>1, <2>1, <2>2, NewIs, QRKnown DEF IInv
    <3> QED BY <3>1, <3>2
  <2>4. ASSUME f \notin overlapped
        PROVE  QRFlow(f)'
    <3>1. QRRequest(r, f)'
      BY <1>7, <2>3, <2>4 DEF QRRequest, MovesTo
    <3> QED BY <1>1, <1>4, <1>7, <2>3, <2>4, <3>1, QRKnown, QRStep
  <2>5. "exchanging" \in PCs \ Unnamed
    BY DEF PCs, Handling, Unnamed
  <2> QED BY <1>1, <1>4, <1>5, <1>6, <2>3, <2>4, <2>5, QRKnown, QRGoesOn DEF history
<1>9. CASE request[r].status # "confirmed"
  <2>1. MovesTo(r, "idle", NoGrant, "qr")
    BY <1>9, EndMoves DEF NoteQR, IInv
  <2>2. ASSUME f \notin overlapped
        PROVE  QRFlow(f)'
    <3>1. flow'[f].state \notin {"confirming", "authorized"} /\ NoGrant # f
      BY <1>3, <1>4, <1>9, AuthAssumption
    <3> QED BY <1>1, <1>7, <2>1, <2>2, <3>1, QRKnown, QRStep
  <2>3. "idle" \in PCs /\ "idle" \in Unnamed
    BY DEF PCs, Unnamed
  <2> QED BY <1>1, <1>4, <1>5, <1>6, <2>1, <2>2, <2>3, QRKnown, QRGoesOn DEF history
<1> QED BY <1>8, <1>9

LEMMA ExchangedQR ==
  ASSUME IInv, NEW r \in Request, ExchangeQR(r)
  PROVE  IInv'
<1>1. QR /\ request[r].pc = "exchanging" /\ UNCHANGED <<kind, stored, flow, old, session, kept, lost, overlapped>>
  BY DEF ExchangeQR
<1> PICK f \in Flow : f = request[r].flow
  BY <1>1, RequestNamed DEF Unnamed
<1>2. /\ exchanges' \in [Flow -> 0 .. 2] /\ (exchanges[f] = 0 => exchanges'[f] = 1)
      /\ \A h \in Flow \ {f} : exchanges'[h] = exchanges[h]
  BY DEF ExchangeQR, IInv, Typed
<1>3. Typed'
  BY <1>1, <1>2 DEF IInv, Typed
<1>4. PICK pc \in {"storing", "failing"} : Goes(r, pc)
  BY DEF ExchangeQR
<1>5. pc \in PCs \ Unnamed /\ pc \notin {"inserting", "called", "loading", "importing"}
  BY DEF PCs, Handling, Unnamed
<1>6. MovesTo(r, pc, f, "qr") /\ request'[r].client \in Client
  BY <1>1, <1>4, <1>5, GoMoves, QRKnown DEF IInv
<1>7. \A h \in Flow \ {f} : SameFlow(h)
  BY <1>1, <1>2 DEF SameFlow
<1>8. ASSUME f \notin overlapped
      PROVE  QRFlow(f)'
  <2>1. QRFlow(f) /\ Fresh(f)
    BY <1>1, <1>8, QRKnown DEF QRRequest
  <2>2. exchanges'[f] <= 1
    BY <1>2, <2>1 DEF Fresh
  <2>3. f \notin kept' \cup lost' /\ flow'[f].state # "authorized"
    BY <1>1, <2>1 DEF Fresh, QRFlow
  <2>4. QRRequest(r, f)'
    BY <1>6, <2>3 DEF QRRequest, MovesTo
  <2> QED BY <1>1, <1>6, <1>8, <2>2, <2>3, <2>4, QRKnown, QRStep
<1> QED BY <1>1, <1>3, <1>5, <1>6, <1>7, <1>8, QRKnown, QRGoesOn

\* A QR request writes: first one of the client and the grant, then the other.
LEMMA WroteQR ==
  ASSUME IInv, NEW r \in Request, NEW new, NEW grant \in BOOLEAN, NEW pc \in {"storing rest", "finishing"},
         QR, Goes(r, pc), Written(request[r].flow, new, grant),
         request[r].pc = IF pc = "finishing" THEN "storing rest" ELSE "storing",
         new \in {[stored EXCEPT !.grant = request[r].flow], [stored EXCEPT !.client = request[r].client]},
         kind = "115cookie" <=> (grant <=> pc = "storing rest"),
         UNCHANGED <<kind, flow, old, session, exchanges, overlapped>>
  PROVE  IInv'
<1> PICK f \in Flow : f = request[r].flow
  BY RequestNamed DEF Unnamed
<1>1. new \in [client : Client, grant : Flow \cup {Imported, NoGrant}]
  BY QRKnown DEF IInv, Typed
<1>2. /\ stored' \in [client : Client, grant : Flow \cup {Imported, NoGrant}]
      /\ kept' \subseteq Flow /\ lost' \subseteq Flow /\ kept \subseteq kept' /\ lost \subseteq lost'
      /\ \A h \in Flow \ {f} : (h \in kept' <=> h \in kept) /\ (h \in lost' <=> h \in lost)
      /\ grant => f \in kept' \cup lost'
  <2>1. CASE /\ stored' = new /\ lost' = lost /\ kept' = IF grant THEN kept \cup {f} ELSE kept
    BY <1>1, <2>1 DEF IInv, Typed
  <2>2. CASE lost' = lost \cup {f} /\ UNCHANGED <<stored, kept>>
    BY <2>2 DEF IInv, Typed
  <2> QED BY <2>1, <2>2 DEF Written
<1>3. Typed'
  BY <1>2 DEF IInv, Typed
<1>4. pc \in PCs \ Unnamed
  BY DEF PCs, Handling, Unnamed
<1>5. MovesTo(r, pc, f, "qr") /\ request'[r].client \in Client
  BY <1>4, GoMoves, QRKnown DEF IInv
<1>6. \A h \in Flow \ {f} : SameFlow(h)
  BY <1>2 DEF SameFlow
<1>7. ASSUME f \notin overlapped
      PROVE  QRFlow(f)'
  <2>1. QRFlow(f) /\ QRRequest(r, f)
    BY <1>7, QRKnown
  <2>2. QRRequest(r, f)'
    <3>1. CASE pc = "storing rest"
      BY <1>2, <1>5, <3>1 DEF QRRequest, MovesTo
    <3>2. CASE pc = "finishing"
      BY <1>2, <1>5, <2>1, <3>2 DEF QRRequest, MovesTo
    <3> QED BY <3>1, <3>2
  <2>3. exchanges'[f] <= 1 /\ (flow'[f].state = "authorized" => f \in kept' \cup lost')
    BY <1>2, <2>1 DEF QRFlow
  <2> QED BY <1>5, <1>7, <2>2, <2>3, QRKnown, QRStep
<1> QED BY <1>3, <1>4, <1>5, <1>6, <1>7, QRKnown, QRGoesOn

LEMMA StoredQR ==
  ASSUME IInv, NEW r \in Request, StoreOpen(r) \/ StoreCookie(r)
  PROVE  IInv'
<1> DEFINE withGrant == [stored EXCEPT !.grant = request[r].flow]
           withClient == [stored EXCEPT !.client = request[r].client]
<1> HIDE DEF withGrant, withClient
<1>1. QR /\ UNCHANGED <<kind, flow, old, session, exchanges, overlapped>>
  BY DEF StoreOpen, StoreCookie, QR
<1>2. PICK new \in {withGrant, withClient}, grant \in BOOLEAN, pc \in {"storing rest", "finishing"} :
        /\ request[r].pc = IF pc = "finishing" THEN "storing rest" ELSE "storing"
        /\ Goes(r, pc) /\ Written(request[r].flow, new, grant)
        /\ kind = "115cookie" <=> (grant <=> pc = "storing rest")
  <2>1. CASE StoreOpen(r)
    <3>1. CASE request[r].pc = "storing"
      BY <2>1, <3>1 DEF StoreOpen, withClient
    <3>2. CASE request[r].pc = "storing rest"
      BY <2>1, <3>2 DEF StoreOpen, withGrant
    <3> QED BY <2>1, <3>1, <3>2 DEF StoreOpen
  <2>2. CASE StoreCookie(r)
    <3>1. CASE request[r].pc = "storing"
      BY <2>2, <3>1 DEF StoreCookie, withGrant
    <3>2. CASE request[r].pc = "storing rest"
      BY <2>2, <3>2 DEF StoreCookie, withClient
    <3> QED BY <2>2, <3>1, <3>2 DEF StoreCookie
  <2> QED BY <2>1, <2>2
<1> QED BY <1>1, <1>2, WroteQR DEF withGrant, withClient

\* The last step of a QR request.
LEMMA EndedQR ==
  ASSUME IInv, NEW r \in Request, QR, Finish(r) \/ Fail(r)
  PROVE  IInv'
<1>1. PICK state \in {"authorized", "error"} :
        /\ request[r].pc = IF state = "authorized" THEN "finishing" ELSE "failing"
        /\ SetState(request[r].flow, state) /\ Ends(r)
        /\ UNCHANGED <<kind, stored, session, history>>
  BY DEF Finish, Fail
<1> PICK f \in Flow : f = request[r].flow
  BY <1>1, RequestNamed DEF Unnamed
<1>2. /\ flow' \in [Flow -> FlowType] /\ old' \subseteq Flow /\ flow'[f].mode = flow[f].mode
      /\ flow'[f].client = flow[f].client
      /\ flow'[f].state \in {"gone", state} /\ (flow[f].state = "gone" => flow'[f].state = "gone")
      /\ \A h \in Flow \ {f} : flow'[h] = flow[h]
  BY <1>1, SetStateIs DEF IInv, States
<1>3. Typed'
  BY <1>1, <1>2 DEF IInv, Typed, history
<1>4. MovesTo(r, "idle", NoGrant, "qr")
  BY <1>1, EndMoves DEF IInv
<1>5. \A h \in Flow \ {f} : SameFlow(h)
  BY <1>1, <1>2 DEF SameFlow, history
<1>6. ASSUME f \notin overlapped
      PROVE  QRFlow(f)'
  <2>1. QRFlow(f) /\ QRRequest(r, f)
    BY <1>6, QRKnown
  <2>2. /\ exchanges'[f] <= 1
        /\ flow'[f].state = "authorized" => f \in kept' \cup lost'
        /\ f \in kept' => flow'[f].state \in {"gone", "authorized"}
        /\ flow'[f].state \notin {"confirming", "pending", "scanned"}
    BY <1>1, <1>2, <2>1 DEF QRRequest, QRFlow, history
  <2> QED BY <1>1, <1>4, <1>6, <2>2, QRKnown, QRStep
<1>7. "idle" \in PCs /\ "idle" \in Unnamed
  BY DEF PCs, Unnamed
<1> QED BY <1>1, <1>2, <1>3, <1>4, <1>5, <1>6, <1>7, QRKnown, QRGoesOn DEF history

-----------------------------------------------------------------------------
(* Requests of a Baidu flow *)

\* What is known of a request of a Baidu flow when it goes on.
LEMMA BaiduKnown ==
  ASSUME IInv, ~QR, NEW r \in Request, NEW f \in Flow, request[r].flow = f
  PROVE  /\ About(r, f) /\ f # NoGrant /\ session[f] \in Statuses /\ flow[f] \in FlowType
         /\ BaiduFlow(f) /\ BaiduRequest(r, f) /\ exchanges[f] <= 1
<1>1. session[f] # "none"
  BY DEF IInv, FlowInv, Opening, About
<1>2. flow[f] \in FlowType /\ session[f] \in Statuses \cup {"none"}
  BY DEF IInv, Typed
<1>3. BaiduFlow(f)
  BY DEF IInv, FlowInv
<1> QED BY <1>1, <1>2, <1>3, AuthAssumption DEF About, BaiduFlow

\* A flow that is there is not opened again.
LEMMA OpeningPresent ==
  ASSUME NEW f \in Flow, NEW r \in Request, flow[f].state # "gone", Opening(f), session' = session,
         NEW pc, NEW g, NEW mode, MovesTo(r, pc, g, mode), pc # "inserting"
  PROVE  Opening(f)'
<1>1. session'[f] # "none" /\ \A s \in Request : About(s, f) => request[s].pc # "inserting"
  BY DEF Opening
<1>2. \A s \in Request : About(s, f)' => request'[s].pc # "inserting"
  BY <1>1 DEF MovesTo, About
<1> QED BY <1>1, <1>2 DEF Opening

\* What every later step about a Baidu flow has in common.
LEMMA BaiduGoesOn ==
  ASSUME IInv, Typed', ~QR, NEW f \in Flow, NEW r \in Request,
         About(r, f) \/ (About(r, NoGrant) /\ flow[f].state # "gone"),
         NEW pc \in PCs, NEW g \in {f, NoGrant}, NEW mode, MovesTo(r, pc, g, mode),
         pc \notin {"inserting", "storing rest"}, pc \in Unnamed <=> g = NoGrant,
         kind' = kind, session' = session,
         \A h \in Flow \ {f} : SameFlow(h),
         BaiduFlow(f)'
  PROVE  IInv'
<1>1. Opening(f)'
  BY OpeningKept, OpeningPresent DEF IInv, FlowInv
<1>2. FlowFits(f)' /\ FlowInv(f)'
  BY <1>1 DEF IInv, FlowInv, FlowFits, QR
<1>3. request[r].flow \in {f, NoGrant}
  BY DEF About
<1> QED BY <1>2, <1>3, OneFlow

\* A status request comes, goes on or leaves: callbacks do not notice.
LEMMA AskerMoves ==
  ASSUME IInv, ~QR, NEW f \in Flow, NEW r \in Request, request[r].pc \in Asking \cup {"idle"},
         NEW pc \in Asking \cup {"idle"}, NEW g \in {f, NoGrant}, NEW mode, MovesTo(r, pc, g, mode),
         pc \in Asking => flow[f].state = "gone" \/ flow[f].mode = Token,
         flow'[f] = flow[f], UNCHANGED <<exchanges, kept, lost>>
  PROVE  BaiduFlow(f)'
<1>1. BaiduFlow(f)
  BY DEF IInv, FlowInv
<1>2. \A s \in Request : /\ Handles(s, f)' <=> Handles(s, f)
                         /\ Carries(s, f)' <=> Carries(s, f)
  BY DEF Handles, Carries, About, MovesTo, Asking, Handling
<1>3. \A s \in Request \ {r} : request'[s] = request[s] /\ (About(s, f)' <=> About(s, f))
  BY DEF MovesTo, About
<1>4. Fresh(f)' <=> Fresh(f)
  BY DEF Fresh
<1>5. ASSUME NEW s \in Request, About(s, f)'
      PROVE  BaiduRequest(s, f)'
  <2>1. CASE s = r
    BY <2>1 DEF BaiduRequest, MovesTo, Asking, Handling
  <2>2. CASE s # r
    <3>1. BaiduRequest(s, f)
      BY <1>1, <1>3, <1>5, <2>2 DEF BaiduFlow
    <3> QED BY <1>2, <1>3, <1>4, <2>2, <3>1 DEF BaiduRequest
  <2> QED BY <2>1, <2>2
<1>6. /\ \A s \in Request : About(s, f) /\ request[s].pc = "finishing" =>
                              About(s, f)' /\ request'[s].pc = "finishing"
  BY <1>3 DEF Asking
<1> QED BY <1>1, <1>2, <1>4, <1>5, <1>6 DEF BaiduFlow

\* The callback that carries the flow goes on.
LEMMA CarrierMoves ==
  ASSUME IInv, ~QR, NEW f \in Flow, NEW r \in Request, Carries(r, f),
         NEW pc \in Handling \ {"called"}, MovesTo(r, pc, f, request[r].mode), flow' = flow,
         exchanges'[f] <= 1, pc \in {"loading", "exchanging"} => Fresh(f)',
         f \in kept' <=> pc = "finishing"
  PROVE  BaiduFlow(f)'
<1>1. BaiduFlow(f) /\ BaiduRequest(r, f) /\ About(r, f) /\ request[r].pc \in Handling /\ request[r].mode # Token
  BY DEF IInv, FlowInv, BaiduFlow, Carries, Handles
<1>2. About(r, f)' /\ request'[r].mode # Token /\ request'[r].pc = pc
  BY <1>1 DEF MovesTo, About
<1>3. \A s \in Request : /\ Handles(s, f)' <=> Handles(s, f)
                         /\ Carries(s, f)' <=> Carries(s, f)
                         /\ About(s, f)' <=> About(s, f)
  BY <1>1, <1>2 DEF Handles, Carries, About, MovesTo
<1>4. /\ flow[f].state \in {"gone", "processing"} /\ (flow[f].state = "gone" \/ flow[f].mode = request[r].mode)
      /\ \A s \in Request : Carries(s, f) => s = r
  BY <1>1 DEF BaiduRequest
<1>5. ASSUME NEW s \in Request, About(s, f)'
      PROVE  BaiduRequest(s, f)'
  <2>1. CASE s = r
    BY <1>1, <1>2, <1>3, <1>4, <2>1 DEF BaiduRequest, MovesTo, Asking, Handling
  <2>2. CASE s # r
    <3>1. BaiduRequest(s, f) /\ request'[s] = request[s]
      BY <1>1, <1>3, <1>5, <2>2 DEF BaiduFlow, MovesTo
    <3>2. ~(request[s].pc \in Handling /\ request[s].mode # Token)
      BY <1>3, <1>4, <1>5, <2>2 DEF Carries, Handles
    <3> QED BY <3>1, <3>2 DEF BaiduRequest
  <2> QED BY <2>1, <2>2
<1>6. flow'[f].state = "processing" => \E s \in Request : Handles(s, f)'
  BY <1>2 DEF Handles
<1>7. f \in kept' => \E s \in Request : About(s, f)' /\ request'[s].pc = "finishing"
  BY <1>2
<1> QED BY <1>1, <1>4, <1>5, <1>6, <1>7 DEF BaiduFlow

\* The flow gets its new state, and with it the callbacks that only fail have
\* their way: none carries the flow.
LEMMA Settled ==
  ASSUME IInv, ~QR, NEW f \in Flow, NEW r \in Request,
         About(r, f) \/ (About(r, NoGrant) /\ request'[r] = request[r]),
         NEW g \in {NoGrant}, NEW pc \in Unnamed, NEW mode, MovesTo(r, pc, g, mode),
         \A s \in Request : Carries(s, f) => s = r /\ About(r, f),
         flow[f].state # "gone", flow'[f].mode = flow[f].mode,
         flow'[f].state \notin {"gone", "processing", "confirming"},
         flow'[f].state = "pending" => Fresh(f),
         flow'[f].state = "authorized" <=> f \in kept,
         UNCHANGED <<exchanges, kept, lost>>
  PROVE  BaiduFlow(f)'
<1>1. BaiduFlow(f) /\ NoGrant # f /\ (Fresh(f)' <=> Fresh(f))
  BY AuthAssumption DEF IInv, FlowInv, Fresh
<1>2. \A s \in Request : About(s, f)' => s # r /\ About(s, f) /\ request'[s] = request[s]
  BY <1>1 DEF MovesTo, About
<1>3. ASSUME NEW s \in Request, About(s, f)'
      PROVE  BaiduRequest(s, f)'
  <2>1. BaiduRequest(s, f) /\ request'[s] = request[s]
    BY <1>1, <1>2, <1>3 DEF BaiduFlow
  <2>2. ~(request[s].pc \in Handling /\ request[s].mode # Token)
    BY <1>2, <1>3 DEF Carries, Handles
  <2> QED BY <2>1, <2>2 DEF BaiduRequest
<1> QED BY <1>1, <1>3 DEF BaiduFlow

\* A request about a flow that was pruned leaves nothing behind.
LEMMA LeavesGone ==
  ASSUME IInv, ~QR, NEW f \in Flow, NEW r \in Request, About(r, f), MovesTo(r, "idle", NoGrant, "qr"),
         flow[f].state = "gone", flow'[f].state = "gone", UNCHANGED <<exchanges, kept, lost>>
  PROVE  BaiduFlow(f)'
<1>1. BaiduFlow(f) /\ NoGrant # f /\ (Fresh(f)' <=> Fresh(f))
  BY AuthAssumption DEF IInv, FlowInv, Fresh
<1>2. \A s \in Request : /\ About(s, f)' => s # r /\ About(s, f) /\ request'[s] = request[s]
                         /\ Carries(s, f)' => Carries(s, f)
  BY <1>1 DEF MovesTo, About, Carries, Handles
<1>3. ASSUME NEW s \in Request, About(s, f)'
      PROVE  BaiduRequest(s, f)'
  <2>1. BaiduRequest(s, f) /\ request'[s] = request[s]
    BY <1>1, <1>2, <1>3 DEF BaiduFlow
  <2> QED BY <1>1, <1>2, <2>1 DEF BaiduRequest
<1> QED BY <1>1, <1>3 DEF BaiduFlow

\* Who carries a flow holds it in processing, if it is still there.
LEMMA NoCarrier ==
  ASSUME IInv, ~QR, NEW f \in Flow, flow[f].state # "gone",
         flow[f].mode = Token \/ flow[f].state # "processing"
  PROVE  \A s \in Request : ~Carries(s, f)
BY DEF IInv, FlowInv, BaiduFlow, BaiduRequest, Carries, Handles

LEMMA PolledBroker ==
  ASSUME IInv, NEW r \in Request, NEW f \in Flow, StatusBroker(r, f)
  PROVE  IInv'
<1> DEFINE q == [Idle EXCEPT !.pc = "asking", !.flow = f]
<1>1. /\ ~QR /\ request[r].pc = "idle" /\ flow[f].state # "gone" /\ f \notin old
      /\ flow' = Prune(flow) /\ old' = {} /\ flow[f].mode = Token
      /\ request' = [request EXCEPT ![r] = q]
      /\ UNCHANGED <<kind, stored, session, history>>
  BY DEF StatusBroker, Present, Token
<1>2. q \in RequestType /\ q.pc = "asking" /\ q.flow = f /\ q.mode = "qr"
  BY DEF Idle, RequestType, PCs, Asking, Statuses
<1> HIDE DEF q
<1>3. MovesTo(r, "asking", f, "qr")
  BY <1>1, <1>2, NewMoves DEF IInv
<1>4. /\ flow' \in [Flow -> FlowType] /\ flow'[f] = flow[f]
      /\ \A h \in Flow \ {f} : flow'[h] = Gone \/ flow'[h] = flow[h]
  BY <1>1, PruneIs DEF IInv
<1>5. Typed'
  BY <1>1, <1>4 DEF IInv, Typed, history
<1>6. \A h \in Flow \ {f} : SameFlow(h)
  BY <1>1, <1>4 DEF SameFlow, history
<1>7. About(r, NoGrant) /\ f # NoGrant
  BY <1>1, RequestUnnamed, AuthAssumption DEF About, Unnamed
<1>8. "asking" \in PCs \ Unnamed /\ "asking" \in Asking
  BY DEF PCs, Unnamed, Asking
<1>9. UNCHANGED <<exchanges, kept, lost>>
  BY <1>1 DEF history
<1>10. BaiduFlow(f)'
  BY <1>1, <1>3, <1>4, <1>8, <1>9, AskerMoves
<1> QED BY <1>1, <1>3, <1>5, <1>6, <1>7, <1>8, <1>10, BaiduGoesOn

LEMMA AskedBroker ==
  ASSUME IInv, NEW r \in Request, AskBroker(r)
  PROVE  IInv'
<1>1. ~QR /\ request[r].pc = "asking" /\ UNCHANGED <<kind, stored, flow, old, session, history>>
  BY DEF AskBroker
<1> PICK f \in Flow : f = request[r].flow
  BY <1>1, RequestNamed DEF Unnamed
<1>2. Typed'
  BY <1>1 DEF IInv, Typed, history
<1>3. \A h \in Flow \ {f} : SameFlow(h)
  BY <1>1 DEF SameFlow, history
<1>4. UNCHANGED <<exchanges, kept, lost>> /\ request[r].pc \in Asking
  BY <1>1 DEF history, Asking
<1>5. About(r, f) /\ (flow[f].state = "gone" \/ flow[f].mode = Token) /\ f # NoGrant
  BY <1>1, <1>4, BaiduKnown DEF BaiduRequest
<1>6. CASE Answered(r)
  <2> DEFINE q == [request[r] EXCEPT !.pc = "noting", !.status = session[f]]
  <2>1. request' = [request EXCEPT ![r] = q]
    BY <1>6 DEF Answered
  <2>2. request[r] \in RequestType /\ session[f] \in Statuses
    BY <1>1, BaiduKnown DEF IInv, RequestsTyped
  <2>3. q \in RequestType /\ q.pc = "noting" /\ q.flow = request[r].flow /\ q.mode = request[r].mode
    BY <2>2 DEF RequestType, PCs, Asking
  <2> HIDE DEF q
  <2>4. MovesTo(r, "noting", f, request[r].mode)
    BY <2>1, <2>3, NewMoves DEF IInv
  <2>5. "noting" \in PCs \ Unnamed /\ "noting" \in Asking
    BY DEF PCs, Unnamed, Asking
  <2>6. BaiduFlow(f)'
    BY <1>1, <1>4, <1>5, <2>4, <2>5, AskerMoves
  <2> QED BY <1>1, <1>2, <1>3, <1>5, <2>4, <2>5, <2>6, BaiduGoesOn
<1>7. CASE Ends(r)
  <2>1. MovesTo(r, "idle", NoGrant, "qr")
    BY <1>7, EndMoves DEF IInv
  <2>2. "idle" \in PCs /\ "idle" \in Unnamed /\ "idle" \notin Asking
    BY DEF PCs, Unnamed, Asking
  <2>3. BaiduFlow(f)'
    BY <1>1, <1>4, <1>5, <2>1, <2>2, AskerMoves
  <2> QED BY <1>1, <1>2, <1>3, <1>5, <2>1, <2>2, <2>3, BaiduGoesOn
<1> QED BY <1>6, <1>7 DEF AskBroker

\* A step that ends a request of a Baidu flow and gives the flow its state.
LEMMA EndsWith ==
  ASSUME IInv, ~QR, NEW r \in Request, NEW f \in Flow, f = request[r].flow,
         NEW state \in {"pending", "completed", "failed", "expired", "authorized", "error"},
         NEW late \in BOOLEAN, Update(f, state, late), Ends(r), UNCHANGED <<kind, stored, session, history>>,
         flow[f].state # "gone" =>
           /\ \A s \in Request : Carries(s, f) => s = r
           /\ state = "pending" => Fresh(f)
           /\ state = "authorized" <=> f \in kept
  PROVE  IInv'
<1>1. /\ flow' \in [Flow -> FlowType] /\ old' \subseteq Flow /\ flow'[f].mode = flow[f].mode
      /\ flow[f].state = "gone" => flow'[f].state = "gone"
      /\ flow[f].state # "gone" => flow'[f].state = state
      /\ \A h \in Flow \ {f} : flow'[h] = flow[h]
  BY UpdateIs DEF IInv, States
<1>2. Typed'
  BY <1>1 DEF IInv, Typed, history
<1>3. \A h \in Flow \ {f} : SameFlow(h)
  BY <1>1 DEF SameFlow, history
<1>4. MovesTo(r, "idle", NoGrant, "qr")
  BY EndMoves DEF IInv
<1>5. "idle" \in PCs /\ "idle" \in Unnamed
  BY DEF PCs, Unnamed
<1>6. About(r, f) /\ UNCHANGED <<exchanges, kept, lost>>
  BY DEF About, history
<1>7. BaiduFlow(f)'
  <2>1. CASE flow[f].state = "gone"
    BY <1>1, <1>4, <1>6, <2>1, LeavesGone
  <2>2. CASE flow[f].state # "gone"
    <3>1. /\ flow'[f].state \notin {"gone", "processing", "confirming"}
          /\ flow'[f].state = "pending" => Fresh(f)
          /\ flow'[f].state = "authorized" <=> f \in kept
          /\ \A s \in Request : Carries(s, f) => s = r /\ About(r, f)
      BY <1>1, <1>6, <2>2
    <3> QED BY <1>1, <1>4, <1>5, <1>6, <2>2, <3>1, Settled
  <2> QED BY <2>1, <2>2
<1> QED BY <1>2, <1>3, <1>4, <1>5, <1>6, <1>7, BaiduGoesOn

LEMMA NotedBroker ==
  ASSUME IInv, NEW r \in Request, NoteBroker(r)
  PROVE  IInv'
<1>1. /\ ~QR /\ request[r].pc = "noting" /\ Ends(r)
      /\ UNCHANGED <<kind, stored, session, history>>
  BY DEF NoteBroker
<1> PICK f \in Flow : f = request[r].flow
  BY <1>1, RequestNamed DEF Unnamed
<1>2. PICK state \in {"pending", "completed", "failed", "expired"}, late \in BOOLEAN :
        Update(f, state, late)
  <2>1. request[r].status \in Statuses
    BY DEF IInv, RequestsTyped, RequestType
  <2> QED BY <2>1 DEF NoteBroker, Statuses
<1>3. /\ BaiduFlow(f) /\ (flow[f].state = "gone" \/ flow[f].mode = Token)
  BY <1>1, BaiduKnown DEF BaiduRequest, Asking
<1>4. ASSUME flow[f].state # "gone"
      PROVE  /\ \A s \in Request : ~Carries(s, f)
             /\ Fresh(f) /\ f \notin kept
  BY <1>1, <1>3, <1>4, NoCarrier DEF BaiduFlow, Fresh
<1> QED BY <1>1, <1>2, <1>4, EndsWith

LEMMA CalledBack ==
  ASSUME IInv, NEW r \in Request, NEW f \in Flow, NEW via \in {"state", "client_state"},
         NEW says \in {"code", "error"}, Callback(r, f, via, says)
  PROVE  IInv'
<1>1. /\ ~QR /\ request[r].pc = "idle" /\ flow[f].state = "pending" /\ f \notin old /\ old' = {}
      /\ UNCHANGED <<kind, stored, session, history>>
  BY DEF Callback, Present, Consumed
<1>2. /\ Typed /\ Prune(flow) \in [Flow -> FlowType] /\ Prune(flow)[f] = flow[f] /\ flow[f] \in FlowType
      /\ \A h \in Flow : Prune(flow)[h] = Gone \/ Prune(flow)[h] = flow[h]
  BY <1>1, PruneIs DEF IInv, Typed
<1>3. BaiduFlow(f) /\ Fresh(f) /\ f \notin kept /\ \A s \in Request : ~Carries(s, f)
  BY <1>1, NoCarrier DEF IInv, FlowInv, BaiduFlow, Fresh
<1>4. About(r, NoGrant) /\ request[r].flow = NoGrant /\ f # NoGrant
  BY <1>1, RequestUnnamed, AuthAssumption DEF About, Unnamed
<1>5. UNCHANGED <<exchanges, kept, lost>>
  BY <1>1 DEF history
<1>6. ASSUME NEW state \in {"processing", "expired"}, flow' = [Prune(flow) EXCEPT ![f].state = state]
      PROVE  /\ Typed' /\ flow'[f].state = state /\ flow'[f].mode = flow[f].mode
             /\ \A h \in Flow \ {f} : SameFlow(h)
  <2> DEFINE w == [flow[f] EXCEPT !.state = state]
  <2>1. w \in FlowType /\ w.state = state /\ w.mode = flow[f].mode
    BY <1>2 DEF FlowType, States
  <2>2. flow' = [Prune(flow) EXCEPT ![f] = w]
    BY <1>2, <1>6
  <2> HIDE DEF w
  <2>3. flow' \in [Flow -> FlowType] /\ flow'[f] = w /\ \A h \in Flow \ {f} : flow'[h] = Prune(flow)[h]
    BY <1>2, <2>1, <2>2
  <2>4. Typed'
    BY <1>1, <1>2, <2>3 DEF Typed, history
  <2>5. \A h \in Flow \ {f} : SameFlow(h)
    BY <1>1, <1>2, <2>3 DEF SameFlow, history
  <2> QED BY <2>1, <2>3, <2>4, <2>5
<1>7. CASE /\ Consumed(f)
           /\ request' = [request EXCEPT ![r] = [Idle EXCEPT
                !.pc = "called", !.flow = f, !.mode = flow[f].mode, !.client = flow[f].client,
                !.via = via, !.says = says]]
  <2> DEFINE q == [Idle EXCEPT !.pc = "called", !.flow = f, !.mode = flow[f].mode,
                               !.client = flow[f].client, !.via = via, !.says = says]
  <2>1. q \in RequestType /\ q.pc = "called" /\ q.flow = f /\ q.mode = flow[f].mode
    BY <1>2 DEF Idle, RequestType, FlowType, PCs, Handling, Statuses
  <2>2. request' = [request EXCEPT ![r] = q]
    BY <1>7
  <2> HIDE DEF q
  <2> PICK mode : mode = flow[f].mode
    OBVIOUS
  <2>3. MovesTo(r, "called", f, mode)
    BY <2>1, <2>2, NewMoves DEF IInv
  <2>4. /\ Typed' /\ flow'[f].state = "processing" /\ flow'[f].mode = mode
        /\ \A h \in Flow \ {f} : SameFlow(h)
    BY <1>6, <1>7 DEF Consumed
  <2>5. /\ \A s \in Request \ {r} : request'[s] = request[s] /\ (About(s, f)' <=> About(s, f))
                                     /\ ~Carries(s, f)'
        /\ About(r, f)' /\ request'[r].pc = "called" /\ request'[r].mode = mode
        /\ Handles(r, f)'
    BY <1>3, <2>3 DEF MovesTo, About, Carries, Handles, Handling
  <2>6. Fresh(f)' /\ f \notin kept' /\ exchanges'[f] <= 1
    BY <1>3, <1>5 DEF Fresh
  <2>7. ASSUME NEW s \in Request, About(s, f)'
        PROVE  BaiduRequest(s, f)'
    <3>1. CASE s = r
      BY <2>4, <2>5, <2>6, <3>1 DEF BaiduRequest, Asking, Handling
    <3>2. CASE s # r
      <4>1. BaiduRequest(s, f) /\ request'[s] = request[s]
        BY <1>3, <2>5, <2>7, <3>2 DEF BaiduFlow
      <4>2. ~(request'[s].pc \in Handling /\ request'[s].mode # Token)
        BY <2>5, <2>7, <3>2 DEF Carries, Handles
      <4> QED BY <1>1, <2>4, <4>1, <4>2 DEF BaiduRequest
    <3> QED BY <3>1, <3>2
  <2>8. BaiduFlow(f)'
    BY <2>4, <2>5, <2>6, <2>7 DEF BaiduFlow
  <2>9. "called" \in PCs \ Unnamed
    BY DEF PCs, Handling, Unnamed
  <2> QED BY <1>1, <1>4, <2>3, <2>4, <2>8, <2>9, BaiduGoesOn
<1>8. CASE flow' = [Prune(flow) EXCEPT ![f].state = "expired"] /\ request' = request
  <2> PICK mode : mode = request[r].mode
    OBVIOUS
  <2>1. MovesTo(r, "idle", NoGrant, mode)
    BY <1>1, <1>4, <1>8 DEF MovesTo, IInv, RequestsTyped
  <2>2. /\ Typed' /\ flow'[f].state = "expired" /\ flow'[f].mode = flow[f].mode
        /\ \A h \in Flow \ {f} : SameFlow(h)
    BY <1>6, <1>8
  <2>3. "idle" \in PCs /\ "idle" \in Unnamed
    BY DEF PCs, Unnamed
  <2>4. BaiduFlow(f)'
    BY <1>1, <1>3, <1>4, <1>5, <1>8, <2>1, <2>2, <2>3, Settled
  <2> QED BY <1>1, <1>4, <2>1, <2>2, <2>3, <2>4, BaiduGoesOn
<1> QED BY <1>7, <1>8 DEF Callback

-----------------------------------------------------------------------------
(* The callback that carries a flow *)

\* It goes on, whatever the step writes.
LEMMA CarrierGoesOn ==
  ASSUME IInv, Typed', ~QR, NEW r \in Request, NEW f \in Flow, Carries(r, f),
         NEW pc \in Handling \ {"called"}, NEW mode, mode = request[r].mode, MovesTo(r, pc, f, mode),
         kind' = kind, flow' = flow, session' = session,
         \A h \in Flow \ {f} : SameFlow(h),
         exchanges'[f] <= 1, pc \in {"loading", "exchanging"} => Fresh(f)',
         f \in kept' <=> pc = "finishing"
  PROVE  IInv'
<1>1. BaiduFlow(f)'
  BY CarrierMoves
<1>2. About(r, f) /\ pc \in PCs /\ pc \notin {"inserting", "storing rest"} /\ pc \notin Unnamed /\ f # NoGrant
  BY AuthAssumption DEF Carries, Handles, PCs, Handling, Unnamed
<1> QED BY <1>1, <1>2, BaiduGoesOn

\* Beyond its first check a callback carries the flow.
LEMMA CarrierKnown ==
  ASSUME IInv, ~QR, NEW r \in Request, request[r].pc \in {"loading", "exchanging", "storing", "finishing"}
  PROVE  /\ request[r].flow \in Flow /\ Carries(r, request[r].flow)
         /\ BaiduRequest(r, request[r].flow) /\ BaiduFlow(request[r].flow)
<1>1. request[r].flow \in Flow
  BY RequestNamed DEF Unnamed
<1>2. BaiduRequest(r, request[r].flow) /\ BaiduFlow(request[r].flow)
  BY <1>1, BaiduKnown
<1> QED BY <1>1, <1>2 DEF Carries, Handles, BaiduRequest, Handling, About

LEMMA CallbackChecked ==
  ASSUME IInv, NEW r \in Request, CheckCallback(r)
  PROVE  IInv'
<1>1. request[r].pc = "called" /\ UNCHANGED <<kind, stored, flow, old, session, history>>
  BY DEF CheckCallback
<1>2. ~QR
  BY <1>1 DEF IInv, RequestFits
<1> PICK f \in Flow : f = request[r].flow
  BY <1>1, RequestNamed DEF Unnamed
<1> PICK mode : mode = request[r].mode
  OBVIOUS
<1>3. PICK pc \in {"loading", "failing"} :
        /\ request' = [request EXCEPT ![r] = [Idle EXCEPT !.flow = f, !.mode = mode,
                         !.client = request[r].client, !.pc = pc]]
        /\ mode = Token => pc = "failing"
  <2> DEFINE q == request[r]
             expected == [official |-> "state", broker_relay |-> "client_state",
                          broker_token_exchange |-> "none"][q.mode]
  <2>1. mode = Token => expected = "none"
    BY DEF Token
  <2>2. q.via \in {"state", "client_state"}
    BY DEF IInv, RequestsTyped, RequestType
  <2>3. request' = [request EXCEPT ![r] = [Idle EXCEPT !.flow = q.flow, !.mode = q.mode,
          !.client = q.client,
          !.pc = IF q.via = expected /\ q.says = "code" THEN "loading" ELSE "failing"]]
    BY DEF CheckCallback
  <2>4. mode = Token => q.via # expected
    BY <2>1, <2>2
  <2> HIDE DEF expected
  <2> QED BY <2>3, <2>4
<1> DEFINE w == [Idle EXCEPT !.flow = f, !.mode = mode, !.client = request[r].client, !.pc = pc]
<1>4. w \in RequestType /\ w.pc = pc /\ w.flow = f /\ w.mode = mode
  <2>1. request[r] \in RequestType
    BY DEF IInv, RequestsTyped
  <2> QED BY <2>1 DEF Idle, RequestType, PCs, Handling, Statuses
<1>5. request' = [request EXCEPT ![r] = w]
  BY <1>3
<1> HIDE DEF w
<1>6. MovesTo(r, pc, f, mode)
  BY <1>4, <1>5, NewMoves DEF IInv
<1>7. Typed' /\ UNCHANGED <<exchanges, kept, lost>> /\ \A h \in Flow \ {f} : SameFlow(h)
  BY <1>1 DEF IInv, Typed, history, SameFlow
<1>8. BaiduFlow(f) /\ BaiduRequest(r, f) /\ About(r, f) /\ f # NoGrant
  BY <1>2, BaiduKnown
<1>9. pc \in Handling \ {"called"} /\ "called" \in Handling
  BY DEF Handling
<1>10. CASE mode # Token
  <2>1. Carries(r, f)
    BY <1>1, <1>8, <1>9, <1>10 DEF Carries, Handles
  <2>2. Fresh(f) /\ f \notin kept /\ exchanges[f] <= 1
    BY <1>1, <1>8, <1>9, <1>10 DEF BaiduRequest, BaiduFlow
  <2>3. Fresh(f)' /\ exchanges'[f] <= 1 /\ f \notin kept' /\ pc # "finishing"
    BY <1>7, <2>2 DEF Fresh
  <2> QED BY <1>1, <1>2, <1>6, <1>7, <1>9, <2>1, <2>3, CarrierGoesOn
<1>11. CASE mode = Token
  <2>1. \A s \in Request : /\ Handles(s, f)' <=> Handles(s, f)
                           /\ Carries(s, f)' <=> Carries(s, f)
                           /\ About(s, f)' <=> About(s, f)
    BY <1>1, <1>6, <1>8, <1>9, <1>11 DEF Handles, Carries, About, MovesTo
  <2>2. Fresh(f)' <=> Fresh(f)
    BY <1>7 DEF Fresh
  <2>3. ASSUME NEW s \in Request, About(s, f)'
        PROVE  BaiduRequest(s, f)'
    <3>1. CASE s = r
      BY <1>1, <1>3, <1>6, <1>8, <1>9, <1>11, <3>1 DEF BaiduRequest, MovesTo, Asking
    <3>2. CASE s # r
      <4>1. BaiduRequest(s, f) /\ request'[s] = request[s]
        BY <1>6, <1>8, <2>1, <2>3, <3>2 DEF BaiduFlow, MovesTo
      <4> QED BY <1>1, <1>7, <2>1, <2>2, <4>1 DEF BaiduRequest
    <3> QED BY <3>1, <3>2
  <2>4. \A s \in Request : About(s, f) /\ request[s].pc = "finishing" =>
                             About(s, f)' /\ request'[s].pc = "finishing"
    BY <1>1, <1>6, <2>1 DEF MovesTo
  <2>5. BaiduFlow(f)'
    BY <1>1, <1>7, <1>8, <2>1, <2>2, <2>3, <2>4 DEF BaiduFlow
  <2>6. pc \in PCs \ Unnamed /\ pc \notin {"inserting", "storing rest"}
    BY DEF PCs, Handling, Unnamed
  <2> QED BY <1>1, <1>2, <1>6, <1>7, <1>8, <2>5, <2>6, BaiduGoesOn
<1> QED BY <1>10, <1>11

LEMMA ClientLoaded ==
  ASSUME IInv, NEW r \in Request, LoadClient(r)
  PROVE  IInv'
<1>1. request[r].pc = "loading" /\ UNCHANGED <<kind, stored, flow, old, session, history>>
  BY DEF LoadClient
<1>2. ~QR
  BY <1>1 DEF IInv, RequestFits
<1> PICK f \in Flow : f = request[r].flow
  BY <1>1, <1>2, CarrierKnown
<1> PICK mode : mode = request[r].mode
  OBVIOUS
<1>3. PICK pc \in {"exchanging", "failing"} : Goes(r, pc)
  BY DEF LoadClient
<1>4. pc \in PCs /\ pc \in Handling \ {"called"} /\ pc # "finishing" /\ "loading" \in Handling
  BY DEF PCs, Handling
<1>5. MovesTo(r, pc, f, mode)
  BY <1>3, <1>4, GoMoves DEF IInv
<1>6. Typed' /\ UNCHANGED <<exchanges, kept, lost>> /\ \A h \in Flow \ {f} : SameFlow(h)
  BY <1>1 DEF IInv, Typed, history, SameFlow
<1>7. Carries(r, f) /\ Fresh(f) /\ f \notin kept /\ exchanges[f] <= 1
  BY <1>1, <1>2, <1>4, CarrierKnown DEF BaiduRequest, BaiduFlow
<1>8. Fresh(f)' /\ f \notin kept' /\ exchanges'[f] <= 1
  BY <1>6, <1>7 DEF Fresh
<1> QED BY <1>1, <1>2, <1>4, <1>5, <1>6, <1>7, <1>8, CarrierGoesOn

LEMMA CodeExchanged ==
  ASSUME IInv, NEW r \in Request, ExchangeCode(r)
  PROVE  IInv'
<1>1. /\ ~QR /\ request[r].pc = "exchanging"
      /\ UNCHANGED <<kind, stored, flow, old, session, kept, lost, overlapped>>
  BY DEF ExchangeCode
<1> PICK f \in Flow : f = request[r].flow
  BY <1>1, CarrierKnown
<1> PICK mode : mode = request[r].mode
  OBVIOUS
<1>2. /\ exchanges' \in [Flow -> 0 .. 2] /\ (exchanges[f] = 0 => exchanges'[f] = 1)
      /\ \A h \in Flow \ {f} : exchanges'[h] = exchanges[h]
  BY DEF ExchangeCode, IInv, Typed
<1>3. PICK pc \in {"storing", "failing"} : Goes(r, pc)
  BY DEF ExchangeCode
<1>4. /\ pc \in PCs /\ pc \in Handling \ {"called"} /\ "exchanging" \in Handling
      /\ pc \notin {"loading", "exchanging", "finishing"}
  BY DEF PCs, Handling
<1>5. MovesTo(r, pc, f, mode)
  BY <1>3, <1>4, GoMoves DEF IInv
<1>6. Typed' /\ \A h \in Flow \ {f} : SameFlow(h)
  BY <1>1, <1>2 DEF IInv, Typed, SameFlow
<1>7. Carries(r, f) /\ Fresh(f) /\ f \notin kept
  BY <1>1, <1>4, CarrierKnown DEF BaiduRequest
<1>8. f \notin kept' /\ exchanges'[f] <= 1
  BY <1>1, <1>2, <1>7 DEF Fresh
<1> QED BY <1>1, <1>4, <1>5, <1>6, <1>7, <1>8, CarrierGoesOn

LEMMA TokensPersisted ==
  ASSUME IInv, NEW r \in Request, PersistTokens(r)
  PROVE  IInv'
<1>1. /\ ~QR /\ request[r].pc = "storing"
      /\ UNCHANGED <<kind, flow, old, session, exchanges, lost, overlapped>>
  BY DEF PersistTokens
<1> PICK f \in Flow : f = request[r].flow
  BY <1>1, CarrierKnown
<1> PICK mode : mode = request[r].mode
  OBVIOUS
<1>2. Carries(r, f) /\ f \notin kept /\ exchanges[f] <= 1
  <2>1. "storing" \in Handling
    BY DEF Handling
  <2> QED BY <1>1, <2>1, CarrierKnown DEF BaiduRequest, BaiduFlow
<1>3. PICK pc \in {"finishing", "failing"} :
        /\ Goes(r, pc) /\ kept' = (IF pc = "finishing" THEN kept \cup {f} ELSE kept)
        /\ stored' \in {stored, [stored EXCEPT !.grant = f]}
  BY DEF PersistTokens, NotPersisted
<1>4. /\ pc \in PCs /\ pc \in Handling \ {"called"}
      /\ pc \notin {"loading", "exchanging"}
  BY DEF PCs, Handling
<1>5. MovesTo(r, pc, f, mode)
  BY <1>3, <1>4, GoMoves DEF IInv
<1>6. Typed' /\ \A h \in Flow \ {f} : SameFlow(h)
  BY <1>1, <1>3 DEF IInv, Typed, SameFlow
<1>7. (f \in kept' <=> pc = "finishing") /\ exchanges'[f] <= 1
  BY <1>1, <1>2, <1>3
<1> QED BY <1>1, <1>2, <1>4, <1>5, <1>6, <1>7, CarrierGoesOn

\* The last step of a callback.
LEMMA EndedBaidu ==
  ASSUME IInv, NEW r \in Request, ~QR, Finish(r) \/ Fail(r)
  PROVE  IInv'
<1>1. PICK state \in {"authorized", "error"} :
        /\ request[r].pc = IF state = "authorized" THEN "finishing" ELSE "failing"
        /\ SetState(request[r].flow, state) /\ Ends(r)
        /\ UNCHANGED <<kind, stored, session, history>>
  BY DEF Finish, Fail
<1> PICK f \in Flow : f = request[r].flow
  BY <1>1, RequestNamed DEF Unnamed
<1>2. BaiduFlow(f) /\ BaiduRequest(r, f) /\ About(r, f) /\ request[r].pc \in Handling
  BY <1>1, BaiduKnown DEF Handling
<1>3. ASSUME flow[f].state # "gone"
      PROVE  /\ \A s \in Request : Carries(s, f) => s = r
             /\ state = "authorized" <=> f \in kept
  <2>1. CASE request[r].mode # Token
    BY <1>1, <1>2, <2>1 DEF BaiduRequest
  <2>2. CASE request[r].mode = Token
    <3>1. flow[f].mode = Token /\ state = "error"
      BY <1>1, <1>2, <1>3, <2>2 DEF BaiduRequest
    <3>2. f \notin kept
      BY <1>2, <1>3, <3>1 DEF BaiduFlow, Fresh
    <3> QED BY <1>3, <3>1, <3>2, NoCarrier
  <2> QED BY <2>1, <2>2
<1>4. flow[f].late \in BOOLEAN /\ Update(f, state, flow[f].late)
  BY <1>1 DEF SetState, IInv, Typed, FlowType
<1> QED BY <1>1, <1>3, <1>4, EndsWith

-----------------------------------------------------------------------------
(* Imports, the user, the clock and the process *)

LEMMA ImportStepped ==
  ASSUME IInv, NEW r \in Request, ImportBaidu(r) \/ PersistImport(r)
  PROVE  IInv'
<1>1. /\ kind' = kind /\ UNCHANGED <<flow, old, session, history>> /\ request[r].pc \in Unnamed
      /\ stored' \in {stored, [stored EXCEPT !.grant = Imported]}
      /\ ~QR
  <2>1. CASE ImportBaidu(r)
    BY <2>1 DEF ImportBaidu, Unnamed, QR
  <2>2. CASE PersistImport(r)
    BY <2>2 DEF PersistImport, Unnamed, IInv, RequestFits
  <2> QED BY <2>1, <2>2
<1>2. PICK q \in RequestType : request' = [request EXCEPT ![r] = q] /\ q.flow = NoGrant /\ q.pc \in Unnamed
  <2>1. CASE ImportBaidu(r)
    <3> DEFINE q == [Idle EXCEPT !.pc = "importing", !.client = stored.client]
    <3>1. q \in RequestType /\ q.flow = NoGrant /\ q.pc \in Unnamed
      BY DEF IInv, Typed, Idle, RequestType, PCs, Unnamed, Statuses
    <3>2. request' = [request EXCEPT ![r] = q]
      BY <2>1 DEF ImportBaidu
    <3> QED BY <3>1, <3>2
  <2>2. CASE PersistImport(r)
    BY <2>2, IdleIs DEF PersistImport, Ends, Unnamed
  <2> QED BY <2>1, <2>2
<1>3. request[r].flow = NoGrant
  BY <1>1, RequestUnnamed
<1>4. /\ request' \in [Request -> RequestType] /\ request'[r] = q
      /\ \A s \in Request \ {r} : request'[s] = request[s]
  BY <1>2 DEF IInv, RequestsTyped
<1>5. RequestsTyped'
  BY <1>2, <1>4 DEF IInv, RequestsTyped, About
<1>6. \A s \in Request : RequestFits(s)'
  BY <1>1, <1>2, <1>4 DEF IInv, RequestFits, QR, Unnamed
<1>7. Typed'
  BY <1>1 DEF IInv, Typed, history
<1>8. \A f \in Flow : SameFlow(f)
  BY <1>1 DEF SameFlow, history
<1> QED BY <1>1, <1>2, <1>3, <1>4, <1>5, <1>6, <1>7, <1>8, NoFlow

\* A step that leaves the requests alone.
LEMMA Beside ==
  ASSUME IInv, Typed', kind' = kind, request' = request, \A f \in Flow : SameFlow(f)
  PROVE  IInv'
<1>1. RequestsTyped' /\ \A s \in Request : RequestFits(s)'
  BY DEF IInv, RequestsTyped, RequestFits, About, QR
<1> QED BY <1>1, NoFlow

LEMMA StoredAnew ==
  ASSUME IInv, NEW client \in Client, ImportOpen(client) \/ Credentials(client)
  PROVE  IInv'
<1>1. /\ UNCHANGED <<kind, flow, old, session, request, history>>
      /\ stored' \in [client : Client, grant : Flow \cup {Imported, NoGrant}]
  BY DEF ImportOpen, Credentials
<1>2. Typed' /\ \A f \in Flow : SameFlow(f)
  BY <1>1 DEF IInv, Typed, SameFlow, history
<1> QED BY <1>1, <1>2, Beside

LEMMA UserStepped ==
  ASSUME IInv, NEW f \in Flow, User(f)
  PROVE  IInv'
<1>1. /\ UNCHANGED <<kind, stored, flow, old, request, history>>
      /\ session[f] # "none" /\ \E s \in Statuses : session' = [session EXCEPT ![f] = s]
  BY DEF User, Statuses
<1>2. /\ session' \in [Flow -> Statuses \cup {"none"}]
      /\ \A h \in Flow : session'[h] = "none" => session[h] = "none"
  BY <1>1 DEF IInv, Typed, Statuses
<1>3. Typed' /\ \A h \in Flow : SameFlow(h)
  BY <1>1, <1>2 DEF IInv, Typed, SameFlow, history
<1> QED BY <1>1, <1>3, Beside

LEMMA ClockStepped ==
  ASSUME IInv, NEW f \in Flow, Expire(f) \/ Age(f)
  PROVE  IInv'
<1>1. UNCHANGED <<kind, stored, session, request, history>>
  BY DEF Expire, Age
<1>2. /\ flow' \in [Flow -> FlowType] /\ old' \subseteq Flow
      /\ \A h \in Flow : /\ flow'[h].state = flow[h].state /\ flow'[h].mode = flow[h].mode
                         /\ flow'[h].client = flow[h].client
  <2>1. CASE Expire(f)
    <3> DEFINE w == [flow[f] EXCEPT !.late = TRUE]
    <3>1. flow[f] \in FlowType
      BY DEF IInv, Typed
    <3>2. w \in FlowType /\ w.state = flow[f].state /\ w.mode = flow[f].mode /\ w.client = flow[f].client
      BY <3>1 DEF FlowType
    <3>3. flow' = [flow EXCEPT ![f] = w] /\ old' = old
      BY <2>1 DEF Expire
    <3> HIDE DEF w
    <3> QED BY <3>2, <3>3 DEF IInv, Typed
  <2>2. CASE Age(f)
    BY <2>2 DEF Age, IInv, Typed
  <2> QED BY <2>1, <2>2
<1>3. Typed' /\ \A h \in Flow : SameFlow(h)
  BY <1>1, <1>2 DEF IInv, Typed, SameFlow, history
<1> QED BY <1>1, <1>3, Beside

\* Without flows and requests nothing is left to go wrong.
LEMMA Restarted ==
  ASSUME IInv, Restart
  PROVE  IInv'
<1>1. /\ UNCHANGED <<kind, stored, session, history>> /\ old' = {}
      /\ flow' = [f \in Flow |-> Gone] /\ request' = [r \in Request |-> Idle]
  BY DEF Restart
<1>2. /\ \A f \in Flow : flow'[f] = Gone /\ flow'[f].state = "gone" /\ flow'[f].mode = "qr"
      /\ \A r \in Request : request'[r] = Idle
  BY <1>1, IdleIs
<1>3. Typed'
  BY <1>1, IdleIs DEF IInv, Typed, history
<1>4. RequestsTyped' /\ \A r \in Request : RequestFits(r)'
  BY <1>1, <1>2, IdleIs DEF RequestsTyped, RequestFits, About, Unnamed
<1>5. ASSUME NEW f \in Flow
      PROVE  FlowFits(f)' /\ FlowInv(f)'
  <2>1. (\A r \in Request : ~About(r, f)') /\ (Fresh(f)' <=> Fresh(f)) /\ (QR' <=> QR)
    BY <1>1, <1>2, IdleIs, AuthAssumption DEF About, Fresh, history, QR
  <2>2. Opening(f)'
    BY <1>1, <1>2, <2>1 DEF IInv, FlowInv, Opening
  <2>3. ASSUME QR, f \notin overlapped
        PROVE  QRFlow(f)'
    <3>1. QRFlow(f)
      BY <2>3 DEF IInv, FlowInv
    <3>2. exchanges'[f] <= 1
      BY <1>1, <3>1 DEF QRFlow, history
    <3> QED BY <1>2, <2>1, <3>2 DEF QRFlow
  <2>4. ASSUME ~QR
        PROVE  BaiduFlow(f)'
    <3>1. BaiduFlow(f)
      BY <2>4 DEF IInv, FlowInv
    <3>2. exchanges'[f] <= 1
      BY <1>1, <3>1 DEF BaiduFlow, history
    <3> QED BY <1>2, <2>1, <3>2 DEF BaiduFlow
  <2>5. overlapped' = overlapped
    BY <1>1 DEF history
  <2> QED BY <1>2, <2>1, <2>2, <2>3, <2>4, <2>5 DEF FlowInv, FlowFits
<1> QED BY <1>3, <1>4, <1>5 DEF IInv

-----------------------------------------------------------------------------
(* Theorems *)

LEMMA InitInv == Init => IInv
<1> SUFFICES ASSUME Init PROVE IInv
  OBVIOUS
<1>1. Typed
  BY IdleIs DEF Init, Typed
<1>2. RequestsTyped /\ \A r \in Request : RequestFits(r)
  BY IdleIs DEF Init, RequestsTyped, RequestFits, About, Unnamed
<1>3. ASSUME NEW f \in Flow
      PROVE  FlowFits(f) /\ FlowInv(f)
  <2>1. /\ \A r \in Request : ~About(r, f)
        /\ flow[f].state = "gone" /\ flow[f].mode = "qr" /\ Fresh(f) /\ exchanges[f] = 0 /\ f \notin kept
    BY <1>3, IdleIs, AuthAssumption DEF Init, About, Fresh
  <2>2. Opening(f) /\ QRFlow(f) /\ BaiduFlow(f)
    BY <2>1 DEF Opening, QRFlow, BaiduFlow
  <2> QED BY <2>1, <2>2 DEF FlowInv, FlowFits
<1> QED BY <1>1, <1>2, <1>3 DEF IInv

LEMMA RequestStepInv ==
  ASSUME IInv, NEW r \in Request, RequestStep(r)
  PROVE  IInv'
<1>1. ASSUME NEW f \in Flow, \/ \E client \in Client : StartQR(r, f, client)
                             \/ \E mode \in Mode : StartBaidu(r, f, mode)
      PROVE  IInv'
  BY <1>1, StartedQR, StartedBaidu
<1>2. ASSUME NEW f \in Flow, StatusQR(r, f) \/ StatusBroker(r, f)
      PROVE  IInv'
  BY <1>2, PolledQR, PolledBroker
<1>3. ASSUME NEW f \in Flow, NEW via \in {"state", "client_state"}, NEW says \in {"code", "error"},
             Callback(r, f, via, says)
      PROVE  IInv'
  BY <1>3, CalledBack
<1>4. CASE Insert(r)
  BY <1>4, Inserted
<1>5. CASE AskQR(r) \/ NoteQR(r) \/ ExchangeQR(r)
  BY <1>5, AskedQR, NotedQR, ExchangedQR
<1>6. CASE StoreOpen(r) \/ StoreCookie(r)
  BY <1>6, StoredQR
<1>7. CASE AskBroker(r) \/ NoteBroker(r) \/ CheckCallback(r)
  BY <1>7, AskedBroker, NotedBroker, CallbackChecked
<1>8. CASE LoadClient(r) \/ ExchangeCode(r) \/ PersistTokens(r)
  BY <1>8, ClientLoaded, CodeExchanged, TokensPersisted
<1>9. CASE Finish(r) \/ Fail(r)
  BY <1>9, EndedQR, EndedBaidu
<1>10. CASE ImportBaidu(r) \/ PersistImport(r)
  BY <1>10, ImportStepped
<1> QED BY <1>1, <1>2, <1>3, <1>4, <1>5, <1>6, <1>7, <1>8, <1>9, <1>10 DEF RequestStep

LEMMA NextInv == IInv /\ [Next]_vars => IInv'
<1> SUFFICES ASSUME IInv, [Next]_vars PROVE IInv'
  OBVIOUS
<1>1. ASSUME NEW r \in Request, RequestStep(r)
      PROVE  IInv'
  BY <1>1, RequestStepInv
<1>2. ASSUME NEW client \in Client, ImportOpen(client) \/ Credentials(client)
      PROVE  IInv'
  BY <1>2, StoredAnew
<1>3. ASSUME NEW f \in Flow, User(f) \/ Expire(f) \/ Age(f)
      PROVE  IInv'
  BY <1>3, UserStepped, ClockStepped
<1>4. CASE Restart
  BY <1>4, Restarted
<1>5. CASE UNCHANGED vars
  <2>1. UNCHANGED <<kind, stored, flow, old, session, request, exchanges, kept, lost, overlapped>>
    BY <1>5 DEF vars, history
  <2>2. Typed' /\ \A f \in Flow : SameFlow(f)
    BY <2>1 DEF IInv, Typed, SameFlow
  <2> QED BY <2>1, <2>2, Beside
<1> QED BY <1>1, <1>2, <1>3, <1>4, <1>5 DEF Next

\* The inductive invariant holds in every state of every behaviour.
LEMMA Invariant == Spec => []IInv
BY InitInv, NextInv, PTL DEF Spec

\* A flow that is being processed is in one callback's hands, if its mode is one
\* that exchanges codes.
LEMMA OneCallback ==
  ASSUME IInv, NEW f \in Flow, flow[f].state = "processing", flow[f].mode # Token
  PROVE  Cardinality({r \in Request : Handles(r, f)}) = 1
<1>1. ~QR /\ BaiduFlow(f)
  BY DEF IInv, FlowFits, FlowInv
<1>2. PICK r \in Request : Handles(r, f)
  BY <1>1 DEF BaiduFlow
<1>3. \A s \in Request : Handles(s, f) => Carries(s, f)
  BY <1>1 DEF BaiduFlow, BaiduRequest, Handles, Carries
<1>4. \A s \in Request : Handles(s, f) => s = r
  BY <1>1, <1>2, <1>3 DEF BaiduFlow, BaiduRequest, Carries, Handles
<1>5. {s \in Request : Handles(s, f)} = {r}
  BY <1>2, <1>4
<1> QED BY <1>5, FS_Singleton

\* Every variable keeps to its type, and a flow is processed by one callback,
\* unless a broker's late answer has put it back to pending.
THEOREM TypeCorrect == Spec => []TypeOK
<1>1. IInv => TypeOK
  <2> SUFFICES ASSUME IInv PROVE TypeOK
    OBVIOUS
  <2>1. /\ kind \in Kind /\ stored \in [client : Client, grant : Flow \cup {Imported, NoGrant}]
        /\ old \subseteq Flow /\ lost \subseteq Flow /\ kept \subseteq Flow
    BY DEF IInv, Typed
  <2>2. \A r \in Request : request[r].pc \in
          {"idle", "inserting", "asking", "noting", "exchanging", "storing", "storing rest",
           "finishing", "failing", "called", "loading", "importing", "persisting import"}
    BY DEF IInv, RequestsTyped, RequestType, PCs, Handling, Asking, Unnamed
  <2>3. ASSUME NEW f \in Flow
        PROVE  /\ flow[f].state \in {"gone", "pending", "scanned", "confirming", "authorized", "expired",
                                     "cancelled", "error", "processing", "completed", "failed"}
               /\ flow[f].mode \in Modes \cup {"qr"} /\ flow[f].client \in Client \cup {NoGrant}
               /\ session[f] \in {"none", "waiting", "scanned", "confirmed", "cancelled", "expired"}
    <3>1. flow[f] \in FlowType /\ session[f] \in Statuses \cup {"none"}
      BY DEF IInv, Typed
    <3> QED BY <3>1 DEF IInv, FlowFits, FlowType, States, Statuses, Modes
  <2>4. ASSUME NEW f \in Flow, flow[f].state = "processing", flow[f].mode # "broker_token_exchange"
        PROVE  Cardinality({r \in Request : request[r].flow = f /\
                 request[r].pc \in {"called", "loading", "exchanging", "storing",
                                    "finishing", "failing"}}) = 1
    BY <2>4, OneCallback DEF Token, Handles, About, Handling
  <2> QED BY <2>1, <2>2, <2>3, <2>4 DEF TypeOK
<1> QED BY <1>1, Invariant, PTL

\* The code of a Baidu callback is presented once, however often the browser
\* repeats it; the confirmed session of a QR flow too, unless two status
\* requests polled it at the same time (baiduopen_auth.go:737-766,
\* open115_auth.go:308).
THEOREM PresentedOnce == Spec => []ExchangedOnce
<1>1. IInv => ExchangedOnce
  BY DEF IInv, FlowInv, QRFlow, BaiduFlow, ExchangedOnce
<1> QED BY <1>1, Invariant, PTL

\* When no request is under way, a flow that is still there tells the truth: it
\* says "authorized" if and only if its tokens were stored, and none is left
\* being processed; unless two status requests polled it at the same time, or
\* 115's writer swallowed a failed write (open115_auth.go:313-333,
\* cookie115_auth.go:190-202, baiduopen_auth.go:633-651).
THEOREM TruthTold == Spec => []TellsTruth
<1>1. IInv => TellsTruth
  <2> SUFFICES ASSUME IInv, AtRest, NEW f \in Flow \ overlapped
               PROVE  /\ flow[f].state \notin {"processing", "confirming"}
                      /\ flow[f].state = "authorized" => f \in kept \cup lost
                      /\ f \in kept => flow[f].state \in {"authorized", "gone"}
    BY DEF TellsTruth
  <2>1. \A r \in Request : ~About(r, f)
    BY AuthAssumption DEF AtRest, IInv, RequestsTyped, Unnamed, About
  <2>2. CASE QR
    BY <2>1, <2>2 DEF IInv, FlowInv, FlowFits, QRFlow
  <2>3. CASE ~QR
    BY <2>1, <2>3 DEF IInv, FlowInv, BaiduFlow, Handles
  <2> QED BY <2>2, <2>3
<1> QED BY <1>1, Invariant, PTL

=============================================================================
