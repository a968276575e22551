------------------------ MODULE DseuhidControlProofs ------------------------
(***************************************************************************)
(* Theorems of DseuhidControl, for every set of clients and configurations *)
(* and every bound.                                                        *)
(***************************************************************************)
EXTENDS DseuhidControl, SequenceTheorems, TLAPS

(* The part of the state the control plane decides with: everything but     *)
(* the connections, with its types.                                         *)
Maybe == Configs \cup {NoConfig}

CoreTypeOK ==
  /\ phase \in Phases
  /\ active \in Maybe
  /\ proxy \in Maybe
  /\ mapping \in Maybe
  /\ recreate \in BOOLEAN
  /\ uhid \in {OutputOf[c] : c \in Maybe} \cup {NoUhid}
  /\ state \in ControlState
  /\ device \in BOOLEAN
  /\ lost \in BOOLEAN

(* Where the configuration is kept in each phase, and which kind of virtual *)
(* controller exists.                                                       *)
PhaseInv ==
  /\ phase \notin {"start", "running"} => proxy = NoConfig
  /\ phase # "running" => ~recreate
  /\ phase = "setup" => uhid = OutputOf[active]
  /\ phase = "start" => uhid = OutputOf[active] /\ proxy = active

\* A session is recreated only for a configuration of its own.
RecreateInv == recreate => proxy # NoConfig

ControlInv ==
  /\ CoreTypeOK
  /\ PhaseInv
  /\ RecreateInv
  /\ LiveIsAcceptable
  /\ NeedsConfigIffPassthrough
  /\ ReadyUhidMatchesConfig

----------------------------------------------------------------------------
\* Delivering packets publishes the new state and nothing else outside the
\* connections.
LEMMA DeliverState ==
  ASSUME NEW to, NEW reply, NEW new, Deliver(to, reply, new)
  PROVE  state' = new
BY DEF Deliver

\* A step of a client, or a drain step that answers without a commit,
\* leaves everything the invariant speaks of alone.
LEMMA UnchangedCore ==
  ASSUME ControlInv, UNCHANGED <<phase, session, state, device, lost>>
  PROVE  ControlInv'
BY DEF ControlInv, CoreTypeOK, PhaseInv, RecreateInv, LiveIsAcceptable,
       NeedsConfigIffPassthrough, ReadyUhidMatchesConfig, Live, session

\* The daemon starts in a state of the invariant.
LEMMA ControlInvInit ==
  Init => ControlInv
<1> SUFFICES ASSUME Init PROVE ControlInv
  OBVIOUS
<1>1. Fresh \in ControlState
  BY DEF Fresh, ControlState
<1>2. CoreTypeOK
  BY <1>1, ConfigsAssumption DEF Init, CoreTypeOK, Phases, Maybe, Accepts
<1>3. PhaseInv /\ RecreateInv /\ LiveIsAcceptable
  BY ConfigsAssumption DEF Init, PhaseInv, RecreateInv, LiveIsAcceptable
<1>4. NeedsConfigIffPassthrough /\ ReadyUhidMatchesConfig
  BY DEF Init, Fresh, NeedsConfigIffPassthrough, ReadyUhidMatchesConfig, Live
<1> QED
  BY <1>2, <1>3, <1>4 DEF ControlInv

\* Every step keeps it: one case per action of the daemon, the controller
\* and the clients.
LEMMA ControlInvStep ==
  ControlInv /\ [Next]_vars => ControlInv'
<1> SUFFICES ASSUME ControlInv, [Next]_vars
             PROVE  ControlInv'
  OBVIOUS
<1> USE DEF ControlInv, CoreTypeOK, Phases, Maybe, PhaseInv, RecreateInv,
        LiveIsAcceptable, NeedsConfigIffPassthrough, ReadyUhidMatchesConfig,
        Live, ControlState, session
<1>1. ASSUME NEW c \in Clients, Accept(c)
      PROVE  ControlInv'
  BY <1>1, UnchangedCore DEF Accept
<1>2. ASSUME NEW c \in Clients, Reject(c)
      PROVE  ControlInv'
  BY <1>2, DeliverState, UnchangedCore DEF Reject, NotReady
<1>3. ASSUME NEW c \in Clients, Switch(c)
      PROVE  ControlInv'
  <2> DEFINE cfg == Head(req[c])
  <2>1. /\ phase = "running" /\ ~recreate
        /\ UNCHANGED <<phase, active, uhid, device, lost>>
    BY <1>3 DEF Switch
  <2>2. CASE cfg \in Accepts /\ proxy' = cfg /\ mapping' = cfg
             /\ recreate' = (OutputOf[cfg] # OutputOf[proxy])
             /\ state' = [state EXCEPT !.needs_config = FALSE]
    BY <2>1, <2>2, ConfigsAssumption, OutputAssumption DEF Accepts
  <2>3. CASE UNCHANGED <<proxy, mapping, recreate, state>>
    BY <2>1, <2>3, UnchangedCore
  <2> QED
    BY <1>3, <2>2, <2>3, DeliverState DEF Switch, Commit, Accepts
<1>4. CASE FindDevice \/ OpenGone \/ RetryDelayElapsed \/ Start
  BY <1>4 DEF FindDevice, OpenGone, RetryDelayElapsed, Start
<1>5. CASE OpenSession
  BY <1>5, OutputAssumption DEF OpenSession
<1>6. CASE RejectBeforeProxy
  <2>1. state' = state
    BY <1>6, DeliverState DEF RejectBeforeProxy, NotReady
  <2> QED
    BY <1>6, <2>1 DEF RejectBeforeProxy
<1>7. CASE StartProxy
  <2>1. state' = [state EXCEPT !.uhid_ready = TRUE]
    BY <1>7, DeliverState DEF StartProxy, SetState
  <2> QED
    BY <1>7, <2>1, OutputAssumption, ConfigsAssumption DEF StartProxy
<1>8. CASE ConfigChanged
  <2>1. state' = [uhid_ready |-> FALSE, needs_config |-> FALSE]
    BY <1>8, DeliverState DEF ConfigChanged, SetState
  <2> QED
    BY <1>8, <2>1, ConfigsAssumption DEF ConfigChanged
<1>9. CASE DeviceGone
  <2>1. state' = [uhid_ready |-> FALSE, needs_config |-> TRUE]
    BY <1>9, DeliverState DEF DeviceGone, SetState
  <2> QED
    BY <1>9, <2>1 DEF DeviceGone
<1>10. CASE Stop
  BY <1>10, ConfigsAssumption DEF Stop, Fresh, Accepts
<1>11. CASE Environment
  <2>1. /\ UNCHANGED <<phase, active, proxy, mapping, recreate, uhid, state>>
        /\ device' \in BOOLEAN
    BY <1>11 DEF Environment, Unplug, Plug
  <2>2. lost' \in BOOLEAN
    <3>1. (lost \/ InSession) \in BOOLEAN
      OBVIOUS
    <3> QED
      BY <1>11, <3>1 DEF Environment, Unplug, Plug
  <2> QED
    BY <2>1, <2>2
<1>12. ASSUME NEW c \in Clients, ClientStep(c)
       PROVE  ControlInv'
  BY <1>12, UnchangedCore DEF ClientStep
<1>13. CASE UNCHANGED vars
  BY <1>13, UnchangedCore DEF vars
<1> QED
  BY <1>1, <1>2, <1>3, <1>4, <1>5, <1>6, <1>7, <1>8, <1>9, <1>10, <1>11, <1>12,
     <1>13 DEF Next, DaemonStep

\* The invariant the theorems below rest on: where the configuration is in
\* each phase, and what is published about it.
THEOREM ControlInvariant == Spec => []ControlInv
BY ControlInvInit, ControlInvStep, PTL DEF Spec

\* needs_config is published exactly when the configuration in force is
\* passthrough: daemon.rs and proxy/mod.rs never let the two drift apart.
THEOREM NeedsConfigCorrect == Spec => []NeedsConfigIffPassthrough
BY ControlInvariant, PTL DEF ControlInv

\* uhid_ready is published exactly while the proxy loop runs, on a virtual
\* controller of the type its configuration asks for, or about to be
\* recreated (session.rs, proxy/mod.rs).
THEOREM ReadyUhidCorrect == Spec => []ReadyUhidMatchesConfig
BY ControlInvariant, PTL DEF ControlInv

\* A configuration that failed validation is never committed or carried over
\* to the next session (apply_active_config).
THEOREM OnlyAcceptableLive == Spec => []LiveIsAcceptable
BY ControlInvariant, PTL DEF ControlInv

----------------------------------------------------------------------------
(* The connections: their types, the bound on what a client has unread, and *)
(* what the newest state in each queue says.                                *)
WireTypeOK ==
  /\ conn \in [Clients -> {"closed", "backlog", "open", "hup"}]
  /\ req \in [Clients -> Seq(Configs)]
  /\ rsp \in [Clients -> Seq(Packet)]
  /\ \A c \in Clients : Len(rsp[c]) \leq RspCap

WireInv == WireTypeOK /\ NewestQueuedStateIsCurrent

\* What the server sends is made of packets, and nothing unless a reply is
\* due or the state changed.
LEMMA SentPackets ==
  ASSUME NEW c, NEW to, NEW reply \in Packet, NEW new \in ControlState
  PROVE  Sent(c, to, reply, new) \in Seq(Packet)
<1> DEFINE a == IF c = to THEN <<reply>> ELSE <<>>
           b == IF new # state THEN <<Pkt("state", new, NoConfig)>> ELSE <<>>
<1>1. Pkt("state", new, NoConfig) \in Packet
  BY DEF Pkt, Packet
<1>2. a \in Seq(Packet) /\ b \in Seq(Packet)
  BY <1>1
<1> QED
  BY <1>2, ConcatProperties DEF Sent

\* Delivery keeps every queue typed and bounded; a client that stays
\* connected got all that was sent to it.
LEMMA DeliverClient ==
  ASSUME WireTypeOK, NEW to, NEW reply \in Packet, NEW new \in ControlState,
         Deliver(to, reply, new), NEW c \in Clients
  PROVE  /\ rsp'[c] \in Seq(Packet)
         /\ Len(rsp'[c]) \leq RspCap
         /\ conn'[c] \in {conn[c], "hup"}
         /\ conn'[c] = "open" => /\ conn[c] = "open"
                                 /\ rsp'[c] = rsp[c] \o Sent(c, to, reply, new)
<1> DEFINE out == IF conn[c] = "open" THEN Sent(c, to, reply, new) ELSE <<>>
           all == rsp[c] \o out
           fits == Len(rsp[c]) + Len(out) \leq RspCap
<1>1. rsp[c] \in Seq(Packet) /\ Len(rsp[c]) \in Nat /\ Len(rsp[c]) \leq RspCap
  BY LenProperties DEF WireTypeOK
<1>2. out \in Seq(Packet) /\ Len(out) \in Nat
  BY SentPackets, LenProperties
<1>3. all \in Seq(Packet) /\ Len(all) = Len(rsp[c]) + Len(out)
  <2> HIDE DEF out
  <2> QED
    BY <1>1, <1>2, ConcatProperties
<1>4. /\ rsp'[c] = IF fits THEN all ELSE SubSeq(all, 1, RspCap)
      /\ conn'[c] = IF fits THEN conn[c] ELSE "hup"
  BY DEF Deliver
<1>5. CASE fits
  BY <1>1, <1>2, <1>3, <1>4, <1>5
<1>6. CASE ~fits
  <2> HIDE DEF all, out
  <2>1. RspCap \in Nat /\ RspCap < Len(all)
    BY <1>1, <1>2, <1>3, <1>6, BoundAssumption
  <2>2. \A i \in 1 .. RspCap : all[i] \in Packet
    BY <1>3, <2>1, ElementOfSeq
  <2>3. /\ SubSeq(all, 1, RspCap) \in Seq(Packet)
        /\ Len(SubSeq(all, 1, RspCap)) = RspCap
    BY <2>1, <2>2, SubSeqProperties, BoundAssumption
  <2> QED
    BY <1>4, <1>6, <2>1, <2>3
<1> QED
  BY <1>5, <1>6

\* Delivery puts the published state last, so the newest state a connected
\* client can read stays the server's.
LEMMA DeliverWire ==
  ASSUME WireInv, NEW to, NEW reply \in Packet, reply.kind \in {"ok", "error"},
         NEW new \in ControlState, Deliver(to, reply, new)
  PROVE  /\ conn' \in [Clients -> {"closed", "backlog", "open", "hup"}]
         /\ rsp' \in [Clients -> Seq(Packet)]
         /\ \A c \in Clients : Len(rsp'[c]) \leq RspCap
         /\ NewestQueuedStateIsCurrent'
<1>1. /\ rsp' = [c \in Clients |-> rsp'[c]]
      /\ conn' = [c \in Clients |-> conn'[c]]
  BY DEF Deliver
<1>2. \A c \in Clients : /\ conn'[c] \in {"closed", "backlog", "open", "hup"}
                         /\ rsp'[c] \in Seq(Packet)
                         /\ Len(rsp'[c]) \leq RspCap
  BY DeliverClient DEF WireInv, WireTypeOK
<1>3. ASSUME NEW c \in Clients, conn'[c] = "open",
             NEW i \in 1 .. Len(rsp'[c]), StateAt(rsp'[c], i)
      PROVE  rsp'[c][i].state = state'
  <2> DEFINE old == rsp[c]
             sent == Sent(c, to, reply, new)
  <2>1. conn[c] = "open" /\ rsp'[c] = old \o sent /\ state' = new
    BY <1>3, DeliverClient, DeliverState DEF WireInv
  <2>2. /\ old \in Seq(Packet) /\ sent \in Seq(Packet)
        /\ Len(old) \in Nat /\ Len(sent) \in Nat
    BY SentPackets, LenProperties DEF WireInv, WireTypeOK
  <2> HIDE DEF old
  <2>3. CASE new # state
    <3>1. /\ sent = (IF c = to THEN <<reply>> ELSE <<>>)
                      \o <<Pkt("state", new, NoConfig)>>
          /\ sent # <<>>
          /\ sent[Len(sent)] = Pkt("state", new, NoConfig)
      BY <2>3 DEF Sent
    <3> HIDE DEF sent
    <3>2. /\ Len(rsp'[c]) = Len(old) + Len(sent) /\ Len(sent) > 0
          /\ rsp'[c][Len(rsp'[c])] = sent[Len(sent)]
      BY <2>1, <2>2, <3>1, ConcatProperties, EmptySeq
    <3>3. i = Len(rsp'[c])
      BY <1>3, <2>2, <3>1, <3>2 DEF StateAt, Pkt
    <3> QED
      BY <2>1, <3>1, <3>2, <3>3 DEF Pkt
  <2>4. CASE new = state
    <3>1. sent \in {<<>>, <<reply>>}
      BY <2>4 DEF Sent
    <3> HIDE DEF sent
    <3>2. i \leq Len(old)
      <4>1. CASE sent = <<reply>>
        BY <1>3, <2>1, <2>2, <4>1, ConcatProperties DEF StateAt
      <4>2. CASE sent = <<>>
        BY <1>3, <2>1, <2>2, <4>2, ConcatProperties
      <4> QED
        BY <3>1, <4>1, <4>2
    <3>3. Len(rsp'[c]) \geq Len(old) /\ \A j \in 1 .. Len(old) : rsp'[c][j] = old[j]
      BY <2>1, <2>2, ConcatProperties
    <3>4. StateAt(old, i)
      BY <1>3, <2>2, <3>2, <3>3 DEF StateAt
    <3> QED
      BY <2>1, <2>2, <2>4, <3>2, <3>3, <3>4
         DEF WireInv, NewestQueuedStateIsCurrent, old
  <2> QED
    BY <2>3, <2>4
<1> QED
  BY <1>1, <1>2, <1>3 DEF NewestQueuedStateIsCurrent

\* Serving or dropping clients leaves the request queues typed.
LEMMA RequestQueues ==
  ASSUME WireTypeOK
  PROVE  /\ Purge => req' \in [Clients -> Seq(Configs)]
         /\ \A c \in Clients : req[c] # <<>> /\ Pop(c)
                                 => req' \in [Clients -> Seq(Configs)]
<1>1. Purge => req' \in [Clients -> Seq(Configs)]
  BY DEF WireTypeOK, Purge
<1>2. ASSUME NEW c \in Clients, req[c] # <<>>, Pop(c)
      PROVE  req' \in [Clients -> Seq(Configs)]
  <2>1. Tail(req[c]) \in Seq(Configs)
    BY <1>2, HeadTailProperties DEF WireTypeOK
  <2> QED
    BY <1>2, <2>1 DEF WireTypeOK, Pop
<1> QED
  BY <1>1, <1>2

\* The two kinds of delivery: set_state alone, and a reply.
LEMMA SetStateWire ==
  ASSUME WireInv, NEW new \in ControlState, SetState(new), Purge
  PROVE  WireInv'
<1>1. Pkt("error", new, NoConfig) \in Packet /\ Pkt("error", new, NoConfig).kind = "error"
  BY DEF Pkt, Packet
<1> QED
  BY <1>1, DeliverWire, RequestQueues DEF SetState, WireInv, WireTypeOK

LEMMA ReplyWire ==
  ASSUME WireInv, NEW c \in Clients, req[c] # <<>>, NEW kind \in {"ok", "error"},
         state \in ControlState, NEW cfg \in Maybe, NEW new \in ControlState,
         Deliver(c, Pkt(kind, state, cfg), new), Pop(c)
  PROVE  WireInv'
<1>1. Pkt(kind, state, cfg) \in Packet /\ Pkt(kind, state, cfg).kind = kind
  BY DEF Pkt, Packet, Maybe
<1> QED
  BY <1>1, DeliverWire, RequestQueues DEF WireInv, WireTypeOK

LEMMA NotReadyWire ==
  ASSUME WireInv, CoreTypeOK, NEW c \in Clients, NotReady(c)
  PROVE  WireInv'
BY ReplyWire DEF NotReady, CoreTypeOK, Maybe

LEMMA UnchangedWire ==
  ASSUME WireInv, UNCHANGED <<wire, state>>
  PROVE  WireInv'
BY DEF WireInv, WireTypeOK, NewestQueuedStateIsCurrent, wire

\* What a client does to its own connection.
LEMMA DialWire ==
  ASSUME WireInv, NEW c \in Clients, Dial(c), UNCHANGED state
  PROVE  WireInv'
BY DEF Dial, WireInv, WireTypeOK, NewestQueuedStateIsCurrent

LEMMA RequestWire ==
  ASSUME WireInv, NEW c \in Clients, NEW cfg \in Configs, Request(c, cfg), UNCHANGED state
  PROVE  WireInv'
BY AppendProperties DEF Request, WireInv, WireTypeOK, NewestQueuedStateIsCurrent

LEMMA HangUpWire ==
  ASSUME WireInv, NEW c \in Clients, HangUp(c), UNCHANGED state
  PROVE  WireInv'
BY BoundAssumption DEF HangUp, WireInv, WireTypeOK, NewestQueuedStateIsCurrent

\* A packet read: the client may queue a request in the same step.
LEMMA ReadWire ==
  ASSUME WireInv, NEW c \in Clients, rsp[c] # <<>>, rsp' = [rsp EXCEPT ![c] = Tail(@)],
         req' \in [Clients -> Seq(Configs)], UNCHANGED <<conn, state>>
  PROVE  WireInv'
<1>1. /\ rsp[c] \in Seq(Packet) /\ Len(rsp[c]) \in Nat
      /\ Tail(rsp[c]) \in Seq(Packet) /\ Len(Tail(rsp[c])) = Len(rsp[c]) - 1
      /\ \A i \in 1 .. Len(Tail(rsp[c])) : Tail(rsp[c])[i] = rsp[c][i + 1]
  BY HeadTailProperties, LenProperties DEF WireInv, WireTypeOK
<1>2. WireTypeOK'
  <2>1. rsp' \in [Clients -> Seq(Packet)] /\ rsp'[c] = Tail(rsp[c])
    BY <1>1 DEF WireInv, WireTypeOK
  <2>2. ASSUME NEW d \in Clients
        PROVE  Len(rsp'[d]) \leq RspCap
    <3>1. CASE d = c
      BY <1>1, <2>1, <3>1, BoundAssumption DEF WireInv, WireTypeOK
    <3>2. CASE d # c
      BY <3>2 DEF WireInv, WireTypeOK
    <3> QED
      BY <3>1, <3>2
  <2> QED
    BY <2>1, <2>2 DEF WireInv, WireTypeOK
<1>3. ASSUME NEW i \in 1 .. Len(Tail(rsp[c])), StateAt(Tail(rsp[c]), i)
      PROVE  i + 1 \in 1 .. Len(rsp[c]) /\ StateAt(rsp[c], i + 1)
  <2> DEFINE q == rsp[c]
             t == Tail(rsp[c])
  <2>1. /\ Len(q) \in Nat /\ Len(t) = Len(q) - 1
        /\ \A k \in 1 .. Len(t) : t[k] = q[k + 1]
    BY <1>1
  <2>2. \A j \in i + 1 .. Len(t) : t[j].kind \notin {"hello", "state"}
    BY <1>3 DEF StateAt
  <2> HIDE DEF q, t
  <2>3. i \in 1 .. Len(t)
    BY <1>3 DEF t
  <2>4. i + 1 \in 1 .. Len(q) /\ t[i] = q[i + 1]
    BY <2>1, <2>3
  <2>5. ASSUME NEW j \in (i + 1) + 1 .. Len(q)
        PROVE  q[j].kind \notin {"hello", "state"}
    <3>1. j - 1 \in i + 1 .. Len(t) /\ j - 1 \in 1 .. Len(t) /\ (j - 1) + 1 = j
      BY <2>1, <2>3
    <3> QED
      BY <2>1, <2>2, <3>1
  <2>6. t[i].kind \in {"hello", "state"}
    BY <1>3 DEF StateAt, t
  <2>7. i + 1 \in 1 .. Len(q) /\ StateAt(q, i + 1)
    BY <2>4, <2>5, <2>6 DEF StateAt
  <2> QED
    BY <2>7 DEF q
<1>4. NewestQueuedStateIsCurrent'
  <2>1. ASSUME NEW d \in Clients, conn'[d] = "open",
               NEW i \in 1 .. Len(rsp'[d]), StateAt(rsp'[d], i)
        PROVE  rsp'[d][i].state = state'
    <3>1. CASE d = c
      BY <1>1, <1>3, <2>1, <3>1 DEF WireInv, WireTypeOK, NewestQueuedStateIsCurrent
    <3>2. CASE d # c
      BY <2>1, <3>2 DEF WireInv, WireTypeOK, NewestQueuedStateIsCurrent
    <3> QED
      BY <3>1, <3>2
  <2> QED
    BY <2>1 DEF NewestQueuedStateIsCurrent
<1> QED
  BY <1>2, <1>4 DEF WireInv

LEMMA WireInvInit ==
  Init => WireInv
BY BoundAssumption DEF Init, WireInv, WireTypeOK, NewestQueuedStateIsCurrent

LEMMA WireInvStep ==
  ControlInv /\ WireInv /\ [Next]_vars => WireInv'
<1> SUFFICES ASSUME ControlInv, WireInv, [Next]_vars
             PROVE  WireInv'
  OBVIOUS
<1>0. CoreTypeOK /\ state \in ControlState
  BY DEF ControlInv, CoreTypeOK
<1>1. ASSUME NEW c \in Clients, Accept(c)
      PROVE  WireInv'
  <2> DEFINE hello == Pkt("hello", state, NoConfig)
  <2>1. hello \in Packet /\ hello.state = state
    BY <1>0 DEF Pkt, Packet
  <2> HIDE DEF hello
  <2>2. /\ UNCHANGED <<req, state>>
        /\ conn' = [conn EXCEPT ![c] = "open"]
        /\ rsp' = [rsp EXCEPT ![c] = <<hello>>]
    BY <1>1 DEF Accept, hello
  <2>3. WireTypeOK'
    BY <2>1, <2>2, BoundAssumption DEF WireInv, WireTypeOK
  <2>4. NewestQueuedStateIsCurrent'
    BY <2>1, <2>2 DEF WireInv, WireTypeOK, NewestQueuedStateIsCurrent, StateAt
  <2> QED
    BY <2>3, <2>4 DEF WireInv
<1>2. ASSUME NEW c \in Clients, Reject(c)
      PROVE  WireInv'
  BY <1>0, <1>2, NotReadyWire DEF Reject
<1>3. ASSUME NEW c \in Clients, Switch(c)
      PROVE  WireInv'
  <2> DEFINE cfg == Head(req[c])
             cleared == [state EXCEPT !.needs_config = FALSE]
  <2>1. cfg \in Maybe
    BY <1>3, HeadTailProperties DEF Switch, WireInv, WireTypeOK, Maybe
  <2>2. cleared \in ControlState
    BY <1>0 DEF ControlState
  <2>3. NoConfig \in Maybe
    BY DEF Maybe
  <2>4. /\ req[c] # <<>> /\ Pop(c)
        /\ \/ Deliver(c, Pkt("ok", state, cfg), cleared)
           \/ Deliver(c, Pkt("error", state, NoConfig), state)
    BY <1>3 DEF Switch
  <2> HIDE DEF cfg, cleared
  <2> QED
    BY <1>0, <2>1, <2>2, <2>3, <2>4, ReplyWire
<1>4. CASE FindDevice \/ OpenGone \/ OpenSession \/ RetryDelayElapsed \/ Start
  BY <1>4, UnchangedWire DEF FindDevice, OpenGone, OpenSession, RetryDelayElapsed, Start
<1>5. CASE RejectBeforeProxy
  BY <1>0, <1>5, NotReadyWire, UnchangedWire DEF RejectBeforeProxy
<1>6. CASE StartProxy
  <2>1. [state EXCEPT !.uhid_ready = TRUE] \in ControlState
    BY <1>0 DEF ControlState
  <2> QED
    BY <1>6, <2>1, SetStateWire DEF StartProxy
<1>7. CASE ConfigChanged
  <2>1. [uhid_ready |-> FALSE, needs_config |-> FALSE] \in ControlState
    BY DEF ControlState
  <2> QED
    BY <1>7, <2>1, SetStateWire DEF ConfigChanged
<1>8. CASE DeviceGone
  <2>1. [uhid_ready |-> FALSE, needs_config |-> TRUE] \in ControlState
    BY DEF ControlState
  <2> QED
    BY <1>8, <2>1, SetStateWire DEF DeviceGone
<1>9. CASE Stop
  BY <1>9 DEF Stop, WireInv, WireTypeOK, NewestQueuedStateIsCurrent
<1>10. CASE Environment
  BY <1>10, UnchangedWire DEF Environment, Unplug, Plug
<1>11. ASSUME NEW c \in Clients, ClientStep(c)
       PROVE  WireInv'
  BY <1>11, DialWire, RequestWire, ReadWire, HangUpWire DEF ClientStep, Read, WireInv,
     WireTypeOK
<1>12. CASE UNCHANGED vars
  BY <1>12, UnchangedWire DEF vars
<1> QED
  BY <1>1, <1>2, <1>3, <1>4, <1>5, <1>6, <1>7, <1>8, <1>9, <1>10, <1>11, <1>12
     DEF Next, DaemonStep

\* A client that reads everything queued for it knows the published state,
\* whatever mix of hellos, replies and states it reads (control/server.rs).
THEOREM NewestStateCorrect == Spec => []NewestQueuedStateIsCurrent
<1>1. Init => ControlInv /\ WireInv
  BY ControlInvInit, WireInvInit
<1>2. ControlInv /\ WireInv /\ [Next]_vars => (ControlInv /\ WireInv)'
  BY ControlInvStep, WireInvStep
<1>3. WireInv => NewestQueuedStateIsCurrent
  BY DEF WireInv
<1> QED
  BY <1>1, <1>2, <1>3, PTL DEF Spec

----------------------------------------------------------------------------
(* Type correctness, with the bounds of the environment.                    *)
CountersOK == replugs \in 0 .. MaxReplugs /\ restarts \in 0 .. MaxRestarts

LEMMA CountersStep ==
  CountersOK /\ [Next]_vars => CountersOK'
<1> SUFFICES ASSUME CountersOK, [Next]_vars
             PROVE  CountersOK'
  OBVIOUS
<1>1. CASE Stop
  BY <1>1, BoundAssumption DEF Stop, CountersOK
<1>2. CASE Unplug
  BY <1>2, BoundAssumption DEF Unplug, CountersOK
<1>3. CASE UNCHANGED <<replugs, restarts>>
  BY <1>3 DEF CountersOK
<1> QED
  BY <1>1, <1>2, <1>3
     DEF Next, DaemonStep, Environment, ClientStep, Accept, Reject, Switch, FindDevice,
         OpenGone, OpenSession, RejectBeforeProxy, StartProxy, ConfigChanged, DeviceGone,
         RetryDelayElapsed, Start, Plug, vars

\* Every variable keeps its type, and no client has more than RspCap packets
\* unread: a client that stops reading is dropped (control/server.rs).
THEOREM TypeCorrect == Spec => []TypeOK
<1>1. Init => ControlInv /\ WireInv /\ CountersOK
  BY ControlInvInit, WireInvInit, BoundAssumption DEF Init, CountersOK
<1>2. ControlInv /\ WireInv /\ CountersOK /\ [Next]_vars
        => (ControlInv /\ WireInv /\ CountersOK)'
  BY ControlInvStep, WireInvStep, CountersStep
<1>3. ControlInv /\ WireInv /\ CountersOK => TypeOK
  BY DEF ControlInv, CoreTypeOK, WireInv, WireTypeOK, CountersOK, TypeOK, Maybe
<1> QED
  BY <1>1, <1>2, <1>3, PTL DEF Spec

----------------------------------------------------------------------------
(* Refinement of ConfigService.                                             *)

\* Every step of the daemon is a step of the service on the configuration in
\* force and the published state, or leaves them as they are.
LEMMA ServiceStep ==
  ControlInv /\ ControlInv' /\ [Next]_vars => [Service!Next]_Service!svars
<1> SUFFICES ASSUME ControlInv, ControlInv', [Next]_vars
             PROVE  Service!Next \/ UNCHANGED Service!svars
  OBVIOUS
<1> USE DEF ControlInv, NeedsConfigIffPassthrough, ReadyUhidMatchesConfig, Live, session
<1>0. Service!Publish
  <2>1. state.needs_config' \in BOOLEAN
    BY DEF CoreTypeOK, ControlState
  <2>2. state.needs_config' <=> (Live' = NoConfig)
    OBVIOUS
  <2> QED
    BY <2>1, <2>2, Zenon DEF Service!Publish
<1>1. ASSUME UNCHANGED <<phase, session, state>>
      PROVE  UNCHANGED Service!svars
  BY <1>1 DEF Service!svars
<1>2. ASSUME NEW c \in Clients, Reject(c)
      PROVE  UNCHANGED Service!svars
  BY <1>1, <1>2, DeliverState DEF Reject, NotReady
<1>3. ASSUME NEW c \in Clients, Switch(c)
      PROVE  Service!Next \/ UNCHANGED Service!svars
  <2>1. CASE proxy' \in Configs /\ state' = [state EXCEPT !.needs_config = FALSE]
    <3>1. Service!Commit
      BY <1>0, <1>3, <2>1 DEF Switch, Service!Commit
    <3> QED
      BY <3>1 DEF Service!Next
  <2>2. CASE UNCHANGED <<proxy, mapping, recreate, state>>
    BY <1>1, <1>3, <2>2 DEF Switch
  <2> QED
    BY <1>3, <2>1, <2>2, DeliverState, ConfigsAssumption DEF Switch, Commit, Accepts
<1>4. CASE FindDevice \/ OpenGone \/ OpenSession \/ RetryDelayElapsed \/ Start
  BY <1>4 DEF FindDevice, OpenGone, OpenSession, RetryDelayElapsed, Start, Service!svars
<1>5. CASE RejectBeforeProxy
  <2>1. state' = state
    BY <1>5, DeliverState DEF RejectBeforeProxy, NotReady
  <2> QED
    BY <1>5, <2>1 DEF RejectBeforeProxy, Service!svars
<1>6. CASE StartProxy
  <2>1. Service!BringUp
    BY <1>0, <1>6 DEF StartProxy, Service!BringUp
  <2> QED
    BY <2>1 DEF Service!Next
<1>7. CASE ConfigChanged
  <2>1. Service!Recreate
    BY <1>0, <1>7 DEF ConfigChanged, RecreateInv, Service!Recreate
  <2> QED
    BY <2>1 DEF Service!Next
<1>8. CASE DeviceGone
  <2>1. Service!Unplug
    BY <1>0, <1>8 DEF DeviceGone, Service!Unplug
  <2> QED
    BY <2>1 DEF Service!Next
<1>9. CASE Stop
  <2>1. Service!Restart
    BY <1>0, <1>9 DEF Stop, Service!Restart
  <2> QED
    BY <2>1 DEF Service!Next
<1>10. CASE Environment
  BY <1>1, <1>10 DEF Environment, Unplug, Plug
<1>11. ASSUME NEW c \in Clients, Accept(c) \/ ClientStep(c)
       PROVE  UNCHANGED Service!svars
  BY <1>1, <1>11 DEF Accept, ClientStep
<1>12. CASE UNCHANGED vars
  BY <1>1, <1>12 DEF vars
<1> QED
  BY <1>2, <1>3, <1>4, <1>5, <1>6, <1>7, <1>8, <1>9, <1>10, <1>11, <1>12
     DEF Next, DaemonStep

\* dseuhid implements the configuration service: through sessions, recreated
\* controllers and restarts, the configuration in force changes only by an
\* accepted request, by losing the controller or by a restart.
THEOREM ImplementsService == Spec => ServiceSpec
<1>1. Init => Service!Init
  BY DEF Init, Fresh, Service!Init, Live
<1> QED
  BY <1>1, ControlInvariant, ServiceStep, PTL DEF Spec, ServiceSpec, Service!Spec
=============================================================================
