-------------------------- MODULE ConfigSyncProofs --------------------------
(***************************************************************************)
(* Theorems of ConfigSync: the edgemap daemon over the control plane of     *)
(* dseuhid, for every set of clients and configurations and every bound.    *)
(***************************************************************************)
EXTENDS ConfigSync, DseuhidControlProofs

----------------------------------------------------------------------------
(* What a step of dseuhid does to one client's connection.                  *)

\* What is sent in one step: a reply to its addressee, first, and the state
\* if it changed, last.
LEMMA SentAt ==
  ASSUME NEW c, NEW to, NEW reply \in Packet, NEW new \in ControlState,
         NEW sent, sent = Sent(c, to, reply, new)
  PROVE  /\ \A i \in 1 .. Len(sent) : \/ c = to /\ i = 1 /\ sent[i] = reply
                                      \/ sent[i] = Pkt("state", new, NoConfig)
         /\ c = to => Len(sent) > 0 /\ sent[1] = reply
         /\ new # state => /\ Len(sent) > 0
                           /\ sent[Len(sent)] = Pkt("state", new, NoConfig)
<1> DEFINE p == Pkt("state", new, NoConfig)
<1>1. CASE c = to /\ new # state
  <2>1. Sent(c, to, reply, new) = <<reply>> \o <<p>>
    BY <1>1 DEF Sent
  <2> HIDE DEF p
  <2>2. /\ Len(sent) = 2 /\ sent[1] = reply /\ sent[2] = p
    <3>1. <<reply>> \in Seq({reply, p}) /\ <<p>> \in Seq({reply, p})
      OBVIOUS
    <3> QED
      BY <2>1, <3>1, ConcatProperties
  <2>3. \A i \in 1 .. Len(sent) : (sent[i] = reply /\ i = 1) \/ sent[i] = p
    BY <2>2
  <2>4. Len(sent) > 0 /\ sent[Len(sent)] = p
    BY <2>2
  <2> QED
    BY <1>1, <2>2, <2>3, <2>4 DEF p
<1>2. CASE c = to /\ new = state
  <2>1. sent = <<reply>>
    BY <1>2 DEF Sent
  <2>2. Len(sent) = 1 /\ sent[1] = reply /\ \A i \in 1 .. Len(sent) : i = 1
    BY <2>1
  <2> QED
    BY <1>2, <2>2
<1>3. CASE c # to /\ new # state
  <2>1. sent = <<p>>
    BY <1>3 DEF Sent
  <2>2. Len(sent) = 1 /\ sent[1] = p /\ \A i \in 1 .. Len(sent) : i = 1
    BY <2>1
  <2> QED
    BY <1>3, <2>2
<1>4. CASE c # to /\ new = state
  <2>1. sent = <<>>
    BY <1>4 DEF Sent
  <2>2. \A i \in 1 .. Len(sent) : FALSE
    BY <2>1
  <2> QED
    BY <1>4, <2>2
<1> QED
  BY <1>1, <1>2, <1>3, <1>4

\* Delivery appends to what is queued; what is cut off is lost with the
\* connection.
Delivered(c, to, reply, p, news) ==
  LET old == rsp[c]
      q == rsp'[c]
  IN
  /\ conn'[c] \in {conn[c], "hup"}
  /\ conn[c] # "open" => conn'[c] = conn[c] /\ q = old
  /\ Len(q) \geq Len(old)
  /\ \A i \in 1 .. Len(old) : q[i] = old[i]
  /\ \A i \in 1 .. Len(q) : i > Len(old) =>
       \/ c = to /\ i = Len(old) + 1 /\ conn[c] = "open" /\ q[i] = reply
       \/ q[i] = p
  /\ conn'[c] = "open" =>
       /\ c = to => Len(q) > Len(old) /\ q[Len(old) + 1] = reply
       /\ news => Len(q) > Len(old) /\ q[Len(q)] = p

LEMMA DeliverQueue ==
  ASSUME WireTypeOK, NEW to, NEW reply \in Packet, NEW new \in ControlState,
         Deliver(to, reply, new), NEW c \in Clients
  PROVE  Delivered(c, to, reply, Pkt("state", new, NoConfig), new # state)
<1> DEFINE old == rsp[c]
           sent == Sent(c, to, reply, new)
           out == IF conn[c] = "open" THEN sent ELSE <<>>
           fits == Len(old) + Len(out) \leq RspCap
           p == Pkt("state", new, NoConfig)
<1>1. old \in Seq(Packet) /\ Len(old) \in Nat /\ Len(old) \leq RspCap
  BY LenProperties DEF WireTypeOK
<1>2. out \in Seq(Packet) /\ Len(out) \in Nat
  BY SentPackets, LenProperties
<1>3. \A i \in 1 .. Len(out) : \/ c = to /\ i = 1 /\ conn[c] = "open" /\ out[i] = reply
                               \/ out[i] = p
  BY SentAt
<1>4. conn[c] = "open" =>
        /\ c = to => Len(out) > 0 /\ out[1] = reply
        /\ new # state => Len(out) > 0 /\ out[Len(out)] = p
  BY SentAt
<1>5. /\ rsp'[c] = IF fits THEN old \o out ELSE SubSeq(old \o out, 1, RspCap)
      /\ conn'[c] = IF fits THEN conn[c] ELSE "hup"
  BY DEF Deliver
<1>6. conn[c] # "open" => out = <<>>
  OBVIOUS
<1> HIDE DEF old, sent, out, p
<1>7. /\ old \o out \in Seq(Packet)
      /\ Len(old \o out) = Len(old) + Len(out)
      /\ \A i \in 1 .. Len(old) + Len(out) :
           (old \o out)[i] = IF i \leq Len(old) THEN old[i] ELSE out[i - Len(old)]
  BY <1>1, <1>2, ConcatProperties
<1>8. conn[c] # "open" => conn'[c] = conn[c] /\ rsp'[c] = old
  <2>1. SUFFICES ASSUME conn[c] # "open"
                 PROVE  conn'[c] = conn[c] /\ rsp'[c] = old
    OBVIOUS
  <2>2. out = <<>> /\ Len(out) = 0
    BY <1>6, <2>1
  <2>3. fits /\ old \o out = old
    BY <1>1, <2>2, ConcatEmptySeq
  <2> QED
    BY <1>5, <2>3
<1>9. PICK n \in Nat : /\ n \leq Len(old) + Len(out) /\ n \geq Len(old)
                       /\ rsp'[c] \in Seq(Packet)
                       /\ Len(rsp'[c]) = n
                       /\ \A i \in 1 .. n : rsp'[c][i] = (old \o out)[i]
                       /\ conn'[c] = "open" => n = Len(old) + Len(out)
  <2>1. CASE fits
    BY <1>1, <1>2, <1>5, <1>7, <2>1
  <2>2. CASE ~fits
    <3>1. RspCap \in Nat /\ RspCap < Len(old) + Len(out)
      BY <1>1, <1>2, <2>2, BoundAssumption
    <3>2. \A i \in 1 .. RspCap : (old \o out)[i] \in Packet
      BY <1>1, <1>2, <1>7, <3>1, ElementOfSeq
    <3>3. /\ SubSeq(old \o out, 1, RspCap) \in Seq(Packet)
          /\ Len(SubSeq(old \o out, 1, RspCap)) = RspCap
          /\ \A i \in 1 .. RspCap : SubSeq(old \o out, 1, RspCap)[i] = (old \o out)[i]
      BY <3>1, <3>2, SubSeqProperties
    <3> QED
      BY <1>1, <1>5, <2>2, <3>1, <3>3
  <2> QED
    BY <2>1, <2>2
<1>10. /\ Len(rsp'[c]) \geq Len(old)
       /\ \A i \in 1 .. Len(old) : rsp'[c][i] = old[i]
  BY <1>1, <1>2, <1>7, <1>9
<1>11. ASSUME NEW i \in 1 .. Len(rsp'[c]), i > Len(old)
       PROVE  \/ c = to /\ i = Len(old) + 1 /\ conn[c] = "open" /\ rsp'[c][i] = reply
              \/ rsp'[c][i] = p
  <2>1. i \in 1 .. n /\ i \in 1 .. Len(old) + Len(out) /\ ~(i \leq Len(old))
    BY <1>1, <1>2, <1>9, <1>11
  <2>2. i - Len(old) \in 1 .. Len(out)
    BY <1>1, <1>2, <2>1
  <2>3. rsp'[c][i] = out[i - Len(old)]
    BY <1>7, <1>9, <2>1
  <2> QED
    BY <1>1, <1>3, <2>1, <2>2, <2>3
<1>12. ASSUME conn'[c] = "open"
       PROVE  /\ c = to => /\ Len(rsp'[c]) > Len(old)
                           /\ rsp'[c][Len(old) + 1] = reply
              /\ new # state => /\ Len(rsp'[c]) > Len(old)
                                /\ rsp'[c][Len(rsp'[c])] = p
  <2>1. conn[c] = "open"
    BY <1>5, <1>12
  <2>2. Len(out) > 0 => /\ Len(rsp'[c]) > Len(old)
                        /\ rsp'[c][Len(old) + 1] = out[1]
                        /\ rsp'[c][Len(rsp'[c])] = out[Len(out)]
    <3>1. SUFFICES ASSUME Len(out) > 0
                   PROVE  /\ Len(rsp'[c]) > Len(old)
                          /\ rsp'[c][Len(old) + 1] = out[1]
                          /\ rsp'[c][Len(rsp'[c])] = out[Len(out)]
      OBVIOUS
    <3>2. /\ Len(old) + 1 \in 1 .. Len(old) + Len(out)
          /\ Len(old) + Len(out) \in 1 .. Len(old) + Len(out)
          /\ Len(rsp'[c]) = Len(old) + Len(out)
          /\ (Len(old) + 1) - Len(old) = 1
          /\ (Len(old) + Len(out)) - Len(old) = Len(out)
      BY <1>1, <1>2, <1>9, <1>12, <3>1
    <3> QED
      BY <1>1, <1>2, <1>7, <1>9, <3>1, <3>2
  <2> QED
    BY <1>4, <2>1, <2>2
<1>13. conn'[c] \in {conn[c], "hup"}
  BY <1>5
<1> QED
  BY <1>8, <1>10, <1>11, <1>12, <1>13 DEF Delivered, old, p

\* What dseuhid and the controller may do to the connection of client c when
\* they do not accept it: append a reply to its oldest request, append the
\* state, drop it.
Served(c) ==
  LET old == rsp[c]
      q == rsp'[c]
      k == Len(old) + 1
  IN
  /\ conn'[c] \in {conn[c], "hup"}
  /\ conn[c] = "closed" => conn'[c] = "closed"
  /\ conn[c] # "open" => q = old /\ req'[c] \in {req[c], <<>>}
  /\ conn'[c] = "hup" => req'[c] = <<>> \/ conn[c] = "hup"
  /\ Len(q) \geq Len(old)
  /\ \A i \in 1 .. Len(old) : q[i] = old[i]
  /\ \A i \in 1 .. Len(q) : i > Len(old) =>
       \/ q[i].kind = "state"
       \/ /\ i = k /\ req[c] # <<>> /\ conn[c] = "open"
          /\ \/ q[i].kind = "error"
             \/ q[i].kind = "ok" /\ q[i].config = Head(req[c]) /\ Live' = Head(req[c])
  /\ conn'[c] = "open" =>
       /\ \/ /\ req'[c] = req[c]
             /\ \A i \in 1 .. Len(q) : i > Len(old) => q[i].kind = "state"
          \/ /\ req[c] # <<>> /\ req'[c] = Tail(req[c])
             /\ Len(q) > Len(old) /\ q[k].kind \in {"ok", "error"}
       /\ state' # state => \E i \in 1 .. Len(q) : q[i].kind = "state"

\* A reply to some client, as client c sees it.
LEMMA ReplyServes ==
  ASSUME WireTypeOK, NEW d \in Clients, NEW kind \in {"ok", "error"},
         state \in ControlState, NEW cfg \in Maybe, NEW new \in ControlState,
         conn[d] = "open", req[d] # <<>>,
         kind = "ok" => cfg = Head(req[d]) /\ Live' = cfg,
         Deliver(d, Pkt(kind, state, cfg), new), Pop(d),
         NEW c \in Clients
  PROVE  Served(c)
<1> DEFINE reply == Pkt(kind, state, cfg)
           old == rsp[c]
           q == rsp'[c]
           p == Pkt("state", new, NoConfig)
<1>1. reply \in Packet /\ reply.kind = kind /\ reply.config = cfg
  BY DEF Pkt, Packet, Maybe
<1>2. state' = new
  BY DeliverState
<1>3. p.kind = "state"
  BY DEF Pkt
<1>4. Delivered(c, d, reply, p, new # state)
  BY <1>1, DeliverQueue
<1>5. req'[c] = IF conn'[c] = "hup" THEN <<>> ELSE IF c = d THEN Tail(req[c]) ELSE req[c]
  BY DEF Pop
<1> HIDE DEF reply, old, q, p
<1>6. Len(old) \in Nat /\ Len(q) \in Nat
  <2>1. q \in Seq(Packet)
    BY <1>1, DeliverClient DEF q, reply
  <2> QED
    BY <2>1, LenProperties DEF WireTypeOK, old
<1>7. conn[c] # "open" => req'[c] \in {req[c], <<>>}
  BY <1>4, <1>5 DEF Delivered, q, old
<1>8. ASSUME NEW i \in 1 .. Len(q), i > Len(old)
      PROVE  \/ q[i].kind = "state"
             \/ /\ i = Len(old) + 1 /\ req[c] # <<>> /\ conn[c] = "open"
                /\ \/ q[i].kind = "error"
                   \/ /\ q[i].kind = "ok" /\ q[i].config = Head(req[c])
                      /\ Live' = Head(req[c])
  BY <1>1, <1>3, <1>4, <1>8 DEF Delivered, q, old
<1>9. ASSUME conn'[c] = "open"
      PROVE  /\ \/ /\ req'[c] = req[c]
                   /\ \A i \in 1 .. Len(q) : i > Len(old) => q[i].kind = "state"
                \/ /\ req[c] # <<>> /\ req'[c] = Tail(req[c])
                   /\ Len(q) > Len(old) /\ q[Len(old) + 1].kind \in {"ok", "error"}
             /\ state' # state => \E i \in 1 .. Len(q) : q[i].kind = "state"
  <2>1. state' # state => \E i \in 1 .. Len(q) : q[i].kind = "state"
    BY <1>2, <1>3, <1>4, <1>6, <1>9 DEF Delivered, q, old
  <2>2. CASE c = d
    BY <1>1, <1>4, <1>5, <1>9, <2>1, <2>2 DEF Delivered, q, old
  <2>3. CASE c # d
    BY <1>3, <1>4, <1>5, <1>9, <2>1, <2>3 DEF Delivered, q, old
  <2> QED
    BY <2>2, <2>3
<1>10. conn'[c] = "hup" => req'[c] = <<>> \/ conn[c] = "hup"
  BY <1>5
<1> QED
  BY <1>4, <1>7, <1>8, <1>9, <1>10 DEF Served, Delivered, old, q

\* set_state, as client c sees it.
LEMMA SetStateServes ==
  ASSUME WireTypeOK, NEW new \in ControlState, SetState(new), Purge, NEW c \in Clients
  PROVE  Served(c)
<1> DEFINE old == rsp[c]
           q == rsp'[c]
           p == Pkt("state", new, NoConfig)
           none == Pkt("error", new, NoConfig)
<1>1. none \in Packet /\ Deliver(NoConfig, none, new)
  BY DEF Pkt, Packet, SetState
<1>2. state' = new
  BY <1>1, DeliverState
<1>3. p.kind = "state"
  BY DEF Pkt
<1>4. Delivered(c, NoConfig, none, p, new # state) /\ c # NoConfig
  BY <1>1, DeliverQueue, ConfigsAssumption
<1>5. req'[c] = IF conn'[c] = "hup" THEN <<>> ELSE req[c]
  BY DEF Purge
<1> HIDE DEF none, old, q, p
<1>6. Len(old) \in Nat /\ Len(q) \in Nat
  <2>1. q \in Seq(Packet)
    BY <1>1, DeliverClient DEF q
  <2> QED
    BY <2>1, LenProperties DEF WireTypeOK, old
<1>7. \A i \in 1 .. Len(q) : i > Len(old) => q[i].kind = "state"
  BY <1>3, <1>4 DEF Delivered, q, old
<1>8. conn'[c] = "open" /\ state' # state => \E i \in 1 .. Len(q) : q[i].kind = "state"
  BY <1>2, <1>3, <1>4, <1>6 DEF Delivered, q, old
<1> QED
  BY <1>4, <1>5, <1>7, <1>8 DEF Served, Delivered, old, q

\* A step that leaves the connections alone.
LEMMA UnchangedServes ==
  ASSUME WireTypeOK, UNCHANGED <<wire, state>>, NEW c \in Clients
  PROVE  Served(c)
<1>1. rsp'[c] = rsp[c] /\ req'[c] = req[c] /\ conn'[c] = conn[c] /\ state' = state
  BY DEF wire
<1>2. Len(rsp[c]) \in Nat
  BY LenProperties DEF WireTypeOK
<1> QED
  BY <1>1, <1>2 DEF Served

\* Every step of dseuhid and the controller, as client c sees it.
LEMMA ServerServes ==
  ASSUME ControlInv, WireInv, DaemonStep \/ Environment, NEW c \in Clients
  PROVE  Served(c) \/ Accept(c)
<1>0. WireTypeOK /\ state \in ControlState /\ NoConfig \in Maybe
  BY DEF WireInv, ControlInv, CoreTypeOK, Maybe
<1>1. ASSUME NEW d \in Clients, Accept(d)
      PROVE  Served(c) \/ Accept(c)
  <2>1. CASE d = c
    BY <1>1, <2>1
  <2>2. CASE d # c
    <3>1. /\ rsp'[c] = rsp[c] /\ req'[c] = req[c] /\ conn'[c] = conn[c]
          /\ state' = state /\ Len(rsp[c]) \in Nat
      BY <1>0, <1>1, <2>2, LenProperties DEF Accept, WireTypeOK
    <3> QED
      BY <3>1 DEF Served
  <2> QED
    BY <2>1, <2>2
<1>2. ASSUME NEW d \in Clients, NotReady(d)
      PROVE  Served(c)
  BY <1>0, <1>2, ReplyServes DEF NotReady
<1>3. ASSUME NEW d \in Clients, Switch(d)
      PROVE  Served(c)
  <2> DEFINE cfg == Head(req[d])
             cleared == [state EXCEPT !.needs_config = FALSE]
  <2>1. cfg \in Maybe
    BY <1>0, <1>3, HeadTailProperties DEF Switch, WireTypeOK, Maybe
  <2>2. cleared \in ControlState
    BY <1>0 DEF ControlState
  <2>3. /\ conn[d] = "open" /\ req[d] # <<>> /\ Pop(d)
        /\ \/ Deliver(d, Pkt("ok", state, cfg), cleared) /\ Live' = cfg
           \/ Deliver(d, Pkt("error", state, NoConfig), state)
    BY <1>3 DEF Switch, Commit, Live
  <2>4. CASE Deliver(d, Pkt("ok", state, cfg), cleared) /\ Live' = cfg
    <3>1. cfg = Head(req[d])
      OBVIOUS
    <3> HIDE DEF cfg, cleared
    <3> QED
      BY <1>0, <2>1, <2>2, <2>3, <2>4, <3>1, ReplyServes
  <2>5. CASE Deliver(d, Pkt("error", state, NoConfig), state)
    BY <1>0, <2>3, <2>5, ReplyServes
  <2> QED
    BY <2>3, <2>4, <2>5
<1>4. CASE FindDevice \/ OpenGone \/ OpenSession \/ RetryDelayElapsed \/ Start
  BY <1>0, <1>4, UnchangedServes DEF FindDevice, OpenGone, OpenSession,
     RetryDelayElapsed, Start
<1>5. CASE RejectBeforeProxy
  BY <1>0, <1>2, <1>5, UnchangedServes DEF RejectBeforeProxy
<1>6. CASE StartProxy
  <2>1. [state EXCEPT !.uhid_ready = TRUE] \in ControlState
    BY <1>0 DEF ControlState
  <2> QED
    BY <1>0, <1>6, <2>1, SetStateServes DEF StartProxy
<1>7. CASE ConfigChanged
  <2>1. [uhid_ready |-> FALSE, needs_config |-> FALSE] \in ControlState
    BY DEF ControlState
  <2> QED
    BY <1>0, <1>7, <2>1, SetStateServes DEF ConfigChanged
<1>8. CASE DeviceGone
  <2>1. [uhid_ready |-> FALSE, needs_config |-> TRUE] \in ControlState
    BY DEF ControlState
  <2> QED
    BY <1>0, <1>8, <2>1, SetStateServes DEF DeviceGone
<1>9. CASE Stop
  <2>1. /\ rsp'[c] = rsp[c] /\ req'[c] = <<>> /\ Len(rsp[c]) \in Nat
        /\ conn'[c] = IF conn[c] = "closed" THEN "closed" ELSE "hup"
    BY <1>0, <1>9, LenProperties DEF Stop, WireTypeOK
  <2> QED
    BY <2>1 DEF Served
<1>10. CASE Environment
  BY <1>0, <1>10, UnchangedServes DEF Environment, Unplug, Plug
<1> QED
  BY <1>1, <1>2, <1>3, <1>4, <1>5, <1>6, <1>7, <1>8, <1>9, <1>10 DEF DaemonStep, Reject

\* When a step of dseuhid changes the configuration in force or withdraws
\* needs_config, client c was told, lost its connection, or was not the one
\* served.
LEMMA LiveServes ==
  ASSUME ControlInv, WireInv, DaemonStep \/ Environment, NEW c \in Clients
  PROVE  \/ Live' = Live /\ state'.needs_config = state.needs_config
         \/ state'.needs_config
         \/ conn'[c] # "open"
         \/ \E d \in Clients \ {c} : conn[d] = "open"
         \/ /\ req[c] # <<>> /\ Len(rsp'[c]) > Len(rsp[c])
            /\ rsp'[c][Len(rsp[c]) + 1].kind = "ok"
<1> DEFINE Same == Live' = Live /\ state'.needs_config = state.needs_config
<1>0. /\ WireTypeOK /\ state \in ControlState /\ NoConfig \in Maybe
      /\ PhaseInv /\ RecreateInv /\ NeedsConfigIffPassthrough
  BY DEF WireInv, ControlInv, CoreTypeOK, Maybe
<1>1. ASSUME NEW d \in Clients, Accept(d) \/ Reject(d)
      PROVE  Same
  BY <1>1, DeliverState DEF Accept, Reject, NotReady, Live, session
<1>2. ASSUME NEW d \in Clients, Switch(d), conn'[c] = "open",
             \A e \in Clients \ {c} : conn[e] # "open"
      PROVE  \/ Same
             \/ /\ req[c] # <<>> /\ Len(rsp'[c]) > Len(rsp[c])
                /\ rsp'[c][Len(rsp[c]) + 1].kind = "ok"
  <2> DEFINE cfg == Head(req[d])
             cleared == [state EXCEPT !.needs_config = FALSE]
             ok == Pkt("ok", state, cfg)
  <2>1. d = c /\ req[c] # <<>>
    BY <1>2 DEF Switch
  <2>2. CASE Deliver(d, ok, cleared)
    <3>1. cfg \in Maybe
      BY <1>0, <1>2, HeadTailProperties DEF Switch, WireTypeOK, Maybe
    <3>2. cleared \in ControlState /\ ok \in Packet /\ ok.kind = "ok"
      BY <1>0, <3>1 DEF ControlState, Pkt, Packet, Maybe
    <3> HIDE DEF cfg, cleared, ok
    <3>3. Delivered(c, d, ok, Pkt("state", cleared, NoConfig), cleared # state)
      BY <1>0, <2>2, <3>2, DeliverQueue
    <3> QED
      BY <1>2, <2>1, <3>2, <3>3 DEF Delivered
  <2>3. CASE /\ UNCHANGED <<proxy, mapping, recreate>>
             /\ Deliver(d, Pkt("error", state, NoConfig), state)
    BY <1>2, <2>3, DeliverState DEF Switch, Live
  <2> QED
    BY <1>2, <2>2, <2>3 DEF Switch
<1>3. CASE FindDevice \/ OpenGone \/ OpenSession \/ RetryDelayElapsed \/ Start
  BY <1>3 DEF FindDevice, OpenGone, OpenSession, RetryDelayElapsed, Start, Live, session
<1>4. CASE RejectBeforeProxy
  <2>1. state' = state
    BY <1>4, DeliverState DEF RejectBeforeProxy, NotReady
  <2> QED
    BY <1>4, <2>1 DEF RejectBeforeProxy, Live
<1>5. CASE StartProxy
  <2>1. state' = [state EXCEPT !.uhid_ready = TRUE]
    BY <1>5, DeliverState DEF StartProxy, SetState
  <2> QED
    BY <1>0, <1>5, <2>1 DEF StartProxy, Live, session, ControlState
<1>6. CASE ConfigChanged
  <2>1. state' = [uhid_ready |-> FALSE, needs_config |-> FALSE]
    BY <1>6, DeliverState DEF ConfigChanged, SetState
  <2>2. Live' = Live /\ Live # NoConfig
    BY <1>0, <1>6 DEF ConfigChanged, Live, RecreateInv
  <2>3. ~state.needs_config
    BY <1>0, <2>2 DEF NeedsConfigIffPassthrough
  <2>4. state.needs_config = FALSE
    BY <1>0, <2>3 DEF ControlState
  <2> QED
    BY <2>1, <2>2, <2>4
<1>7. CASE DeviceGone
  <2>1. state' = [uhid_ready |-> FALSE, needs_config |-> TRUE]
    BY <1>7, DeliverState DEF DeviceGone, SetState
  <2> QED
    BY <2>1
<1>8. CASE Stop
  BY <1>8 DEF Stop
<1>9. CASE Environment
  BY <1>9 DEF Environment, Unplug, Plug, Live, session
<1> QED
  BY <1>1, <1>2, <1>3, <1>4, <1>5, <1>6, <1>7, <1>8, <1>9 DEF DaemonStep

----------------------------------------------------------------------------
(* The inductive invariant: what is queued between edgemap and dseuhid at   *)
(* each point of edgemap's loop.                                            *)
Here == conn[Edgemap]
Queue == rsp[Edgemap]
Asked == req[Edgemap]

Answer == {"ok", "error"}
NoAnswer(q) == \A i \in 1 .. Len(q) : q[i].kind \notin Answer
HasOk(q) == \E i \in 1 .. Len(q) : q[i].kind = "ok"
\* At most one reply, which acknowledges nothing but target.
OneAnswer(q, target) ==
  /\ \A i, j \in 1 .. Len(q) : q[i].kind \in Answer /\ q[j].kind \in Answer => i = j
  /\ \A i \in 1 .. Len(q) : q[i].kind = "ok" => q[i].config = target
NoKind(q, kind) == \A i \in 1 .. Len(q) : q[i].kind # kind
Greeting(q) == \A i \in 1 .. Len(q) : q[i].kind = IF i = 1 THEN "hello" ELSE "state"

\* A connection exists exactly where the loop thinks it does, and carries
\* nothing before it is accepted.
LinkInv ==
  /\ Connected => pc # "hello" /\ Here \in {"open", "hup"}
  /\ ~Connected => /\ pc \in {"wait", "top", "hello"}
                   /\ IF pc = "hello" THEN Here # "closed" ELSE Here = "closed"
  /\ Here \in {"closed", "backlog"} => Queue = <<>> /\ Asked = <<>>
  /\ Here = "hup" => Asked = <<>>

\* The hello comes first and once.
HelloInv ==
  /\ pc = "hello" =>
       /\ Asked = <<>>
       /\ Here = "open" => Len(Queue) > 0
       /\ Greeting(Queue)
  /\ Connected => NoKind(Queue, "hello")

\* One request, one reply: what is unanswered is what edgemap waits for.
ReplyInv ==
  (stale = 0 /\ (Here = "open" \/ pc = "reply")) =>
    IF pc = "reply"
    THEN \/ Asked = <<pending.target>> /\ NoAnswer(Queue)
         \/ Asked = <<>> /\ OneAnswer(Queue, pending.target)
    ELSE Asked = <<>> /\ NoAnswer(Queue)

\* While no manual client has run, nobody else is connected.
ManualUnused == budget["manual"] = MaxManual
ManualInv ==
  /\ budget["manual"] \leq MaxManual
  /\ ManualUnused => \A c \in Clients \ {Edgemap} : conn[c] = "closed"

\* BeliefIsTrue also inside a request: once its "ok" is under way, the
\* configuration in force is the one requested.
Undisturbed ==
  ManualUnused /\ Connected /\ Here = "open" /\ stale = 0 /\ ~state.needs_config
Acked == pc = "reply" /\ HasOk(Queue)
BeliefInv ==
  Undisturbed => IF Acked THEN Live = pending.target
                 ELSE ~tracker.force => Live = tracker.effective

EdgemapTypeOK ==
  /\ pc \in {"wait", "top", "hello", "decide", "reply"}
  /\ view \in ControlState \cup {NoView}
  /\ tracker \in Tracker
  /\ pending \in PendingApply \cup {NoPending}
  /\ {due, changed, runtime, touched} \subseteq BOOLEAN
  /\ wanted \in Configs
  /\ loadable \subseteq Configs
  /\ stale \in Nat
  /\ budget \in [Events -> Nat]

ServerInv == ControlInv /\ WireInv /\ CountersOK
LoopInv == LinkInv /\ HelloInv /\ ReplyInv /\ ViewConverges /\ ManualInv /\ BeliefInv
SyncInv == ServerInv /\ EdgemapTypeOK /\ LoopInv

\* A queue that only grew.
LEMMA GrownQueue ==
  ASSUME NEW old, NEW q, Len(old) \in Nat, Len(q) \in Nat, Len(q) \geq Len(old),
         \A i \in 1 .. Len(old) : q[i] = old[i]
  PROVE  /\ HasOk(old) => HasOk(q)
         /\ \A kind : NoKind(q, kind) => NoKind(old, kind)
BY DEF HasOk, NoKind

\* What edgemap relies on survives every step of dseuhid it does not see.
LEMMA ServedLoop ==
  ASSUME SyncInv, DaemonStep \/ Environment, Served(Edgemap),
         UNCHANGED <<edgemap, world, budget>>, WireInv'
  PROVE  (LinkInv /\ HelloInv /\ ReplyInv /\ ViewConverges)'
<1> DEFINE old == rsp[Edgemap]
           q == rsp'[Edgemap]
           k == Len(old) + 1
<1>0. /\ Edgemap \in Clients /\ WireTypeOK /\ WireTypeOK'
      /\ conn[Edgemap] \in {"closed", "backlog", "open", "hup"}
      /\ Len(old) \in Nat /\ Len(q) \in Nat
  BY EdgemapAssumption, LenProperties DEF SyncInv, ServerInv, WireInv, WireTypeOK
<1>1. UNCHANGED <<pc, view, tracker, pending, stale, budget>>
  BY DEF edgemap
<1>2. /\ conn'[Edgemap] \in {conn[Edgemap], "hup"}
      /\ conn[Edgemap] = "closed" => conn'[Edgemap] = "closed"
      /\ conn[Edgemap] # "open" => q = old /\ req'[Edgemap] \in {req[Edgemap], <<>>}
      /\ conn'[Edgemap] = "hup" => req'[Edgemap] = <<>> \/ conn[Edgemap] = "hup"
      /\ Len(q) \geq Len(old)
      /\ \A i \in 1 .. Len(old) : q[i] = old[i]
  BY DEF Served
<1>3. \A i \in 1 .. Len(q) : i > Len(old) =>
        \/ q[i].kind = "state"
        \/ /\ i = k /\ req[Edgemap] # <<>> /\ conn[Edgemap] = "open"
           /\ \/ q[i].kind = "error"
              \/ q[i].kind = "ok" /\ q[i].config = Head(req[Edgemap])
  BY DEF Served
<1>4. conn'[Edgemap] = "open" =>
        \/ /\ req'[Edgemap] = req[Edgemap]
           /\ \A i \in 1 .. Len(q) : i > Len(old) => q[i].kind = "state"
        \/ /\ req[Edgemap] # <<>> /\ req'[Edgemap] = Tail(req[Edgemap])
  BY DEF Served
<1>5. conn'[Edgemap] = "open" /\ state' # state => ~NoKind(q, "state")
  BY DEF Served, NoKind
<1> HIDE DEF old, q
<1>6. LinkInv'
  BY <1>0, <1>1, <1>2 DEF SyncInv, LoopInv, LinkInv, Connected, Here, Queue, Asked, old, q
<1>7. HelloInv'
  <2>1. ASSUME pc = "hello"
        PROVE  Asked' = <<>> /\ (Here' = "open" => Len(q) > 0) /\ Greeting(q)
    <3>1. req[Edgemap] = <<>> /\ Greeting(old) /\ (conn[Edgemap] = "open" => Len(old) > 0)
      BY <2>1 DEF SyncInv, LoopInv, HelloInv, Asked, Here, Queue, old
    <3>2. Asked' = <<>>
      BY <1>2, <1>4, <3>1, <1>0 DEF Asked
    <3>3. Here' = "open" => Len(q) > 0
      BY <1>0, <1>2, <3>1 DEF Here
    <3>4. \A i \in 1 .. Len(q) : i > Len(old) => q[i].kind = "state" /\ Len(old) > 0
      BY <1>0, <1>2, <1>3, <3>1
    <3> QED
      BY <1>0, <1>2, <3>1, <3>2, <3>3, <3>4 DEF Greeting
  <2>2. ASSUME Connected
        PROVE  NoKind(q, "hello")
    <3>1. NoKind(old, "hello")
      BY <2>2 DEF SyncInv, LoopInv, HelloInv, Queue, old
    <3> QED
      BY <1>0, <1>2, <1>3, <3>1 DEF NoKind
  <2> QED
    BY <1>1, <2>1, <2>2 DEF HelloInv, Connected, Queue, q
<1>8. ASSUME stale = 0, conn'[Edgemap] = "open" \/ pc = "reply"
      PROVE  IF pc = "reply"
             THEN \/ Asked' = <<pending.target>> /\ NoAnswer(q)
                  \/ Asked' = <<>> /\ OneAnswer(q, pending.target)
             ELSE Asked' = <<>> /\ NoAnswer(q)
  <2>1. conn[Edgemap] = "open" \/ pc = "reply"
    BY <1>0, <1>2, <1>8
  <2>2. CASE req[Edgemap] = <<>>
    <3>1. \A i \in 1 .. Len(q) : i > Len(old) => q[i].kind = "state"
      BY <1>3, <2>2
    <3>2. Asked' = <<>>
      BY <1>0, <1>2, <1>4, <2>2 DEF Asked
    <3>3. NoAnswer(old) => NoAnswer(q)
      BY <1>0, <1>2, <3>1 DEF NoAnswer, Answer
    <3>4. \A t : OneAnswer(old, t) => OneAnswer(q, t)
      BY <1>0, <1>2, <3>1 DEF OneAnswer, Answer
    <3>5. NoAnswer(old) => OneAnswer(old, pending.target)
      BY DEF NoAnswer, OneAnswer, Answer
    <3> QED
      BY <1>8, <2>1, <2>2, <3>2, <3>3, <3>4, <3>5
         DEF SyncInv, LoopInv, ReplyInv, Here, Queue, Asked, old
  <2>3. CASE req[Edgemap] # <<>>
    <3>1. /\ pc = "reply" /\ NoAnswer(old)
          /\ req[Edgemap] = <<pending.target>> /\ conn[Edgemap] = "open"
      BY <1>0, <1>8, <2>1, <2>3
         DEF SyncInv, LoopInv, ReplyInv, LinkInv, Here, Queue, Asked, old
    <3>2. Head(req[Edgemap]) = pending.target /\ Tail(req[Edgemap]) = <<>>
      BY <3>1
    <3>3. \A i \in 1 .. Len(q) : q[i].kind \in Answer =>
             i = k /\ (q[i].kind = "ok" => q[i].config = pending.target)
      BY <1>0, <1>2, <1>3, <3>1, <3>2 DEF NoAnswer, Answer
    <3>4. OneAnswer(q, pending.target)
      BY <3>3 DEF OneAnswer, Answer
    <3>5. \/ Asked' = <<>>
          \/ Asked' = <<pending.target>>
             /\ \A i \in 1 .. Len(q) : i > Len(old) => q[i].kind = "state"
      BY <1>0, <1>2, <1>4, <3>1, <3>2 DEF Asked
    <3>6. CASE \A i \in 1 .. Len(q) : i > Len(old) => q[i].kind = "state"
      <4>1. NoAnswer(q)
        BY <1>0, <1>2, <3>1, <3>6 DEF NoAnswer, Answer
      <4> QED
        BY <3>1, <3>4, <3>5, <4>1
    <3> QED
      BY <3>1, <3>4, <3>5, <3>6
  <2> QED
    BY <2>2, <2>3
<1>9. ReplyInv'
  BY <1>1, <1>8 DEF ReplyInv, Here, Queue, q
<1>10. ViewConverges'
  <2>1. SUFFICES ASSUME Connected, conn'[Edgemap] = "open", NoKind(q, "state")
                 PROVE  view = state'
    BY <1>1 DEF ViewConverges, Connected, NoKind, q
  <2>2. state' = state
    BY <1>5, <2>1
  <2>3. conn[Edgemap] = "open"
    BY <1>0, <1>2, <2>1
  <2>4. NoKind(old, "state")
    BY <1>0, <1>2, <2>1, GrownQueue
  <2> QED
    BY <2>1, <2>2, <2>3, <2>4 DEF SyncInv, LoopInv, ViewConverges, NoKind, old
<1> QED
  BY <1>6, <1>7, <1>9, <1>10

\* A request of edgemap that dseuhid serves changes the configuration in
\* force to the one requested, and the reply says so.
LEMMA ServedBelief ==
  ASSUME SyncInv, DaemonStep \/ Environment, Served(Edgemap),
         UNCHANGED <<edgemap, world, budget>>, WireInv'
  PROVE  BeliefInv'
<1> DEFINE old == rsp[Edgemap]
           q == rsp'[Edgemap]
           k == Len(old) + 1
<1>0. /\ Edgemap \in Clients /\ ControlInv /\ WireInv
      /\ conn[Edgemap] \in {"closed", "backlog", "open", "hup"}
      /\ Len(old) \in Nat /\ Len(q) \in Nat
  BY EdgemapAssumption, LenProperties DEF SyncInv, ServerInv, WireInv, WireTypeOK
<1>1. UNCHANGED <<pc, view, tracker, pending, stale, budget>>
  BY DEF edgemap
<1>2. /\ conn'[Edgemap] \in {conn[Edgemap], "hup"}
      /\ Len(q) \geq Len(old)
      /\ \A i \in 1 .. Len(old) : q[i] = old[i]
      /\ \A i \in 1 .. Len(q) : i > Len(old) /\ q[i].kind = "ok" =>
           req[Edgemap] # <<>> /\ Live' = Head(req[Edgemap])
  BY DEF Served
<1>3. \/ Live' = Live /\ state'.needs_config = state.needs_config
      \/ state'.needs_config
      \/ conn'[Edgemap] # "open"
      \/ \E d \in Clients \ {Edgemap} : conn[d] = "open"
      \/ /\ req[Edgemap] # <<>> /\ Len(q) > Len(old) /\ q[k].kind = "ok"
  BY <1>0, LiveServes
<1> HIDE DEF old, q
<1>4. SUFFICES ASSUME Undisturbed'
               PROVE  IF pc = "reply" /\ HasOk(q) THEN Live' = pending.target
                      ELSE ~tracker.force => Live' = tracker.effective
  BY <1>1 DEF BeliefInv, Acked, Queue, q
<1>5. /\ ManualUnused /\ Connected /\ stale = 0 /\ ~state'.needs_config
      /\ conn'[Edgemap] = "open" /\ conn[Edgemap] = "open"
  BY <1>0, <1>1, <1>2, <1>4 DEF Undisturbed, ManualUnused, Connected, Here
<1>6. ~\E d \in Clients \ {Edgemap} : conn[d] = "open"
  BY <1>5 DEF SyncInv, LoopInv, ManualInv
<1>7. req[Edgemap] # <<>> => /\ pc = "reply" /\ NoAnswer(old)
                             /\ Head(req[Edgemap]) = pending.target
  BY <1>5 DEF SyncInv, LoopInv, ReplyInv, Here, Queue, Asked, old
<1>8. ASSUME NEW i \in 1 .. Len(q), i > Len(old), q[i].kind = "ok"
      PROVE  pc = "reply" /\ HasOk(q) /\ Live' = pending.target
  BY <1>2, <1>7, <1>8 DEF HasOk
<1>9. CASE Live' = Live /\ state'.needs_config = state.needs_config
  <2>1. IF pc = "reply" /\ HasOk(old) THEN Live = pending.target
        ELSE ~tracker.force => Live = tracker.effective
    BY <1>5, <1>9 DEF SyncInv, LoopInv, BeliefInv, Undisturbed, Acked, Here, Queue, old
  <2>2. CASE \E i \in 1 .. Len(q) : i > Len(old) /\ q[i].kind = "ok"
    BY <1>8, <2>2
  <2>3. CASE ~\E i \in 1 .. Len(q) : i > Len(old) /\ q[i].kind = "ok"
    <3>1. HasOk(q) <=> HasOk(old)
      BY <1>0, <1>2, <2>3 DEF HasOk
    <3> QED
      BY <1>9, <2>1, <3>1
  <2> QED
    BY <2>2, <2>3
<1>10. CASE /\ req[Edgemap] # <<>> /\ Len(q) > Len(old) /\ q[k].kind = "ok"
  <2>1. k \in 1 .. Len(q) /\ k > Len(old)
    BY <1>0, <1>10
  <2> QED
    BY <1>8, <1>10, <2>1
<1> QED
  BY <1>3, <1>5, <1>6, <1>9, <1>10

\* dseuhid accepts edgemap's connection.
LEMMA AcceptedLoop ==
  ASSUME SyncInv, Accept(Edgemap), UNCHANGED <<edgemap, world, budget>>
  PROVE  (LinkInv /\ HelloInv /\ ReplyInv /\ ViewConverges /\ BeliefInv)'
<1> DEFINE hello == Pkt("hello", state, NoConfig)
<1>0. /\ Edgemap \in Clients /\ WireTypeOK /\ hello.kind = "hello"
  BY EdgemapAssumption DEF SyncInv, ServerInv, WireInv, Pkt
<1> HIDE DEF hello
<1>1. UNCHANGED <<pc, view, tracker, pending, stale, budget>>
  BY DEF edgemap
<1>2. /\ conn[Edgemap] = "backlog" /\ conn'[Edgemap] = "open"
      /\ rsp'[Edgemap] = <<hello>> /\ req'[Edgemap] = req[Edgemap]
  BY <1>0 DEF Accept, WireTypeOK, hello
<1>3. pc = "hello" /\ ~Connected /\ req[Edgemap] = <<>>
  BY <1>2 DEF SyncInv, LoopInv, LinkInv, Here, Asked
<1>4. Len(<<hello>>) = 1 /\ \A i \in 1 .. Len(<<hello>>) : i = 1 /\ <<hello>>[i] = hello
  OBVIOUS
<1>5. Greeting(<<hello>>) /\ NoAnswer(<<hello>>) /\ Len(<<hello>>) > 0
  BY <1>0, <1>4 DEF Greeting, NoAnswer, Answer
<1>6. ~Connected'
  BY <1>1, <1>3 DEF Connected
<1> QED
  BY <1>1, <1>2, <1>3, <1>5, <1>6
     DEF LinkInv, HelloInv, ReplyInv, ViewConverges, BeliefInv, Undisturbed, Here, Queue,
         Asked

\* The connections of the other clients.
LEMMA ServedManual ==
  ASSUME SyncInv, DaemonStep \/ Environment, UNCHANGED <<edgemap, world, budget>>
  PROVE  ManualInv'
<1>1. ASSUME ManualUnused, NEW c \in Clients \ {Edgemap}
      PROVE  conn'[c] = "closed"
  <2>1. conn[c] = "closed"
    BY <1>1 DEF SyncInv, LoopInv, ManualInv
  <2>2. Served(c) \/ Accept(c)
    BY ServerServes DEF SyncInv, ServerInv
  <2> QED
    BY <2>1, <2>2 DEF Served, Accept
<1> QED
  BY <1>1 DEF SyncInv, LoopInv, ManualInv, ManualUnused

\* Every step of dseuhid and the controller keeps the invariant.
LEMMA ServerStepInv ==
  ASSUME SyncInv, DaemonStep \/ Environment, UNCHANGED <<edgemap, world, budget>>
  PROVE  SyncInv'
<1>1. ServerInv'
  BY ControlInvStep, WireInvStep, CountersStep DEF SyncInv, ServerInv, Next
<1>2. EdgemapTypeOK'
  BY DEF SyncInv, EdgemapTypeOK, edgemap, world, activity
<1>3. Served(Edgemap) \/ Accept(Edgemap)
  BY ServerServes, EdgemapAssumption DEF SyncInv, ServerInv
<1>4. LoopInv'
  BY <1>1, <1>3, ServedLoop, ServedBelief, AcceptedLoop, ServedManual
     DEF ServerInv, LoopInv
<1> QED
  BY <1>1, <1>2, <1>4 DEF SyncInv

----------------------------------------------------------------------------
(* The steps of edgemap and its surroundings.                               *)

\* The tracker's operations keep its type; only ForceUnknown and Acknowledge
\* touch what it believes.
LEMMA TrackerOperations ==
  ASSUME NEW t \in Tracker, NEW p \in PendingApply \cup {NoPending}, NEW sel \in Configs,
         NEW files
  PROVE  /\ NewTracker \in Tracker
         /\ ForceUnknown(t) \in Tracker /\ ForceUnknown(t).force
         /\ /\ RecordRequestFailure(t, p) \in Tracker
            /\ RecordRequestFailure(t, p).force = t.force
            /\ RecordRequestFailure(t, p).effective = t.effective
         /\ Acknowledge(t, p) \in Tracker /\ Acknowledge(t, p).effective = p.target
         /\ /\ Prepared(t, sel, Base, files) \in Tracker
            /\ Prepared(t, sel, Base, files).force = t.force
            /\ Prepared(t, sel, Base, files).effective = t.effective
         /\ Pending(t, sel, Base, files) \in PendingApply
<1> USE EdgemapAssumption DEF Tracker, MaybePath, PendingApply, NoPending
<1>1. NewTracker \in Tracker
  BY DEF NewTracker
<1>2. ForceUnknown(t) \in Tracker /\ ForceUnknown(t).force
  BY DEF ForceUnknown
<1>3. ASSUME NEW s \in MaybePath
      PROVE  /\ SetFailure(t, s) \in Tracker
             /\ SetFailure(t, s).force = t.force
             /\ SetFailure(t, s).effective = t.effective
  BY DEF SetFailure
<1>4. p.selected \in MaybePath /\ p.target \in MaybePath
  OBVIOUS
<1>5. Acknowledge(t, p) \in Tracker /\ Acknowledge(t, p).effective = p.target
  BY <1>4 DEF Acknowledge
<1>6. /\ ClearFailure(t) \in Tracker
      /\ ClearFailure(t).force = t.force
      /\ ClearFailure(t).effective = t.effective
  BY DEF ClearFailure
<1>7. sel \in MaybePath
  OBVIOUS
<1>8. Prepared(t, sel, Base, files) \in {ClearFailure(t), SetFailure(t, sel), t}
  BY DEF Prepared
<1>9. Pending(t, sel, Base, files) \in PendingApply
  BY DEF Pending
<1> QED
  BY <1>1, <1>2, <1>3, <1>4, <1>5, <1>6, <1>7, <1>8, <1>9 DEF RecordRequestFailure

\* A step of edgemap: dseuhid and the other clients are left alone.
LEMMA OwnStep ==
  ASSUME SyncInv, UNCHANGED server, WireInv',
         budget'["manual"] = budget["manual"],
         \A c \in Clients \ {Edgemap} : conn'[c] = conn[c]
  PROVE  /\ ServerInv' /\ ManualInv'
         /\ Live' = Live /\ state' = state
         /\ ManualUnused' = ManualUnused
<1>1. ControlInv'
  BY UnchangedCore DEF SyncInv, ServerInv, server
<1>2. CountersOK'
  BY DEF SyncInv, ServerInv, CountersOK, server
<1>3. Live' = Live /\ state' = state
  BY DEF server, session, Live
<1>4. ManualInv'
  BY DEF SyncInv, LoopInv, ManualInv, ManualUnused
<1> QED
  BY <1>1, <1>2, <1>3, <1>4 DEF ServerInv, ManualUnused

\* Every step of the loop that neither awaits nor sends a packet.
LEMMA QuietStep ==
  ASSUME SyncInv, UNCHANGED <<server, wire, view, stale>>,
         budget'["manual"] = budget["manual"],
         pc \in {"wait", "top", "decide"}, pc' \in {"wait", "top", "decide"},
         ~Connected => pc' \in {"wait", "top"},
         \/ tracker'.force
         \/ tracker'.force = tracker.force /\ tracker'.effective = tracker.effective
  PROVE  ServerInv' /\ LoopInv'
<1>1. WireInv'
  BY UnchangedWire DEF SyncInv, ServerInv, server
<1>2. UNCHANGED <<conn, req, rsp, view, stale>>
  BY DEF wire
<1>3. ServerInv' /\ ManualInv' /\ Live' = Live /\ state' = state
      /\ ManualUnused' = ManualUnused
  BY <1>1, <1>2, OwnStep
<1>4. LinkInv' /\ HelloInv' /\ ReplyInv' /\ ViewConverges'
  BY <1>2, <1>3 DEF SyncInv, LoopInv, LinkInv, HelloInv, ReplyInv, ViewConverges, Connected,
     Here, Queue, Asked
<1>5. BeliefInv'
  BY <1>2, <1>3 DEF SyncInv, LoopInv, BeliefInv, Undisturbed, Acked, Connected, Here
<1> QED
  BY <1>3, <1>4, <1>5 DEF LoopInv

\* Hanging up, whatever edgemap was doing.
LEMMA HangUpStep ==
  ASSUME SyncInv, UNCHANGED server, HangUp(Edgemap), budget'["manual"] = budget["manual"],
         view' = NoView, pc' \in {"wait", "top"}
  PROVE  ServerInv' /\ LoopInv'
<1>0. Edgemap \in Clients /\ WireTypeOK
  BY EdgemapAssumption DEF SyncInv, ServerInv, WireInv
<1>1. WireInv'
  BY <1>0, HangUpWire DEF SyncInv, ServerInv, server
<1>2. /\ conn'[Edgemap] = "closed" /\ req'[Edgemap] = <<>> /\ rsp'[Edgemap] = <<>>
      /\ \A c \in Clients \ {Edgemap} : conn'[c] = conn[c]
  BY <1>0 DEF HangUp, WireTypeOK
<1>3. ServerInv' /\ ManualInv'
  BY <1>1, <1>2, OwnStep
<1>4. ~Connected'
  BY DEF Connected
<1> QED
  BY <1>2, <1>3, <1>4 DEF LoopInv, LinkInv, HelloInv, ReplyInv, ViewConverges, BeliefInv,
     Undisturbed, Here, Queue, Asked

\* What is left in the queue when its head is read.
LEMMA TailQueue ==
  ASSUME NEW q \in Seq(Packet), q # <<>>, NEW t, t = Tail(q)
  PROVE  /\ NoAnswer(q) => NoAnswer(t)
         /\ \A x : OneAnswer(q, x) => OneAnswer(t, x)
         /\ \A x : OneAnswer(q, x) /\ Head(q).kind \in Answer => NoAnswer(t)
         /\ \A kind : NoKind(q, kind) => NoKind(t, kind)
         /\ \A kind : Head(q).kind # kind /\ NoKind(t, kind) => NoKind(q, kind)
         /\ Head(q).kind # "ok" => (HasOk(t) <=> HasOk(q))
         /\ Head(q).kind = "ok" => HasOk(q)
         /\ \A x : OneAnswer(q, x) /\ Head(q).kind = "ok" => Head(q).config = x
         /\ Greeting(q) => NoAnswer(t) /\ NoKind(t, "hello")
<1>1. /\ Len(q) \in Nat /\ Len(q) > 0 /\ Head(q) = q[1]
      /\ Len(t) = Len(q) - 1
      /\ \A i \in 1 .. Len(t) : t[i] = q[i + 1]
  BY HeadTailProperties, LenProperties, EmptySeq
<1>2. \A i \in 1 .. Len(t) : i + 1 \in 1 .. Len(q) /\ i + 1 # 1
  BY <1>1
<1>3. \A i \in 1 .. Len(q) : i # 1 => i - 1 \in 1 .. Len(t) /\ q[i] = t[i - 1]
  BY <1>1
<1>4. NoAnswer(q) => NoAnswer(t)
  BY <1>1, <1>2 DEF NoAnswer
<1>5. ASSUME NEW x, OneAnswer(q, x)
      PROVE  /\ OneAnswer(t, x)
             /\ Head(q).kind \in Answer => NoAnswer(t)
             /\ Head(q).kind = "ok" => Head(q).config = x
  <2>1. 1 \in 1 .. Len(q)
    BY <1>1
  <2>2. ASSUME NEW i \in 1 .. Len(t), NEW j \in 1 .. Len(t),
               t[i].kind \in Answer, t[j].kind \in Answer
        PROVE  i = j
    <3>1. i + 1 = j + 1
      BY <1>1, <1>2, <1>5, <2>2 DEF OneAnswer
    <3> QED
      BY <3>1
  <2>3. \A i \in 1 .. Len(t) : t[i].kind = "ok" => t[i].config = x
    BY <1>1, <1>2, <1>5 DEF OneAnswer
  <2>4. Head(q).kind \in Answer => NoAnswer(t)
    BY <1>1, <1>2, <1>5, <2>1 DEF OneAnswer, NoAnswer
  <2> QED
    BY <1>1, <1>5, <2>1, <2>2, <2>3, <2>4 DEF OneAnswer
<1>6. \A kind : NoKind(q, kind) => NoKind(t, kind)
  BY <1>1, <1>2 DEF NoKind
<1>7. \A kind : Head(q).kind # kind /\ NoKind(t, kind) => NoKind(q, kind)
  BY <1>1, <1>3 DEF NoKind
<1>8. Head(q).kind # "ok" => (HasOk(t) <=> HasOk(q))
  BY <1>1, <1>2, <1>3 DEF HasOk
<1>9. Head(q).kind = "ok" => HasOk(q)
  BY <1>1 DEF HasOk
<1>10. Greeting(q) => NoAnswer(t) /\ NoKind(t, "hello")
  BY <1>1, <1>2 DEF Greeting, NoAnswer, Answer, NoKind
<1> QED
  BY <1>4, <1>5, <1>6, <1>7, <1>8, <1>9, <1>10

\* Reading a packet: the facts every reader below starts from.
LEMMA ReadStep ==
  ASSUME SyncInv, UNCHANGED server, Read(Edgemap), budget'["manual"] = budget["manual"]
  PROVE  /\ ServerInv' /\ ManualInv'
         /\ Live' = Live /\ state' = state
         /\ ManualUnused' = ManualUnused
         /\ rsp[Edgemap] \in Seq(Packet) /\ rsp[Edgemap] # <<>>
         /\ rsp'[Edgemap] = Tail(rsp[Edgemap])
         /\ conn' = conn /\ req' = req
<1>0. Edgemap \in Clients /\ WireTypeOK
  BY EdgemapAssumption DEF SyncInv, ServerInv, WireInv
<1>1. WireInv'
  BY <1>0, ReadWire DEF SyncInv, ServerInv, WireTypeOK, Read, server
<1> QED
  BY <1>0, <1>1, OwnStep DEF Read, WireTypeOK

\* The hello: edgemap starts from the state it carries, and believes nothing.
LEMMA GreetedInv ==
  ASSUME SyncInv, Greeted
  PROVE  SyncInv'
<1> DEFINE q == rsp[Edgemap]
           t == rsp'[Edgemap]
<1>0. Edgemap \in Clients /\ WireInv /\ WireTypeOK /\ EdgemapTypeOK
  BY EdgemapAssumption DEF SyncInv, ServerInv, WireInv
<1>1. /\ pc = "hello" /\ q # <<>> /\ Read(Edgemap)
      /\ view' = Head(q).state
      /\ tracker' = ForceUnknown(tracker) /\ due' = TRUE
      /\ pc' \in {"wait", "decide"}
      /\ UNCHANGED <<server, pending, changed, runtime, stale, touched, wanted, loadable,
                     budget>>
  BY DEF Greeted, After, world
<1>2. /\ ServerInv' /\ ManualInv' /\ state' = state
      /\ q \in Seq(Packet) /\ t = Tail(q) /\ UNCHANGED <<conn, req>>
  BY <1>1, ReadStep
<1>3. Head(q) \in Packet /\ Head(q) = q[1] /\ Len(q) \in Nat /\ Len(q) > 0
  BY <1>1, <1>2, HeadTailProperties, LenProperties, EmptySeq
<1>4. view' \in ControlState /\ view' # NoView
  BY <1>1, <1>3, EdgemapAssumption DEF Packet
<1>5. /\ ~Connected /\ req[Edgemap] = <<>> /\ Greeting(q)
      /\ conn[Edgemap] \in {"open", "hup"}
  <2>1. pc = "hello" => ~Connected
    BY DEF SyncInv, LoopInv, LinkInv
  <2> QED
    BY <1>0, <1>1, <2>1
       DEF SyncInv, LoopInv, LinkInv, HelloInv, Here, Queue, Asked, WireTypeOK
<1>6. NoAnswer(t) /\ NoKind(t, "hello")
  BY <1>1, <1>2, <1>5, TailQueue
<1>7. ASSUME conn[Edgemap] = "open", NoKind(t, "state")
      PROVE  view' = state
  <2> HIDE DEF q, t
  <2>1. Len(q) = 1
    <3>1. SUFFICES ASSUME Len(q) # 1
                   PROVE  FALSE
      OBVIOUS
    <3>2. /\ Len(t) = Len(q) - 1 /\ Len(t) \in Nat
          /\ \A i \in 1 .. Len(t) : t[i] = q[i + 1]
      BY <1>1, <1>2, HeadTailProperties, LenProperties
    <3>3. 1 \in 1 .. Len(t) /\ 2 \in 1 .. Len(q)
      BY <1>3, <3>1, <3>2
    <3>4. t[1] = q[2] /\ q[2].kind = "state"
      BY <1>5, <3>2, <3>3 DEF Greeting
    <3> QED
      BY <1>7, <3>3, <3>4 DEF NoKind
  <2>2. q[1].kind = "hello" /\ 1 \in 1 .. Len(q) /\ \A j \in 1 + 1 .. Len(q) : FALSE
    BY <1>5, <2>1 DEF Greeting
  <2>3. StateAt(q, 1)
    BY <2>2 DEF StateAt
  <2>4. q[1].state = state
    BY <1>0, <1>7, <2>2, <2>3 DEF WireInv, NewestQueuedStateIsCurrent, q
  <2> QED
    BY <1>1, <1>3, <2>4
<1>8. tracker' \in Tracker /\ tracker'.force
  BY <1>0, <1>1, TrackerOperations DEF EdgemapTypeOK
<1>9. EdgemapTypeOK'
  BY <1>0, <1>1, <1>4, <1>8 DEF EdgemapTypeOK
<1> HIDE DEF q, t
<1>10. LinkInv' /\ HelloInv' /\ ReplyInv'
  BY <1>1, <1>2, <1>4, <1>5, <1>6
     DEF LinkInv, HelloInv, ReplyInv, Connected, Here, Queue, Asked, t
<1>11. ViewConverges'
  BY <1>2, <1>7 DEF ViewConverges, NoKind, t
<1>12. BeliefInv'
  BY <1>1, <1>8 DEF BeliefInv, Acked
<1> QED
  BY <1>2, <1>9, <1>10, <1>11, <1>12 DEF SyncInv, LoopInv

\* A state read while a reply is awaited.
LEMMA ReceiveStateInv ==
  ASSUME SyncInv, ReceiveState
  PROVE  SyncInv'
<1> DEFINE q == rsp[Edgemap]
           t == rsp'[Edgemap]
<1>0. Edgemap \in Clients /\ WireInv /\ WireTypeOK /\ EdgemapTypeOK
  BY EdgemapAssumption DEF SyncInv, ServerInv, WireInv
<1>1. /\ pc = "reply" /\ q # <<>> /\ Read(Edgemap) /\ Head(q).kind = "state"
      /\ view' = Head(q).state
      /\ UNCHANGED <<server, pc, tracker, pending, activity, stale, world, budget>>
  BY DEF ReceiveState, Awaiting, Reply
<1>2. /\ ServerInv' /\ ManualInv' /\ Live' = Live /\ state' = state
      /\ ManualUnused' = ManualUnused
      /\ q \in Seq(Packet) /\ t = Tail(q) /\ UNCHANGED <<conn, req>>
  BY <1>1, ReadStep
<1>3. Head(q) \in Packet /\ Head(q) = q[1] /\ Len(q) \in Nat /\ Len(q) > 0
  BY <1>1, <1>2, HeadTailProperties, LenProperties, EmptySeq
<1>4. view' \in ControlState /\ view' # NoView
  BY <1>1, <1>3, EdgemapAssumption DEF Packet
<1>5. Connected /\ conn[Edgemap] \in {"open", "hup"}
  <2>1. pc = "reply" => Connected
    BY DEF SyncInv, LoopInv, LinkInv
  <2> QED
    BY <1>1, <2>1 DEF SyncInv, LoopInv, LinkInv, Here
<1>6. /\ NoAnswer(q) => NoAnswer(t)
      /\ \A x : OneAnswer(q, x) => OneAnswer(t, x)
      /\ NoKind(q, "hello") => NoKind(t, "hello")
      /\ HasOk(t) <=> HasOk(q)
  BY <1>1, <1>2, TailQueue
<1>7. ASSUME conn[Edgemap] = "open", NoKind(t, "state")
      PROVE  view' = state
  <2>1. /\ Len(t) = Len(q) - 1
        /\ \A i \in 1 .. Len(t) : t[i] = q[i + 1]
    BY <1>1, <1>2, HeadTailProperties
  <2>2. NoKind(q, "hello")
    BY <1>5 DEF SyncInv, LoopInv, HelloInv, Queue
  <2> HIDE DEF q, t
  <2>3. ASSUME NEW j \in 2 .. Len(q)
        PROVE  q[j].kind \notin {"hello", "state"}
    <3>1. j - 1 \in 1 .. Len(t) /\ t[j - 1] = q[j] /\ j \in 1 .. Len(q)
      BY <1>3, <2>1
    <3> QED
      BY <1>7, <2>2, <3>1 DEF NoKind
  <2>4. 1 \in 1 .. Len(q) /\ StateAt(q, 1)
    BY <1>1, <1>3, <2>3 DEF StateAt
  <2>5. q[1].state = state
    BY <1>0, <1>7, <2>4 DEF WireInv, NewestQueuedStateIsCurrent, q
  <2> QED
    BY <1>1, <1>3, <2>5
<1>8. EdgemapTypeOK'
  BY <1>0, <1>1, <1>4 DEF EdgemapTypeOK, activity, world
<1> HIDE DEF q, t
<1>9. LinkInv' /\ HelloInv'
  BY <1>1, <1>2, <1>4, <1>5, <1>6
     DEF SyncInv, LoopInv, LinkInv, HelloInv, Connected, Here, Queue, Asked, q, t
<1>10. ReplyInv'
  BY <1>1, <1>2, <1>6 DEF SyncInv, LoopInv, ReplyInv, Here, Queue, Asked, q, t
<1>11. ViewConverges'
  BY <1>2, <1>7 DEF ViewConverges, NoKind, t
<1>12. BeliefInv'
  BY <1>1, <1>2, <1>5, <1>6
     DEF SyncInv, LoopInv, BeliefInv, Undisturbed, Acked, Connected, Here, Queue, q, t
<1> QED
  BY <1>2, <1>8, <1>9, <1>10, <1>11, <1>12 DEF SyncInv, LoopInv

\* The reply: whichever it is, none is left behind it, and an "ok" makes the
\* belief what it acknowledges.
LEMMA ReceiveReplyInv ==
  ASSUME SyncInv, ReceiveOk \/ ReceiveError
  PROVE  SyncInv'
<1> DEFINE q == rsp[Edgemap]
           t == rsp'[Edgemap]
<1>0. Edgemap \in Clients /\ WireTypeOK /\ EdgemapTypeOK
  BY EdgemapAssumption DEF SyncInv, ServerInv, WireInv
<1>1. /\ pc = "reply" /\ q # <<>> /\ Read(Edgemap)
      /\ pc' = "wait" /\ pending' = NoPending
      /\ UNCHANGED <<server, view, due, changed, stale, world, budget>>
      /\ runtime' \in {runtime, TRUE}
      /\ \/ Head(q).kind = "ok" /\ tracker' = Acknowledge(tracker, pending)
         \/ Head(q).kind = "error" /\ tracker' = RecordRequestFailure(tracker, pending)
  BY DEF ReceiveOk, ReceiveError, RequestFails, Awaiting, Reply, activity
<1>2. /\ ServerInv' /\ ManualInv' /\ Live' = Live /\ state' = state
      /\ ManualUnused' = ManualUnused
      /\ q \in Seq(Packet) /\ t = Tail(q) /\ UNCHANGED <<conn, req>>
  BY <1>1, ReadStep
<1>3. pending \in PendingApply \cup {NoPending} /\ tracker \in Tracker /\ wanted \in Configs
  BY <1>0 DEF EdgemapTypeOK
<1>4. /\ tracker' \in Tracker
      /\ Head(q).kind = "ok" => tracker'.effective = pending.target
      /\ Head(q).kind # "ok" => /\ tracker'.effective = tracker.effective
                                /\ tracker'.force = tracker.force
  <2>1. /\ Acknowledge(tracker, pending) \in Tracker
        /\ Acknowledge(tracker, pending).effective = pending.target
        /\ RecordRequestFailure(tracker, pending) \in Tracker
        /\ RecordRequestFailure(tracker, pending).effective = tracker.effective
        /\ RecordRequestFailure(tracker, pending).force = tracker.force
    BY <1>3, TrackerOperations
  <2> QED
    BY <1>1, <2>1
<1>5. EdgemapTypeOK'
  BY <1>0, <1>1, <1>4 DEF EdgemapTypeOK, world
<1>6. Connected /\ conn[Edgemap] \in {"open", "hup"}
  <2>1. pc = "reply" => Connected
    BY DEF SyncInv, LoopInv, LinkInv
  <2> QED
    BY <1>1, <2>1 DEF SyncInv, LoopInv, LinkInv, Here
<1>7. Connected' = Connected
  BY <1>1 DEF Connected
<1>8. stale = 0 => \/ req[Edgemap] = <<pending.target>> /\ NoAnswer(q)
                   \/ req[Edgemap] = <<>> /\ OneAnswer(q, pending.target)
  BY <1>1 DEF SyncInv, LoopInv, ReplyInv, Asked, Queue
<1>9. Head(q).kind \in Answer
  BY <1>1 DEF Answer
<1>10. ~NoAnswer(q)
  <2>1. 1 \in 1 .. Len(q) /\ Head(q) = q[1]
    BY <1>1, <1>2, LenProperties, EmptySeq
  <2> QED
    BY <1>9, <2>1 DEF NoAnswer
<1>11. stale = 0 => /\ req[Edgemap] = <<>> /\ OneAnswer(q, pending.target)
                    /\ NoAnswer(t)
  BY <1>1, <1>2, <1>8, <1>9, <1>10, TailQueue
<1>12. /\ NoKind(q, "hello") => NoKind(t, "hello")
       /\ NoKind(t, "state") => NoKind(q, "state")
       /\ Head(q).kind = "ok" => HasOk(q)
  BY <1>1, <1>2, <1>9, TailQueue DEF Answer
<1>13. stale = 0 /\ Head(q).kind # "ok" => ~HasOk(q)
  <2>1. SUFFICES ASSUME stale = 0, Head(q).kind # "ok"
                 PROVE  ~HasOk(q)
    OBVIOUS
  <2>2. ~HasOk(t)
    BY <1>11, <2>1 DEF HasOk, NoAnswer, Answer
  <2> QED
    BY <1>1, <1>2, <2>1, <2>2, TailQueue
<1> HIDE DEF q, t
<1>14. LinkInv' /\ HelloInv' /\ ReplyInv'
  BY <1>1, <1>2, <1>6, <1>7, <1>11, <1>12
     DEF SyncInv, LoopInv, LinkInv, HelloInv, ReplyInv, Here, Queue, Asked, q, t
<1>15. ViewConverges'
  BY <1>1, <1>2, <1>7, <1>12 DEF SyncInv, LoopInv, ViewConverges, NoKind, q, t
<1>16. BeliefInv'
  <2>1. SUFFICES ASSUME Undisturbed'
                 PROVE  ~tracker'.force => Live = tracker'.effective
    BY <1>1, <1>2 DEF BeliefInv, Acked
  <2>2. Undisturbed /\ stale = 0
    BY <1>1, <1>2, <1>7, <2>1 DEF Undisturbed, Here
  <2>3. IF HasOk(q) THEN Live = pending.target
        ELSE ~tracker.force => Live = tracker.effective
    BY <1>1, <2>2 DEF SyncInv, LoopInv, BeliefInv, Acked, Queue, q
  <2> QED
    BY <1>4, <1>12, <1>13, <2>2, <2>3
<1> QED
  BY <1>2, <1>5, <1>14, <1>15, <1>16 DEF SyncInv, LoopInv

\* What an event leaves of the budget.
LEMMA SpendBudget ==
  ASSUME budget \in [Events -> Nat], CountersOK, NEW e \in Events \ {"any"}, Spend(e)
  PROVE  /\ budget' \in [Events -> Nat]
         /\ budget'["manual"] = IF e = "manual" THEN budget["manual"] - 1
                                ELSE budget["manual"]
         /\ budget["manual"] > 0 \/ e # "manual"
<1>1. budget["any"] \in Nat /\ budget[e] \in Nat /\ budget[e] > 0 /\ "any" \in Events
  BY DEF Spend, Events
<1>2. replugs + restarts \in Nat
  BY BoundAssumption DEF CountersOK
<1>3. budget["any"] > 0
  BY <1>1, <1>2 DEF Spend
<1>4. budget[e] - 1 \in Nat /\ budget["any"] - 1 \in Nat
  BY <1>1, <1>3
<1>5. /\ budget' = [budget EXCEPT ![e] = @ - 1, !["any"] = @ - 1]
      /\ e \in Events /\ "manual" \in Events /\ e # "any"
  BY DEF Spend, Events
<1>6. budget' = [x \in Events |-> IF x = "any" THEN budget["any"] - 1
                                  ELSE IF x = e THEN budget[e] - 1 ELSE budget[x]]
  BY <1>5
<1> QED
  BY <1>1, <1>4, <1>5, <1>6

\* The loop's own steps that touch neither a packet nor what is awaited.
LEMMA QuietInv ==
  ASSUME SyncInv,
         UNCHANGED <<server, wire, view, pending, stale, wanted, loadable, budget>>,
         {due', changed', runtime', touched'} \subseteq BOOLEAN,
         pc \in {"wait", "top", "decide"}, pc' \in {"wait", "top", "decide"},
         pc' = "decide" => Connected,
         NEW files, NEW p \in PendingApply \cup {NoPending},
         tracker' \in {tracker, ForceUnknown(tracker),
                      Prepared(tracker, wanted, Base, files),
                      RecordRequestFailure(tracker, p)}
  PROVE  SyncInv'
<1>0. EdgemapTypeOK /\ tracker \in Tracker /\ wanted \in Configs
  BY DEF SyncInv, EdgemapTypeOK
<1>1. /\ tracker' \in Tracker
      /\ \/ tracker'.force
         \/ tracker'.force = tracker.force /\ tracker'.effective = tracker.effective
  <2>1. /\ ForceUnknown(tracker) \in Tracker /\ ForceUnknown(tracker).force
        /\ Prepared(tracker, wanted, Base, files) \in Tracker
        /\ Prepared(tracker, wanted, Base, files).force = tracker.force
        /\ Prepared(tracker, wanted, Base, files).effective = tracker.effective
        /\ RecordRequestFailure(tracker, p) \in Tracker
        /\ RecordRequestFailure(tracker, p).force = tracker.force
        /\ RecordRequestFailure(tracker, p).effective = tracker.effective
    BY <1>0, TrackerOperations
  <2> QED
    BY <1>0, <2>1
<1>2. EdgemapTypeOK'
  BY <1>0, <1>1 DEF EdgemapTypeOK
<1>3. ServerInv' /\ LoopInv'
  BY <1>1, QuietStep
<1> QED
  BY <1>2, <1>3 DEF SyncInv

LEMMA WakeInv ==
  ASSUME SyncInv, NEW scan \in BOOLEAN, Wake(scan)
  PROVE  SyncInv'
<1>1. /\ (due \/ scan) \in BOOLEAN /\ (changed \/ touched) \in BOOLEAN
      /\ \A dial : (runtime \/ Readable \/ dial) \in BOOLEAN
  OBVIOUS
<1>2. {due', changed', runtime', touched'} \subseteq BOOLEAN
  BY <1>1 DEF Wake
<1>3. /\ UNCHANGED <<server, wire, view, pending, stale, wanted, loadable, budget>>
      /\ pc = "wait" /\ pc' = "top" /\ tracker' = tracker
  BY DEF Wake, vars, server, session, wire
<1> QED
  BY <1>2, <1>3, QuietInv

LEMMA ReloadInv ==
  ASSUME SyncInv, Reload
  PROVE  SyncInv'
<1>1. /\ UNCHANGED <<server, wire, view, pending, stale, wanted, loadable, budget>>
      /\ pc = "top" /\ pc' = "top" /\ tracker' \in {tracker, ForceUnknown(tracker)}
  BY DEF Reload, vars, server, session, wire, world
<1>2. {due', changed', runtime', touched'} \subseteq BOOLEAN
  BY DEF SyncInv, EdgemapTypeOK, Reload, world
<1> QED
  BY <1>1, <1>2, QuietInv

LEMMA NothingChangedInv ==
  ASSUME SyncInv, NothingChanged
  PROVE  SyncInv'
<1>1. /\ UNCHANGED <<server, wire, view, pending, stale, wanted, loadable, budget>>
      /\ pc = "top" /\ pc' \in {"wait", "decide"} /\ tracker' = tracker
      /\ pc' = "decide" => Connected
  BY DEF NothingChanged, Ready, vars, server, session, wire, world
<1>2. {due', changed', runtime', touched'} \subseteq BOOLEAN
  BY DEF SyncInv, EdgemapTypeOK, NothingChanged, activity, world
<1> QED
  BY <1>1, <1>2, QuietInv

\* drain_control_state.
LEMMA DrainInv ==
  ASSUME SyncInv, Drain
  PROVE  SyncInv'
<1> DEFINE q == rsp[Edgemap]
           latest == IF q = <<>> THEN view ELSE q[Len(q)].state
           asked == latest.needs_config /\ ~view.needs_config
<1>0. /\ Edgemap \in Clients /\ WireInv /\ WireTypeOK /\ EdgemapTypeOK
      /\ q \in Seq(Packet) /\ Len(q) \in Nat
  BY EdgemapAssumption, LenProperties DEF SyncInv, ServerInv, WireInv, WireTypeOK
<1>1. /\ pc = "top" /\ Connected /\ runtime' = FALSE
      /\ UNCHANGED <<server, pending, changed, touched, wanted, loadable, budget>>
  BY DEF Drain, world
<1>2. CASE Disconnect /\ pc' = "wait" /\ UNCHANGED <<tracker, due>>
  <2>1. ServerInv' /\ LoopInv'
    BY <1>1, <1>2, HangUpStep DEF Disconnect
  <2>2. EdgemapTypeOK'
    BY <1>0, <1>1, <1>2 DEF EdgemapTypeOK, Disconnect
  <2> QED
    BY <2>1, <2>2 DEF SyncInv
<1>3. CASE ~(conn[Edgemap] = "hup" \/ \E i \in 1 .. Len(q) : q[i].kind # "state")
  <2>1. /\ view' = latest
        /\ rsp' = [rsp EXCEPT ![Edgemap] = <<>>]
        /\ tracker' \in {tracker, ForceUnknown(tracker)}
        /\ due' = (due \/ asked)
        /\ pc' \in {"wait", "decide"}
        /\ UNCHANGED <<conn, req, stale>>
    BY <1>3 DEF Drain, After
  <2>2. latest \in ControlState /\ latest # NoView
    <3>1. CASE q = <<>>
      BY <1>0, <1>1, <3>1 DEF Connected, EdgemapTypeOK
    <3>2. CASE q # <<>>
      <4>1. Len(q) \in 1 .. Len(q)
        BY <1>0, <3>2, EmptySeq
      <4>2. q[Len(q)] \in Packet
        BY <1>0, <4>1, ElementOfSeq
      <4> QED
        BY <3>2, <4>2, EdgemapAssumption DEF Packet
    <3> QED
      BY <3>1, <3>2
  <2>3. conn[Edgemap] = "open"
    BY <1>1, <1>3 DEF SyncInv, LoopInv, LinkInv, Here
  <2>4. latest = state
    <3>1. CASE q = <<>>
      <4>1. \A i \in 1 .. Len(q) : FALSE
        BY <3>1
      <4> QED
        BY <1>1, <2>3, <3>1, <4>1 DEF SyncInv, LoopInv, ViewConverges
    <3>2. CASE q # <<>>
      <4>1. Len(q) \in 1 .. Len(q) /\ \A j \in Len(q) + 1 .. Len(q) : FALSE
        BY <1>0, <3>2, EmptySeq
      <4>2. StateAt(q, Len(q))
        BY <1>3, <4>1 DEF StateAt
      <4> QED
        BY <1>0, <2>3, <3>2, <4>1, <4>2 DEF WireInv, NewestQueuedStateIsCurrent
    <3> QED
      BY <3>1, <3>2
  <2>5. tracker' \in Tracker /\ (tracker'.force \/ tracker' = tracker)
    <3>1. /\ NoPending \in PendingApply \cup {NoPending}
          /\ tracker \in Tracker /\ wanted \in Configs
      BY <1>0 DEF EdgemapTypeOK
    <3>2. ForceUnknown(tracker) \in Tracker /\ ForceUnknown(tracker).force
      BY <3>1, TrackerOperations
    <3> QED
      BY <2>1, <3>1, <3>2
  <2>6. due' \in BOOLEAN
    <3>1. (due \/ asked) \in BOOLEAN
      OBVIOUS
    <3> QED
      BY <2>1, <3>1
  <2> HIDE DEF q, latest, asked
  <2>7. EdgemapTypeOK'
    BY <1>0, <1>1, <2>1, <2>2, <2>5, <2>6 DEF EdgemapTypeOK
  <2>8. rsp'[Edgemap] = <<>> /\ Len(rsp'[Edgemap]) = 0
    BY <1>0, <2>1 DEF WireTypeOK
  <2>9. WireInv'
    <3>1. WireTypeOK'
      BY <1>0, <2>1, BoundAssumption DEF WireTypeOK
    <3>2. NewestQueuedStateIsCurrent'
      BY <1>0, <1>1, <2>1
         DEF WireInv, WireTypeOK, NewestQueuedStateIsCurrent, server
    <3> QED
      BY <3>1, <3>2 DEF WireInv
  <2>10. ServerInv' /\ ManualInv' /\ Live' = Live /\ state' = state
         /\ ManualUnused' = ManualUnused
    BY <1>1, <2>1, <2>9, OwnStep
  <2>11. LinkInv' /\ HelloInv' /\ ViewConverges'
    BY <1>1, <2>1, <2>2, <2>3, <2>4, <2>8, <2>10
       DEF SyncInv, LoopInv, LinkInv, HelloInv, ViewConverges, NoKind, Connected, Here,
           Queue, Asked
  <2>12. ReplyInv'
    BY <1>1, <2>1, <2>3, <2>8
       DEF SyncInv, LoopInv, ReplyInv, NoAnswer, Here, Queue, Asked
  <2>13. BeliefInv'
    BY <1>1, <2>1, <2>3, <2>5, <2>10
       DEF SyncInv, LoopInv, BeliefInv, Undisturbed, Acked, Connected, Here
  <2> QED
    BY <2>7, <2>10, <2>11, <2>12, <2>13 DEF SyncInv, LoopInv
<1> QED
  BY <1>2, <1>3 DEF Drain

LEMMA ConnectInv ==
  ASSUME SyncInv, Connect
  PROVE  SyncInv'
<1>0. Edgemap \in Clients /\ WireTypeOK /\ EdgemapTypeOK
  BY EdgemapAssumption DEF SyncInv, ServerInv, WireInv
<1>1. /\ pc = "top" /\ ~Connected /\ runtime' = FALSE
      /\ UNCHANGED <<server, view, tracker, pending, due, changed, stale, touched, wanted,
                     loadable, budget>>
  BY DEF Connect, world
<1>2. CASE pc' = "wait" /\ UNCHANGED wire
  <2>1. {due', changed', runtime', touched'} \subseteq BOOLEAN
    BY <1>0, <1>1 DEF EdgemapTypeOK
  <2> QED
    BY <1>1, <1>2, <2>1, QuietInv
<1>3. CASE Dial(Edgemap) /\ pc' = "hello"
  <2>1. /\ conn'[Edgemap] = "backlog" /\ req' = req /\ rsp' = rsp
        /\ req[Edgemap] = <<>> /\ rsp[Edgemap] = <<>>
        /\ \A c \in Clients \ {Edgemap} : conn'[c] = conn[c]
    BY <1>0, <1>3 DEF Dial, WireTypeOK, SyncInv, LoopInv, LinkInv, Here, Queue, Asked
  <2>2. WireInv'
    BY <1>0, <1>1, <1>3, DialWire DEF SyncInv, ServerInv, server
  <2>3. ServerInv' /\ ManualInv'
    BY <1>1, <2>1, <2>2, OwnStep
  <2>4. EdgemapTypeOK'
    BY <1>0, <1>1, <1>3 DEF EdgemapTypeOK
  <2>5. ~Connected' /\ Greeting(<<>>)
    BY <1>1 DEF Connected, Greeting
  <2>6. (LinkInv /\ HelloInv /\ ReplyInv /\ ViewConverges /\ BeliefInv)'
    BY <1>3, <2>1, <2>5 DEF LinkInv, HelloInv, ReplyInv, ViewConverges, BeliefInv,
       Undisturbed, Here, Queue, Asked
  <2> QED
    BY <2>3, <2>4, <2>6 DEF SyncInv, LoopInv
<1> QED
  BY <1>2, <1>3 DEF Connect

LEMMA ConnectFailsInv ==
  ASSUME SyncInv, ConnectFails
  PROVE  SyncInv'
<1>1. /\ pc = "hello" /\ HangUp(Edgemap) /\ pc' = "wait"
      /\ UNCHANGED <<server, view, tracker, pending, due, changed, runtime, stale, touched,
                     wanted, loadable, budget>>
  BY DEF ConnectFails, activity, world
<1>2. view' = NoView
  BY <1>1 DEF SyncInv, LoopInv, LinkInv, Connected
<1>3. ServerInv' /\ LoopInv'
  BY <1>1, <1>2, HangUpStep
<1>4. EdgemapTypeOK'
  BY <1>1 DEF SyncInv, EdgemapTypeOK
<1> QED
  BY <1>3, <1>4 DEF SyncInv

\* The profile scan and the request it may lead to.
LEMMA DecideInv ==
  ASSUME SyncInv, Decide
  PROVE  SyncInv'
<1> DEFINE p == Pending(tracker, wanted, Base, loadable)
<1>0. /\ Edgemap \in Clients /\ WireTypeOK /\ EdgemapTypeOK
      /\ tracker \in Tracker /\ wanted \in Configs
  BY EdgemapAssumption DEF SyncInv, ServerInv, WireInv, EdgemapTypeOK
<1>1. /\ pc = "decide" /\ due' = FALSE
      /\ UNCHANGED <<server, view, changed, stale, touched, wanted, loadable, budget>>
  BY DEF Decide, world
<1>2. p \in PendingApply /\ p \in PendingApply \cup {NoPending} /\ p.target \in Configs
  <2>1. NewTracker \in Tracker /\ NoPending \in PendingApply \cup {NoPending}
    BY <1>0, TrackerOperations
  <2>2. p \in PendingApply
    BY <1>0, <2>1, TrackerOperations
  <2> QED
    BY <2>2, EdgemapAssumption DEF PendingApply
<1> HIDE DEF p
<1>3. CASE Settle
  <2>1. /\ tracker' = Prepared(tracker, wanted, Base, loadable) /\ pc' = "wait"
        /\ UNCHANGED <<pending, runtime, wire>>
    BY <1>3 DEF Settle
  <2>2. {due', changed', runtime', touched'} \subseteq BOOLEAN
    BY <1>0, <1>1, <2>1 DEF EdgemapTypeOK
  <2> QED
    BY <1>1, <1>2, <2>1, <2>2, QuietInv
<1>4. CASE SendFails
  <2>1. /\ tracker' = RecordRequestFailure(tracker, p) /\ pc' = "wait"
        /\ runtime' = TRUE /\ UNCHANGED <<pending, wire>>
    BY <1>4 DEF SendFails, p
  <2>2. {due', changed', runtime', touched'} \subseteq BOOLEAN
    BY <1>0, <1>1, <2>1 DEF EdgemapTypeOK
  <2> QED
    BY <1>1, <1>2, <2>1, <2>2, QuietInv
<1>5. CASE SendRequest
  <2>1. /\ conn[Edgemap] = "open" /\ pending' = p /\ Request(Edgemap, p.target)
        /\ pc' = "reply" /\ UNCHANGED <<tracker, runtime>>
    BY <1>5 DEF SendRequest, p
  <2>2. /\ conn' = conn /\ rsp' = rsp
        /\ req'[Edgemap] = Append(req[Edgemap], p.target)
    BY <1>0, <2>1 DEF Request, WireTypeOK
  <2>3. WireInv'
    BY <1>0, <1>1, <1>2, <2>1, RequestWire DEF SyncInv, ServerInv, server
  <2>4. /\ ServerInv' /\ ManualInv' /\ Live' = Live /\ state' = state
        /\ ManualUnused' = ManualUnused
    BY <1>1, <2>2, <2>3, OwnStep
  <2>5. EdgemapTypeOK'
    BY <1>0, <1>1, <1>2, <2>1 DEF EdgemapTypeOK
  <2>6. Connected /\ Connected' = Connected
    BY <1>1 DEF SyncInv, LoopInv, LinkInv, Connected
  <2>7. stale = 0 => /\ req'[Edgemap] = <<p.target>> /\ NoAnswer(rsp[Edgemap])
                     /\ ~HasOk(rsp[Edgemap])
    <3>1. stale = 0 => req[Edgemap] = <<>> /\ NoAnswer(rsp[Edgemap])
      BY <1>1, <2>1 DEF SyncInv, LoopInv, ReplyInv, Here, Queue, Asked
    <3>2. Append(<<>>, p.target) = <<p.target>>
      OBVIOUS
    <3>3. NoAnswer(rsp[Edgemap]) => ~HasOk(rsp[Edgemap])
      BY DEF NoAnswer, HasOk, Answer
    <3> QED
      BY <2>2, <3>1, <3>2, <3>3
  <2>8. LinkInv' /\ HelloInv' /\ ReplyInv' /\ ViewConverges'
    BY <1>1, <2>1, <2>2, <2>4, <2>6, <2>7
       DEF SyncInv, LoopInv, LinkInv, HelloInv, ReplyInv, ViewConverges, Here, Queue, Asked
  <2>9. BeliefInv'
    BY <1>1, <2>1, <2>2, <2>4, <2>6, <2>7
       DEF SyncInv, LoopInv, BeliefInv, Undisturbed, Acked, Here, Queue
  <2> QED
    BY <2>4, <2>5, <2>8, <2>9 DEF SyncInv, LoopInv
<1> QED
  BY <1>3, <1>4, <1>5 DEF Decide

\* A request given up: the connection is gone, or its reply may come later.
LEMMA GiveUpInv ==
  ASSUME SyncInv, ReceiveHangUp \/ ReceiveTimeout
  PROVE  SyncInv'
<1>0. /\ EdgemapTypeOK /\ tracker \in Tracker /\ wanted \in Configs /\ stale \in Nat
      /\ pending \in PendingApply \cup {NoPending}
      /\ budget \in [Events -> Nat] /\ CountersOK
  BY DEF SyncInv, ServerInv, EdgemapTypeOK
<1>1. /\ pc = "reply" /\ pc' = "wait" /\ pending' = NoPending /\ runtime' = TRUE
      /\ tracker' = RecordRequestFailure(tracker, pending)
      /\ UNCHANGED <<server, wire, view, due, changed, touched, wanted, loadable>>
      /\ stale' \in {stale, stale + 1}
      /\ stale' = stale => conn[Edgemap] = "hup"
  BY <1>0 DEF ReceiveHangUp, ReceiveTimeout, RequestFails, world
<1>2. /\ budget' \in [Events -> Nat] /\ budget'["manual"] = budget["manual"]
  <2>1. "timeout" \in Events \ {"any"} /\ "timeout" # "manual"
    BY DEF Events
  <2>2. CASE Spend("timeout")
    BY <1>0, <2>1, <2>2, SpendBudget
  <2>3. CASE UNCHANGED budget
    BY <1>0, <2>3
  <2> QED
    BY <2>2, <2>3 DEF ReceiveHangUp, ReceiveTimeout
<1>3. WireInv'
  BY <1>1, UnchangedWire DEF SyncInv, ServerInv, server
<1>4. ServerInv' /\ ManualInv'
  BY <1>1, <1>2, <1>3, OwnStep DEF wire
<1>5. tracker' \in Tracker
  BY <1>0, <1>1, TrackerOperations
<1>6. EdgemapTypeOK'
  BY <1>0, <1>1, <1>2, <1>5 DEF EdgemapTypeOK
<1>7. conn' = conn /\ req' = req /\ rsp' = rsp /\ state' = state /\ Connected' = Connected
  BY <1>1 DEF wire, server, Connected
<1>8. stale' # 0 \/ conn[Edgemap] = "hup"
  BY <1>0, <1>1
<1>9. Connected
  BY <1>1 DEF SyncInv, LoopInv, LinkInv
<1>10. (LinkInv /\ HelloInv /\ ReplyInv /\ ViewConverges /\ BeliefInv)'
  BY <1>1, <1>7, <1>8, <1>9
     DEF SyncInv, LoopInv, LinkInv, HelloInv, ReplyInv, ViewConverges, BeliefInv,
         Undisturbed, Here, Queue, Asked
<1> QED
  BY <1>4, <1>6, <1>10 DEF SyncInv, LoopInv

\* A restart of edgemap: dseuhid keeps its configuration, edgemap forgets.
LEMMA KillInv ==
  ASSUME SyncInv, Kill
  PROVE  SyncInv'
<1>0. /\ Edgemap \in Clients /\ EdgemapTypeOK /\ tracker \in Tracker /\ wanted \in Configs
      /\ budget \in [Events -> Nat] /\ CountersOK
  BY EdgemapAssumption DEF SyncInv, ServerInv, EdgemapTypeOK
<1>1. /\ pc' = "top" /\ view' = NoView /\ tracker' = NewTracker /\ pending' = NoPending
      /\ due' = TRUE /\ changed' = FALSE /\ runtime' = TRUE /\ stale' = 0
      /\ touched' = FALSE /\ UNCHANGED <<server, wanted, loadable>>
      /\ Spend("kill")
      /\ IF conn[Edgemap] = "closed" THEN UNCHANGED wire ELSE HangUp(Edgemap)
  BY DEF Kill
<1>2. budget' \in [Events -> Nat] /\ budget'["manual"] = budget["manual"]
  BY <1>0, <1>1, SpendBudget DEF Events
<1>3. NewTracker \in Tracker
  <2>1. NoPending \in PendingApply \cup {NoPending}
    OBVIOUS
  <2> QED
    BY <1>0, <2>1, TrackerOperations
<1>4. EdgemapTypeOK'
  BY <1>0, <1>1, <1>2, <1>3 DEF EdgemapTypeOK
<1>5. CASE HangUp(Edgemap)
  BY <1>1, <1>2, <1>4, <1>5, HangUpStep DEF SyncInv
<1>6. CASE conn[Edgemap] = "closed" /\ UNCHANGED wire
  <2>1. WireInv'
    BY <1>1, <1>6, UnchangedWire DEF SyncInv, ServerInv, server
  <2>2. ServerInv' /\ ManualInv'
    BY <1>1, <1>2, <1>6, <2>1, OwnStep DEF wire
  <2>3. /\ conn'[Edgemap] = "closed" /\ req'[Edgemap] = <<>> /\ rsp'[Edgemap] = <<>>
        /\ ~Connected'
    BY <1>1, <1>6 DEF SyncInv, LoopInv, LinkInv, Here, Queue, Asked, wire, Connected
  <2>4. (LinkInv /\ HelloInv /\ ReplyInv /\ ViewConverges /\ BeliefInv)'
    BY <1>1, <2>3 DEF LinkInv, HelloInv, ReplyInv, ViewConverges, BeliefInv, Undisturbed,
       Here, Queue, Asked
  <2> QED
    BY <1>4, <2>2, <2>4 DEF SyncInv, LoopInv
<1> QED
  BY <1>1, <1>5, <1>6

\* A run of edgemap switch-config is another client: it disturbs only what
\* is said of a system without one.
LEMMA ManualClientInv ==
  ASSUME SyncInv, NEW c \in Clients \ {Edgemap}, Manual(c)
  PROVE  SyncInv'
<1>0. /\ Edgemap \in Clients /\ WireInv /\ WireTypeOK /\ EdgemapTypeOK
      /\ budget \in [Events -> Nat] /\ CountersOK /\ ManualInv
  BY EdgemapAssumption DEF SyncInv, ServerInv, LoopInv, WireInv, EdgemapTypeOK
<1>1. /\ ManualDial(c) \/ ManualRequest(c) \/ ManualRead(c) \/ ManualExit(c)
      /\ UNCHANGED <<server, edgemap, world>>
  BY DEF Manual
<1>2. UNCHANGED <<state, pc, view, tracker, pending, due, changed, runtime, stale, touched,
                  wanted, loadable>>
  BY <1>1 DEF server, edgemap, activity, world
<1>3. WireInv'
  <2>1. CASE ManualDial(c)
    BY <1>0, <1>2, <2>1, DialWire DEF ManualDial
  <2>2. CASE ManualRequest(c)
    <3>1. PICK cfg \in Configs : req' = [req EXCEPT ![c] = Append(@, cfg)]
      BY <2>2 DEF ManualRequest
    <3>2. Append(req[c], cfg) \in Seq(Configs)
      BY <1>0, AppendProperties DEF WireTypeOK
    <3>3. req' \in [Clients -> Seq(Configs)]
      BY <1>0, <3>1, <3>2 DEF WireTypeOK
    <3> QED
      BY <1>0, <1>2, <2>2, <3>3, ReadWire DEF ManualRequest
  <2>3. CASE ManualRead(c)
    BY <1>0, <1>2, <2>3, ReadWire DEF ManualRead, Read, WireTypeOK
  <2>4. CASE ManualExit(c)
    BY <1>0, <1>2, <2>4, HangUpWire DEF ManualExit
  <2> QED
    BY <1>1, <2>1, <2>2, <2>3, <2>4
<1>4. /\ conn'[Edgemap] = conn[Edgemap] /\ req'[Edgemap] = req[Edgemap]
      /\ rsp'[Edgemap] = rsp[Edgemap]
  BY <1>0, <1>1 DEF ManualDial, ManualRequest, ManualRead, ManualExit, Dial, Read, HangUp,
     WireTypeOK
<1>5. /\ budget' \in [Events -> Nat] /\ budget'["manual"] \leq budget["manual"]
      /\ ManualDial(c) => budget'["manual"] < budget["manual"]
      /\ ~ManualDial(c) => budget' = budget
  <2>1. CASE ManualDial(c)
    <3>1. budget["manual"] \in Nat /\ "manual" \in Events \ {"any"}
      BY <1>0 DEF Events
    <3> QED
      BY <1>0, <2>1, <3>1, SpendBudget DEF ManualDial
  <2>2. CASE ~ManualDial(c) /\ budget' = budget
    <3>1. budget["manual"] \in Nat
      BY <1>0 DEF Events
    <3> QED
      BY <1>0, <2>2, <3>1
  <2> QED
    BY <1>1, <2>1, <2>2 DEF ManualRequest, ManualRead, ManualExit
<1>6. MaxManual \in Nat /\ budget["manual"] \in Nat /\ budget'["manual"] \in Nat
  BY <1>0, <1>5, EdgemapAssumption DEF Events
<1>7. budget'["manual"] \leq MaxManual /\ (ManualUnused' => ManualUnused /\ ~ManualDial(c))
  BY <1>0, <1>5, <1>6 DEF ManualInv, ManualUnused
<1>8. ManualUnused' => \A d \in Clients \ {Edgemap} : conn'[d] = "closed"
  <2>1. SUFFICES ASSUME ManualUnused', NEW d \in Clients \ {Edgemap}
                 PROVE  conn'[d] = "closed"
    OBVIOUS
  <2>2. conn[d] = "closed" /\ conn[c] = "closed" /\ ~ManualDial(c)
    BY <1>0, <1>7, <2>1 DEF ManualInv
  <2> QED
    BY <1>1, <2>2 DEF ManualRequest, ManualRead, ManualExit, Read, HangUp
<1>9. ControlInv' /\ CountersOK' /\ Live' = Live
  BY <1>0, <1>1, UnchangedCore DEF SyncInv, ServerInv, server, CountersOK, session, Live
<1>10. EdgemapTypeOK'
  BY <1>0, <1>2, <1>5 DEF EdgemapTypeOK
<1>11. (LinkInv /\ HelloInv /\ ReplyInv /\ ViewConverges)'
  BY <1>2, <1>4 DEF SyncInv, LoopInv, LinkInv, HelloInv, ReplyInv, ViewConverges, Connected,
     Here, Queue, Asked
<1>12. BeliefInv'
  BY <1>2, <1>4, <1>7, <1>9 DEF SyncInv, LoopInv, BeliefInv, Undisturbed, Acked, Connected,
     Here, Queue
<1>13. ManualInv'
  BY <1>7, <1>8 DEF ManualInv
<1> QED
  BY <1>3, <1>9, <1>10, <1>11, <1>12, <1>13 DEF SyncInv, ServerInv, LoopInv

\* The user and the games: nothing but what edgemap will find.
LEMMA WorldInv ==
  ASSUME SyncInv, ProfileChanges \/ EdgemapTomlWritten \/ ConfigFileEdited
  PROVE  SyncInv'
<1>0. /\ EdgemapTypeOK /\ budget \in [Events -> Nat] /\ CountersOK
  BY DEF SyncInv, ServerInv, EdgemapTypeOK
<1>1. /\ UNCHANGED <<vars, edgemap>>
      /\ wanted' \in Configs /\ loadable' \subseteq Configs /\ touched' \in BOOLEAN
  BY <1>0 DEF ProfileChanges, EdgemapTomlWritten, ConfigFileEdited, EdgemapTypeOK
<1>2. budget' \in [Events -> Nat] /\ budget'["manual"] = budget["manual"]
  BY <1>0, SpendBudget DEF ProfileChanges, EdgemapTomlWritten, ConfigFileEdited, Events
<1>3. /\ UNCHANGED <<server, conn, req, rsp, state>>
      /\ UNCHANGED <<pc, view, tracker, pending, due, changed, runtime, stale>>
  BY <1>1 DEF vars, wire, server, session, edgemap, activity
<1>4. WireInv'
  BY <1>3, UnchangedWire DEF SyncInv, ServerInv, wire
<1>5. ServerInv' /\ ManualInv' /\ Live' = Live /\ ManualUnused' = ManualUnused
  BY <1>2, <1>3, <1>4, OwnStep
<1>6. EdgemapTypeOK'
  BY <1>0, <1>1, <1>2, <1>3 DEF EdgemapTypeOK
<1>7. (LinkInv /\ HelloInv /\ ReplyInv /\ ViewConverges /\ BeliefInv)'
  BY <1>3, <1>5 DEF SyncInv, LoopInv, LinkInv, HelloInv, ReplyInv, ViewConverges, BeliefInv,
     Undisturbed, Acked, Connected, Here, Queue, Asked
<1> QED
  BY <1>5, <1>6, <1>7 DEF SyncInv, LoopInv

----------------------------------------------------------------------------
(* The invariant, and what follows from it.                                 *)

LEMMA SyncInvInit ==
  SyncInit => SyncInv
<1> SUFFICES ASSUME SyncInit PROVE SyncInv
  OBVIOUS
<1>1. ServerInv
  BY ControlInvInit, WireInvInit, BoundAssumption DEF SyncInit, Init, ServerInv, CountersOK
<1>2. EdgemapTypeOK
  <2>1. NewTracker \in Tracker
    BY EdgemapAssumption DEF NewTracker, Tracker, MaybePath
  <2>2. budget \in [Events -> Nat]
    BY EdgemapAssumption DEF SyncInit, Events
  <2> QED
    BY <2>1, <2>2 DEF SyncInit, EdgemapTypeOK
<1>3. /\ ~Connected /\ pc = "top" /\ conn[Edgemap] = "closed"
      /\ req[Edgemap] = <<>> /\ rsp[Edgemap] = <<>>
  BY EdgemapAssumption DEF SyncInit, Init, Connected
<1>4. ManualInv
  <2>1. budget["manual"] = MaxManual
    BY DEF SyncInit, Events
  <2>2. MaxManual \in Nat
    BY EdgemapAssumption
  <2>3. \A c \in Clients \ {Edgemap} : conn[c] = "closed"
    BY DEF SyncInit, Init
  <2> QED
    BY <2>1, <2>2, <2>3 DEF ManualInv
<1>5. LinkInv /\ HelloInv /\ ReplyInv /\ ViewConverges /\ BeliefInv
  <2>1. NoAnswer(<<>>)
    BY DEF NoAnswer
  <2> QED
    BY <1>3, <2>1 DEF LinkInv, HelloInv, ReplyInv, ViewConverges, BeliefInv, Undisturbed,
       Here, Queue, Asked
<1> QED
  BY <1>1, <1>2, <1>4, <1>5 DEF SyncInv, LoopInv

LEMMA SyncInvStep ==
  SyncInv /\ [SyncNext]_syncVars => SyncInv'
<1> SUFFICES ASSUME SyncInv, [SyncNext]_syncVars
             PROVE  SyncInv'
  OBVIOUS
<1>1. CASE (DaemonStep \/ Environment) /\ UNCHANGED <<edgemap, world, budget>>
  BY <1>1, ServerStepInv
<1>2. CASE EdgemapStep
  BY <1>2, WakeInv, ReloadInv, DrainInv, ConnectInv, GreetedInv, ConnectFailsInv,
     NothingChangedInv, DecideInv, ReceiveStateInv, ReceiveReplyInv, GiveUpInv
     DEF EdgemapStep
<1>3. ASSUME NEW c \in Clients \ {Edgemap}, Manual(c)
      PROVE  SyncInv'
  BY <1>3, ManualClientInv
<1>4. CASE Kill
  BY <1>4, KillInv
<1>5. CASE ProfileChanges \/ EdgemapTomlWritten \/ ConfigFileEdited
  BY <1>5, WorldInv
<1>6. CASE UNCHANGED syncVars
  <2>1. /\ UNCHANGED <<server, wire, state, conn, req, rsp, budget>>
        /\ UNCHANGED <<pc, view, tracker, pending, due, changed, runtime, stale, touched,
                       wanted, loadable>>
    BY <1>6 DEF syncVars, vars, wire, server, session, edgemap, activity, world
  <2>2. WireInv'
    BY <2>1, UnchangedWire DEF SyncInv, ServerInv
  <2>3. ServerInv' /\ ManualInv' /\ Live' = Live /\ ManualUnused' = ManualUnused
    BY <2>1, <2>2, OwnStep
  <2>4. EdgemapTypeOK'
    BY <2>1 DEF SyncInv, EdgemapTypeOK
  <2>5. (LinkInv /\ HelloInv /\ ReplyInv /\ ViewConverges /\ BeliefInv)'
    BY <2>1, <2>3 DEF SyncInv, LoopInv, LinkInv, HelloInv, ReplyInv, ViewConverges,
       BeliefInv, Undisturbed, Acked, Connected, Here, Queue, Asked
  <2> QED
    BY <2>3, <2>4, <2>5 DEF SyncInv, LoopInv
<1> QED
  BY <1>1, <1>2, <1>3, <1>4, <1>5, <1>6 DEF SyncNext

\* The invariant the theorems below rest on.
THEOREM SyncInvariant == SyncSpec => []SyncInv
BY SyncInvInit, SyncInvStep, PTL DEF SyncSpec

\* Every variable of edgemap and dseuhid keeps its type.
THEOREM SyncTypeCorrect == SyncSpec => []SyncTypeOK
<1>1. SyncInv => SyncTypeOK
  BY DEF SyncInv, ServerInv, ControlInv, CoreTypeOK, WireInv, WireTypeOK, CountersOK,
     TypeOK, Maybe, EdgemapTypeOK, SyncTypeOK
<1> QED
  BY <1>1, SyncInvariant, PTL

\* What edgemap believes dseuhid runs is what it runs, over any number of
\* reconnects, restarts, profile changes and failed requests
\* (ConfigApplyTracker in daemon/mod.rs).
THEOREM BeliefCorrect == SyncSpec => []BeliefIsTrue
<1>1. SyncInv => BeliefIsTrue
  BY DEF SyncInv, LoopInv, BeliefInv, Undisturbed, ManualUnused, Acked, Here, BeliefIsTrue
<1> QED
  BY <1>1, SyncInvariant, PTL

\* edgemap's control_state is dseuhid's as soon as no state is queued
\* (drain_control_state).
THEOREM ViewCorrect == SyncSpec => []ViewConverges
<1>1. SyncInv => ViewConverges
  BY DEF SyncInv, LoopInv
<1> QED
  BY <1>1, SyncInvariant, PTL

\* Without a request given up on the connection, the acknowledgement edgemap
\* takes is the one of the request it waits for
\* (send_daemon_control_request).
THEOREM AckCorrect == SyncSpec => AckIsForPending
<1>1. SyncInv /\ [SyncNext]_syncVars =>
        [ReceiveOk /\ stale = 0 => Reply.config = pending.target]_syncVars
  <2> SUFFICES ASSUME SyncInv, ReceiveOk, stale = 0
               PROVE  Reply.config = pending.target
    OBVIOUS
  <2> DEFINE q == rsp[Edgemap]
  <2>1. /\ pc = "reply" /\ q # <<>> /\ Head(q).kind = "ok" /\ Head(q).kind \in Answer
    BY DEF ReceiveOk, Awaiting, Reply, Answer
  <2>2. q \in Seq(Packet)
    BY EdgemapAssumption DEF SyncInv, ServerInv, WireInv, WireTypeOK
  <2>3. NoAnswer(q) \/ OneAnswer(q, pending.target)
    BY <2>1 DEF SyncInv, LoopInv, ReplyInv, Queue
  <2>4. ~NoAnswer(q)
    <3>1. 1 \in 1 .. Len(q) /\ Head(q) = q[1]
      BY <2>1, <2>2, LenProperties, EmptySeq
    <3> QED
      BY <2>1, <3>1 DEF NoAnswer
  <2> QED
    BY <2>1, <2>2, <2>3, <2>4, TailQueue DEF Reply
<1> QED
  BY <1>1, SyncInvariant, PTL DEF SyncSpec, AckIsForPending

\* edgemap drops a connection dseuhid still holds only after it gave up a
\* request on it: while draining it never meets a packet it does not expect.
THEOREM ConnectionKept == SyncSpec => HealthyConnectionIsKept
<1>1. SyncInv /\ SyncInv' /\ [SyncNext]_syncVars
        => [Drain /\ conn[Edgemap] = "open" /\ stale = 0 => Connected']_syncVars
  <2> SUFFICES ASSUME SyncInv, SyncInv', Drain, conn[Edgemap] = "open", stale = 0
               PROVE  Connected'
    OBVIOUS
  <2> DEFINE q == rsp[Edgemap]
  <2>1. pc = "top" /\ Connected
    BY DEF Drain
  <2>2. NoAnswer(q) /\ NoKind(q, "hello")
    BY <2>1 DEF SyncInv, LoopInv, ReplyInv, HelloInv, Here, Queue
  <2>3. q \in Seq(Packet)
    BY EdgemapAssumption DEF SyncInv, ServerInv, WireInv, WireTypeOK
  <2>4. ASSUME NEW i \in 1 .. Len(q)
        PROVE  q[i].kind = "state"
    <3>1. q[i] \in Packet
      BY <2>3, <2>4, ElementOfSeq
    <3> QED
      BY <2>2, <2>4, <3>1 DEF Packet, NoAnswer, NoKind, Answer
  <2>5. conn'[Edgemap] = conn[Edgemap]
    BY <2>4 DEF Drain
  <2> QED
    BY <2>5 DEF SyncInv, LoopInv, LinkInv, Connected, Here, Drain, After
<1> QED
  BY <1>1, SyncInvariant, PTL DEF SyncSpec, HealthyConnectionIsKept

----------------------------------------------------------------------------
(* dseuhid with its real clients.                                           *)

\* What edgemap, switch-config, files and profiles do is not dseuhid's.
LEMMA OthersLeaveServer ==
  ASSUME \/ EdgemapStep \/ Kill \/ UNCHANGED syncVars
         \/ \E c \in Clients \ {Edgemap} : Manual(c)
         \/ ProfileChanges \/ EdgemapTomlWritten \/ ConfigFileEdited
  PROVE  UNCHANGED server
<1>1. CASE Kill \/ \E c \in Clients \ {Edgemap} : Manual(c)
  BY <1>1 DEF Kill, Manual
<1>2. CASE UNCHANGED syncVars
  BY <1>2 DEF syncVars, vars, server, session
<1>3. CASE ProfileChanges \/ EdgemapTomlWritten \/ ConfigFileEdited
  BY <1>3 DEF ProfileChanges, EdgemapTomlWritten, ConfigFileEdited, vars, server, session
<1>4. CASE \/ \E scan \in BOOLEAN : Wake(scan)
           \/ Reload \/ NothingChanged
  BY <1>4 DEF Wake, Reload, NothingChanged, vars, server, session
<1>5. CASE Drain \/ Connect \/ Greeted \/ ConnectFails \/ Decide
  BY <1>5 DEF Drain, Connect, Greeted, ConnectFails, Decide
<1>6. CASE ReceiveState \/ ReceiveOk \/ ReceiveError \/ ReceiveHangUp \/ ReceiveTimeout
  BY <1>6 DEF ReceiveState, ReceiveOk, ReceiveError, ReceiveHangUp, ReceiveTimeout,
     RequestFails
<1> QED
  BY <1>1, <1>2, <1>3, <1>4, <1>5, <1>6 DEF EdgemapStep

\* dseuhid implements the configuration service for these clients too: requests
\* given up, connections dropped with a request on its way and an edgemap that is
\* restarted change the configuration in force only by requests it accepts.
THEOREM SyncImplementsService == SyncSpec => ServiceSpec
<1>1. SyncInit => Service!Init
  BY DEF SyncInit, Init, Fresh, Service!Init, Live
<1>2. SyncInv /\ SyncInv' /\ [SyncNext]_syncVars => [Service!Next]_(Service!svars)
  <2> SUFFICES ASSUME SyncInv, SyncInv', [SyncNext]_syncVars
               PROVE  [Service!Next]_(Service!svars)
    OBVIOUS
  <2>1. ControlInv /\ ControlInv'
    BY DEF SyncInv, ServerInv
  <2>2. CASE DaemonStep \/ Environment
    <3>1. [Next]_vars
      BY <2>2 DEF Next
    <3> QED
      BY <2>1, <3>1, ServiceStep
  <2>3. CASE UNCHANGED server
    BY <2>3 DEF server, session, Live, Service!svars
  <2> QED
    BY <2>2, <2>3, OthersLeaveServer DEF SyncNext
<1> QED
  BY <1>1, <1>2, SyncInvariant, PTL DEF SyncSpec, ServiceSpec, Service!Spec

\* And what it publishes to them is true: the flags of the state, and the newest
\* state that waits in each client's queue.
THEOREM SyncPublishesTruth ==
  SyncSpec => [](/\ NeedsConfigIffPassthrough /\ ReadyUhidMatchesConfig
                 /\ LiveIsAcceptable /\ NewestQueuedStateIsCurrent)
<1>1. SyncInv => /\ NeedsConfigIffPassthrough /\ ReadyUhidMatchesConfig
                 /\ LiveIsAcceptable /\ NewestQueuedStateIsCurrent
  BY DEF SyncInv, ServerInv, ControlInv, WireInv
<1> QED
  BY <1>1, SyncInvariant, PTL
=============================================================================
