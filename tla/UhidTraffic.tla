----------------------------- MODULE UhidTraffic -----------------------------
(***************************************************************************)
(* Everything but input between the virtual device and the controller      *)
(* (uhid.rs, proxy/uhid_events.rs, proxy/output.rs, the feature reports    *)
(* session.rs caches): output reports, feature reports asked for and set,  *)
(* and the Bluetooth blocks of the audio stream, any of which may find the *)
(* controller gone.  The sequence number of Bluetooth reports is left out. *)
(*                                                                         *)
(* The kernel asks for one feature report at a time and gives up when no   *)
(* reply comes; a reply is matched by the number of the request.  External *)
(* are the events it queues and the fate of what is written.               *)
(***************************************************************************)
EXTENDS ReportCodecs, FiniteSets

CONSTANTS
  ReportIds,     \* feature reports the host may ask for
  OutputReports, \* output reports the host may send
  MaxUhidEvents, \* bound: events in the queue of the virtual device
  MaxRequests    \* bound: feature reports asked for

\* The device is created with its first event in the queue.
ASSUME UhidAssumption == MaxUhidEvents \in Nat \ {0} /\ MaxRequests \in Nat

VARIABLES
  link,      \* [source, target] of the session, or NoLink
  cache,     \* FeatureReportCache: where the data of a report id is from
  events,    \* events of the virtual device the proxy has not read
  ask,       \* the kernel's request that waits for a reply, or NoAsk
  asks,      \* the number of that request
  answer,    \* the reply to it the requester got, or NoAnswer
  attached,  \* whether the controller is there
  handling,  \* whether the proxy is in handle_uhid_event
  over       \* how the session ended, or "no"

uhidVars == <<link, cache, events, ask, asks, answer, attached, handling, over>>
requestVars == <<ask, asks, answer>>

Nowhere == <<>>
Kinds == {"get", "set"}
Origins == {"controller", "seed", "fallback", "none"}

UhidTypeOK ==
  /\ link = Nowhere \/ link \in [source : Sources, target : Targets]
  /\ DOMAIN cache \subseteq ReportIds /\ \A r \in DOMAIN cache : cache[r] \in Origins
  /\ Len(events) \leq MaxUhidEvents
  /\ ask = Nowhere \/ ask \in [kind : Kinds, id : 1 .. MaxRequests, rnum : ReportIds]
  /\ asks \in 0 .. MaxRequests
  /\ answer = Nowhere \/ answer \in [err : 0 .. 1, origin : Origins]
  /\ attached \in BOOLEAN /\ handling \in BOOLEAN
  /\ over \in {"no", "gone", "fatal"}

UhidInit ==
  /\ link = Nowhere /\ cache = [r \in {} |-> "none"] /\ events = <<>>
  /\ ask = Nowhere /\ asks = 0 /\ answer = Nowhere
  /\ attached = TRUE /\ handling = FALSE /\ over = "no"

Running == link # Nowhere /\ over = "no"

----------------------------------------------------------------------------
(* The session starts: what the controller tells of itself is cached if it *)
(* can be read and is right, then the target's own reports, and the        *)
(* virtual device is created.                                              *)

CreateDevice(source, target) ==
  /\ link = Nowhere
  /\ \E good \in SUBSET (FeatureReportsToCache(target) \cap ReportIds) :
       LET seeds == SeedFeatureReports(target) \cap ReportIds
       IN cache' = [r \in good \cup seeds |-> IF r \in seeds THEN "seed" ELSE "controller"]
  /\ link' = [source |-> source, target |-> target]
  /\ events' = <<[type |-> "start"]>>
  /\ UNCHANGED <<requestVars, attached, handling, over>>

----------------------------------------------------------------------------
(* The kernel and its clients.                                             *)

Queue(event) == Len(events) < MaxUhidEvents /\ events' = Append(events, event)

\* The host opens and closes the device, sends output reports, or unbinds
\* the driver.
HostEvents ==
  [type : {"open", "close", "unknown", "stop"}]
  \cup [type : {"output"}, rtype : 0 .. 1, report : OutputReports]
HostSends(event) ==
  /\ Running /\ Queue(event)
  /\ UNCHANGED <<link, cache, requestVars, attached, handling, over>>

Request(kind, rnum) ==
  /\ Running /\ ask = Nowhere /\ asks < MaxRequests
  /\ asks' = asks + 1
  /\ ask' = [kind |-> kind, id |-> asks', rnum |-> rnum]
  /\ answer' = Nowhere
  /\ \E rtype \in 0 .. 1 :
       Queue([type |-> kind, id |-> asks', rnum |-> rnum, rtype |-> rtype])
  /\ UNCHANGED <<link, cache, attached, handling, over>>

GiveUp ==
  /\ ask # Nowhere /\ ask' = Nowhere /\ answer' = Nowhere
  /\ UNCHANGED <<link, cache, events, asks, attached, handling, over>>

\* A reply to the request that waits; any other is dropped.  A reply that
\* cannot be written changes nothing; uhid takes every reply while the device
\* exists.
Reply(kind, id, err, origin) ==
  IF ask # Nowhere /\ ask.kind = kind /\ ask.id = id
  THEN ask' = Nowhere /\ answer' = [err |-> err, origin |-> origin] /\ UNCHANGED asks
  ELSE UNCHANGED requestVars

Unplug ==
  /\ Running /\ attached /\ attached' = FALSE
  /\ UNCHANGED <<link, cache, events, requestVars, handling, over>>

----------------------------------------------------------------------------
(* Writing to the controller.  A write fails when it is gone, and may fail *)
(* for another reason.                                                     *)

Outcomes == IF attached THEN {"written", "refused"} ELSE {"gone"}

End(reason) ==
  /\ over' = reason /\ handling' = FALSE /\ events' = <<>> /\ ask' = Nowhere
  /\ UNCHANGED <<asks, answer>>

\* A block of live audio between two wake-ups: only over Bluetooth, and only
\* for a virtual DualSense.
PlayBlock ==
  /\ Running /\ ~handling /\ link.source = "bt" /\ link.target # "ds4"
  /\ \E outcome \in Outcomes :
       IF outcome = "gone" THEN End("gone")
       ELSE UNCHANGED <<over, handling, events, requestVars>>
  /\ UNCHANGED <<link, cache, attached>>

----------------------------------------------------------------------------
(* handle_uhid_event: one event after the other until there is none.       *)

WakeUp ==
  /\ Running /\ ~handling /\ events # <<>>
  /\ handling' = TRUE
  /\ UNCHANGED <<link, cache, events, requestVars, attached, over>>
Drained ==
  /\ handling /\ events = <<>> /\ handling' = FALSE
  /\ UNCHANGED <<link, cache, events, requestVars, attached, over>>

Reads(types) == handling /\ events # <<>> /\ Head(events).type \in types
Consume == events' = Tail(events) /\ UNCHANGED <<over, handling>>

Notice ==
  /\ Reads({"start", "open", "close", "unknown"}) /\ Consume
  /\ UNCHANGED <<link, cache, requestVars, attached>>

\* The driver is unbound: the session cannot go on.
StoppedByKernel ==
  Reads({"stop"}) /\ End("fatal") /\ UNCHANGED <<link, cache, attached>>

\* An event that is too short, and the end of the device file.
Garbled ==
  handling /\ End("fatal") /\ UNCHANGED <<link, cache, attached>>

\* An output report of another type, or that cannot be encoded, is dropped.
DropOutput ==
  LET event == Head(events) IN
  /\ Reads({"output"})
  /\ \/ event.rtype # 1
     \/ ~Encodes(link.source, DecodeOutput(link.target, event.report))
  /\ Consume /\ UNCHANGED <<link, cache, requestVars, attached>>

ForwardOutput ==
  LET event == Head(events) IN
  /\ Reads({"output"}) /\ event.rtype = 1
  /\ Encodes(link.source, DecodeOutput(link.target, event.report))
  /\ \E outcome \in Outcomes :
       IF outcome = "gone" THEN End("gone") ELSE Consume /\ UNCHANGED requestVars
  /\ UNCHANGED <<link, cache, attached>>

\* get_cached_report: the cache, then what the target answers itself.
CachedReport(rnum) ==
  IF rnum \in DOMAIN cache THEN cache[rnum]
  ELSE IF rnum \in FallbackFeatureReports(link.target) THEN "fallback" ELSE "none"

GetReport ==
  LET event == Head(events)
      origin == CachedReport(event.rnum)
  IN /\ Reads({"get"}) /\ Consume
     /\ Reply("get", event.id, IF origin = "none" THEN 1 ELSE 0, origin)
     /\ UNCHANGED <<link, cache, attached>>

\* Mutant: what the controller cannot be told is not answered.
DropSetReportSilently ==
  LET event == Head(events) IN
  /\ Reads({"set"})
  /\ event.rtype # 0 \/ ~EncodesSetReport(link.source, link.target)
  /\ Consume /\ UNCHANGED requestVars
  /\ UNCHANGED <<link, cache, attached>>

\* Accepted and dropped: not a feature report, or the controller cannot be
\* told.
DropSetReport ==
  LET event == Head(events) IN
  /\ Reads({"set"})
  /\ event.rtype # 0 \/ ~EncodesSetReport(link.source, link.target)
  /\ Consume
  /\ Reply("set", event.id, 0, "none")
  /\ UNCHANGED <<link, cache, attached>>

\* Forwarded; a controller that is gone ends the session after the reply.
ForwardSetReport ==
  LET event == Head(events) IN
  /\ Reads({"set"}) /\ event.rtype = 0 /\ EncodesSetReport(link.source, link.target)
  /\ \E outcome \in Outcomes :
       /\ Reply("set", event.id, IF outcome = "written" THEN 0 ELSE 1, "none")
       /\ IF outcome = "gone"
          THEN over' = "gone" /\ handling' = FALSE /\ events' = <<>>
          ELSE Consume
  /\ UNCHANGED <<link, cache, attached>>

UhidNext ==
  \/ \E s \in Sources, t \in Targets : CreateDevice(s, t)
  \/ \E e \in HostEvents : HostSends(e)
  \/ \E k \in Kinds, r \in ReportIds : Request(k, r)
  \/ GiveUp \/ Unplug \/ PlayBlock
  \/ WakeUp \/ Drained
  \/ Notice \/ StoppedByKernel \/ Garbled
  \/ DropOutput \/ ForwardOutput
  \/ GetReport \/ DropSetReport \/ ForwardSetReport

UhidSpec == UhidInit /\ [][UhidNext]_uhidVars

----------------------------------------------------------------------------
(* Properties.                                                             *)

\* What the host may rely on: a requester that waits finds its request still in
\* the queue.  Every feature report asked for or set is replied to in the step
\* that takes it, also when there is no data for it, it is dropped on purpose,
\* or the controller vanishes meanwhile; a request given up does not cost its
\* successor the reply.
HostIsServed ==
  Running /\ ask # Nowhere =>
    \E i \in DOMAIN events : events[i].type = ask.kind /\ events[i].id = ask.id
=============================================================================
