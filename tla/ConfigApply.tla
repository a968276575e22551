----------------------------- MODULE ConfigApply -----------------------------
(***************************************************************************)
(* ConfigApplyTracker of the edgemap daemon (daemon/mod.rs): what it        *)
(* believes dseuhid runs, which selection last failed, and whether that     *)
(* belief must be thrown away.  Paths stand for configuration files;        *)
(* NoPath for None.  Failure messages are left out: a failure is the        *)
(* selection it was recorded for.                                           *)
(***************************************************************************)
CONSTANTS Paths, NoPath

MaybePath == Paths \cup {NoPath}
Tracker == [selected : MaybePath, effective : MaybePath,
            failure : MaybePath, force : BOOLEAN]
PendingApply == [selected : Paths, target : Paths, fallback : BOOLEAN]

NewTracker == [selected |-> NoPath, effective |-> NoPath,
               failure |-> NoPath, force |-> FALSE]

ForceUnknown(t) == [t EXCEPT !.effective = NoPath, !.force = TRUE]

SetFailure(t, sel) == [t EXCEPT !.failure = sel]
ClearFailure(t) == [t EXCEPT !.failure = NoPath]

Believed(t, path) == ~t.force /\ t.effective = path

(* prepare(): the four ways a selection is decided.  A selection that        *)
(* failed before is loaded again even when it is believed to be effective.  *)
\* Mutant: any acknowledged configuration will do.
NoChangeOnceApplied(t, sel, loadable) ==
  ~t.force /\ t.effective # NoPath

NoChange(t, sel, loadable) ==
  Believed(t, sel) /\ (t.failure # sel \/ sel \in loadable)

RequestsSelected(t, sel, loadable) ==
  /\ sel \in loadable
  /\ ~NoChange(t, sel, loadable)

Retains(t, sel, base, loadable) ==
  /\ sel \notin loadable
  /\ ~NoChange(t, sel, loadable)
  /\ sel = base \/ Believed(t, base) \/ base \notin loadable

RequestsBase(t, sel, base, loadable) ==
  /\ sel \notin loadable
  /\ ~NoChange(t, sel, loadable)
  /\ ~Retains(t, sel, base, loadable)

\* Mutant: the fallback has no file of its own.
PendingWithoutBase(t, sel, base, loadable) ==
  [selected |-> sel,
   target |-> IF sel \in loadable THEN sel ELSE NoPath,
   fallback |-> sel \notin loadable]

Pending(t, sel, base, loadable) ==
  [selected |-> sel,
   target |-> IF sel \in loadable THEN sel ELSE base,
   fallback |-> sel \notin loadable]

Prepared(t, sel, base, loadable) ==
  IF NoChange(t, sel, loadable) THEN ClearFailure(t)
  ELSE IF Retains(t, sel, base, loadable) THEN SetFailure(t, sel)
  ELSE t

\* Mutants: the fallback is recorded as the selection; force survives.
AcknowledgeSelection(t, p) ==
  [selected |-> p.selected, effective |-> p.selected, force |-> FALSE,
   failure |-> IF p.fallback THEN p.selected ELSE NoPath]
AcknowledgeStillUnknown(t, p) ==
  [selected |-> p.selected, effective |-> p.target, force |-> t.force,
   failure |-> IF p.fallback THEN p.selected ELSE NoPath]

(* acknowledge() and record_request_failure().                               *)
Acknowledge(t, p) ==
  [selected |-> p.selected, effective |-> p.target, force |-> FALSE,
   failure |-> IF p.fallback THEN p.selected ELSE NoPath]

RecordRequestFailure(t, p) == SetFailure(t, p.selected)
=============================================================================
