------------------------ MODULE StreamSession_proofs ------------------------
(***************************************************************************)
(* What holds of StreamSession for every queue capacity, every bound and   *)
(* every set of failures: its type invariant, that the host stream is      *)
(* closed exactly once, that a forced close owns its reason; then what it  *)
(* promises the host and the client: it implements DownstreamStream, its   *)
(* summary says what the client got, a session that ended is quiet, and a  *)
(* stopped plugin completes nothing.                                       *)
(***************************************************************************)
EXTENDS StreamSession, TLAPS

\* Once the round trip is closing it has an outcome to report: either an
\* error, or the outcome finishGenerated chose (stream_session.go:352-447).
EndingInv ==
    /\ pc["rt"] \in {"fail", "failing"} => failure # NoErr
    /\ pc["rt"] \in {"closing", "hook", "logging", "close", "hostClose", "return",
                     "summary", "done"}
           => failure # NoErr \/ endOutcome # ""

TypeInv == TypeOK /\ EndingInv

----------------------------------------------------------------------------
(* Constant lemmas.                                                        *)

\* The errors the session itself raises are errors, none of them the absence
\* of one.
LEMMA OwnErrors ==
    /\ NoErr \in Errors /\ Stopped \in Errors
    /\ TimedOut \in Errors /\ Disconnected \in Errors
    /\ Stopped # NoErr /\ TimedOut # NoErr /\ Disconnected # NoErr
    /\ Stopped # TimedOut /\ NoErr.kind = "none"
<1>1. NoErr \in Errors /\ Stopped \in Errors /\ TimedOut \in Errors
      /\ Disconnected \in Errors
  BY DEF Errors, ErrorKinds, NoErr, Stopped, TimedOut, Disconnected
<1>2. NoErr.kind = "none" /\ Stopped.kind = "plugin_stopped"
      /\ TimedOut.kind = "upstream_timeout" /\ Disconnected.kind = "client_disconnected"
  BY DEF NoErr, Stopped, TimedOut, Disconnected
<1>3. QED
  BY <1>1, <1>2

\* Whatever error a request ends with is recorded as one of the exits.
LEMMA ExitsAreExits ==
    \A e : ExitForError(e) \in Exits
BY DEF ExitForError, Exits

\* A rendered payload is a batch.
LEMMA RenderedIsBatch ==
    ASSUME NEW k \in Kinds, NEW o \in BOOLEAN, NEW id \in Ids, sequence \in Nat
    PROVE  Render(k, o, id) \in Batches
BY DEF Render, Batches

\* Calling emitLocked with a rendered payload, and coming back from it.
LEMMA EmitTypes ==
    /\ \A k \in Kinds, o \in BOOLEAN, id \in Ids :
          FieldsOK /\ CallEmit(Render(k, o, id)) => EmissionOK'
    /\ EmitReturned => EmissionOK'
<1>1. ASSUME NEW k \in Kinds, NEW o \in BOOLEAN, NEW id \in Ids,
             FieldsOK, CallEmit(Render(k, o, id))
      PROVE  EmissionOK'
  <2>1. Render(k, o, id) \in Batches
    BY <1>1, RenderedIsBatch DEF FieldsOK
  <2>2. QED
    BY <1>1, <2>1 DEF CallEmit, EmissionOK
<1>2. NoBatch \in Batches
  BY DEF NoBatch, Batches, Kinds, Ids
<1>3. EmitReturned => EmissionOK'
  BY <1>2 DEF EmitReturned, EmissionOK
<1>4. QED
  BY <1>1, <1>3

\* openLocked keeps the fields and the payload typed.
LEMMA OpenTypes ==
    \A id \in Ids : FieldsOK /\ OpenWith(id) => FieldsOK' /\ EmissionOK'
<1> SUFFICES ASSUME NEW id \in Ids, FieldsOK, OpenWith(id)
             PROVE  FieldsOK' /\ EmissionOK'
  OBVIOUS
<1>1. FieldsOK'
  BY DEF OpenWith, FieldsOK
<1>2. EmissionOK'
  BY EmitTypes DEF OpenWith, Kinds
<1>3. QED
  BY <1>1, <1>2

\* What an action leaves alone keeps its type.
LEMMA Frame ==
    /\ ControlOK /\ UNCHANGED <<mu, pc>> => ControlOK'
    /\ FieldsOK /\ UNCHANGED fields => FieldsOK'
    /\ EndingsOK /\ UNCHANGED endings => EndingsOK'
    /\ ForcingOK /\ UNCHANGED forcing => ForcingOK'
    /\ EmissionOK /\ UNCHANGED emission => EmissionOK'
    /\ HostOK /\ UNCHANGED host => HostOK'
    /\ EnvironmentOK /\ UNCHANGED environment => EnvironmentOK'
BY DEF ControlOK, FieldsOK, EndingsOK, ForcingOK, EmissionOK, HostOK, EnvironmentOK,
       fields, endings, forcing, emission, host, environment

\* A goroutine moves to one of its own labels.
LEMMA Moves ==
    ASSUME ControlOK
    PROVE  /\ \A l \in {"start", "started", "run", "opening", "deliverOpen", "deliver",
                       "refused", "finish", "fail", "failing", "replaying", "closing",
                       "hook", "logging", "close", "hostClose", "return", "summary",
                       "done"} : [pc EXCEPT !["rt"] = l] \in Labels
           /\ \A l \in {"wait", "beating", "done"} : [pc EXCEPT !["hb"] = l] \in Labels
           /\ \A w \in Watchdogs, l \in {"abort", "publish", "hostClose", "done"} :
                 [pc EXCEPT ![w] = l] \in Labels
           /\ [pc EXCEPT !["life"] = "grace"] \in Labels
BY DEF ControlOK, Labels, Watchdogs

\* A round trip that is not ending moves on: nothing is to be reported yet.
LEMMA Calls ==
    ASSUME ControlOK, mu' \in {"free", "rt", "hb"},
           NEW l \in {"started", "run", "opening", "deliverOpen", "deliver", "refused",
                     "finish", "replaying"},
           pc' = [pc EXCEPT !["rt"] = l]
    PROVE  ControlOK' /\ EndingInv'
<1>1. pc' \in Labels
  BY Moves
<1>2. pc'["rt"] = l
  BY DEF ControlOK, Labels
<1>3. QED
  BY <1>1, <1>2 DEF ControlOK, EndingInv

LEMMA InitType == Init => TypeInv
<1> SUFFICES ASSUME Init PROVE TypeInv
  OBVIOUS
<1> USE SessionAssumption, OwnErrors DEF SessionAssumption
<1>0. PICK bound \in DeadlineModes :
          pc = [rt |-> "start", hb |-> IF HeartbeatOn THEN "wait" ELSE "done",
                life |-> "watch", dl |-> IF bound THEN "watch" ELSE "done"]
  BY DEF Init
<1>1. ControlOK
  BY <1>0 DEF Init, Labels, ControlOK
<1>2. EmissionOK
  BY DEF Init, NoBatch, Batches, Kinds, Ids, EmissionOK
<1>3. FieldsOK /\ EnvironmentOK
  BY DEF Init, FieldsOK, EnvironmentOK, Ids
<1>4. HostOK
  <2>1. queued = 0 /\ accepted = <<>> /\ streamClose = "open" /\ closeCalls = 0
    BY DEF Init
  <2>2. QED
    BY <2>1 DEF HostOK
<1>5. EndingsOK
  BY DEF Init, EndingsOK, Outcomes
<1>6. ForcingOK
  BY DEF Init, ForcingOK
<1>7. EndingInv
  BY <1>0 DEF Init, EndingInv
<1>8. QED
  BY <1>1, <1>2, <1>3, <1>4, <1>5, <1>6, <1>7 DEF TypeInv, TypeOK

LEMMA EmissionType == TypeInv /\ Emission => TypeInv'
<1> SUFFICES ASSUME TypeInv, Emission PROVE TypeInv'
  OBVIOUS
<1> USE Frame DEF TypeInv, TypeOK
<1>1. CASE EmitCheck
  <2>1. EmissionOK'
    BY <1>1 DEF EmitCheck, EmissionOK
  <2>2. EndingInv'
    BY <1>1 DEF EmitCheck, EndingInv, endings
  <2>3. QED
    BY <1>1, <2>1, <2>2 DEF EmitCheck
<1>2. CASE HostAccepts
  <2>1. EmissionOK' /\ batch.first + batch.n \in Nat
    BY <1>2 DEF HostAccepts, EmissionOK, Batches
  <2>2. FieldsOK'
    BY <1>2, <2>1 DEF HostAccepts, FieldsOK
  <2>3. HostOK'
    BY <1>2, SessionAssumption DEF HostAccepts, HostOK, EmissionOK, SessionAssumption
  <2>4. EndingInv'
    BY <1>2 DEF HostAccepts, EndingInv, endings
  <2>5. QED
    BY <1>2, <2>1, <2>2, <2>3, <2>4 DEF HostAccepts
<1>3. CASE HostRefuses
  <2>1. EmissionOK' /\ FieldsOK'
    BY <1>3 DEF HostRefuses, EmissionOK, FieldsOK
  <2>2. EndingInv'
    BY <1>3 DEF HostRefuses, EndingInv, endings
  <2>3. QED
    BY <1>3, <2>1, <2>2 DEF HostRefuses
<1>4. QED
  BY <1>1, <1>2, <1>3 DEF Emission

LEMMA CallType == TypeInv /\ RoundTripCall => TypeInv'
<1> SUFFICES ASSUME TypeInv, RoundTripCall PROVE TypeInv'
  OBVIOUS
<1> USE Frame DEF TypeInv, TypeOK
<1>1. CASE StartIdle
  <2>1. ControlOK' /\ EndingInv'
    BY <1>1, Calls DEF StartIdle, Goto, ControlOK
  <2>2. QED
    BY <1>1, <2>1 DEF StartIdle
<1>2. CASE Start
  <2>1. ControlOK' /\ EndingInv'
    BY <1>2, Calls DEF Start, Lock, Goto
  <2>2. QED
    BY <1>2, <2>1, OpenTypes DEF Start, Ids
<1>3. CASE DeliverOpened
  <2>1. ControlOK' /\ EndingInv'
    BY <1>3, Calls DEF DeliverOpened, Goto, ControlOK
  <2>2. EmissionOK'
    BY <1>3, EmitTypes DEF DeliverOpened, Kinds, FieldsOK
  <2>3. QED
    BY <1>3, <2>1, <2>2 DEF DeliverOpened
<1>4. CASE RoundTripReturns
  <2>1. PICK l \in {"run", "refused"} : mu' = "free" /\ pc' = [pc EXCEPT !["rt"] = l]
    BY <1>4 DEF RoundTripReturns, EmitReturns, Unlock, Goto
  <2>2. EmitReturned /\ UNCHANGED <<fields, endings, forcing, host, environment>>
    BY <1>4 DEF RoundTripReturns, EmitReturns
  <2>3. ControlOK' /\ EndingInv'
    BY <2>1, Calls
  <2>4. QED
    BY <2>2, <2>3, EmitTypes
<1>5. CASE Finish
  <2>1. ControlOK' /\ EndingInv'
    BY <1>5, Calls DEF Finish, Goto, ControlOK
  <2>2. QED
    BY <1>5, <2>1 DEF Finish
<1>6. ASSUME NEW id \in Ids, Open(id) PROVE TypeInv'
  <2>1. ControlOK' /\ EndingInv'
    BY <1>6, Calls DEF Open, Lock, Goto
  <2>2. QED
    BY <1>6, <2>1, OpenTypes DEF Open
<1>7. ASSUME NEW id \in Ids, Deliver(id) PROVE TypeInv'
  <2>1. mu' \in {mu, "rt"} /\ UNCHANGED <<endings, forcing, host, environment>>
    BY <1>7 DEF Deliver, Lock
  <2>2. PICK l \in {"refused", "deliverOpen", "deliver"} : pc' = [pc EXCEPT !["rt"] = l]
    BY <1>7 DEF Deliver, Lock, Goto
  <2>3. ControlOK' /\ EndingInv'
    BY <2>1, <2>2, Calls DEF ControlOK
  <2>4. FieldsOK' /\ EmissionOK'
    BY <1>7, OpenTypes, EmitTypes DEF Deliver, Kinds, FieldsOK, fields
  <2>5. QED
    BY <2>1, <2>3, <2>4
<1>8. ASSUME NEW e \in Failures \cup {Disconnected}, Fail(e) PROVE TypeInv'
  <2>1. e \in Errors /\ e # NoErr
    BY OwnErrors, SessionAssumption DEF SessionAssumption
  <2>2. ControlOK' /\ pc'["rt"] = "fail"
    BY <1>8, Moves DEF Fail, ControlOK, Goto, Labels
  <2>3. EndingsOK' /\ EndingInv'
    BY <1>8, <2>1, <2>2 DEF Fail, EndingsOK, EndingInv
  <2>4. QED
    BY <1>8, <2>2, <2>3 DEF Fail
<1>9. QED
  BY <1>1, <1>2, <1>3, <1>4, <1>5, <1>6, <1>7, <1>8 DEF RoundTripCall

\* failLocked, reached by fail and by a stopped finish.
LEMMA FailLockedType ==
    ASSUME TypeInv, NEW e \in Errors \ {NoErr}, FailLocked(e),
           UNCHANGED <<forcing, host, environment>>
    PROVE  TypeInv'
<1> USE Frame DEF TypeInv, TypeOK
<1>1. mu' = "rt" /\ UNCHANGED fields
  BY DEF FailLocked, Lock
<1>2. PICK l \in {"closing", "failing"} : pc' = [pc EXCEPT !["rt"] = l]
  BY DEF FailLocked, Lock, Goto
<1>3. ControlOK'
  BY <1>1, <1>2, Moves DEF ControlOK
<1>4. EndingsOK'
  BY OwnErrors DEF FailLocked, EndingsOK, Outcomes
<1>5. EndingInv'
  BY <1>2 DEF FailLocked, EndingInv
<1>6. EmissionOK'
  BY EmitTypes DEF FailLocked, Kinds, FieldsOK, emission
<1>7. QED
  BY <1>1, <1>3, <1>4, <1>5, <1>6

\* The summary's exit is one of the exits, provided there is one to report.
LEMMA SummaryType ==
    ASSUME EndingsOK, NEW x \in Exits, Summarize(x)
    PROVE  record' \in Exits \cup {"none"}
BY ExitsAreExits DEF EndingsOK, Summarize

LEMMA EndingType == TypeInv /\ Ending => TypeInv'
<1> SUFFICES ASSUME TypeInv, Ending PROVE TypeInv'
  OBVIOUS
<1> USE Frame DEF TypeInv, TypeOK
<1>1. CASE FailBoundary
  <2>1. failure \in Errors \ {NoErr}
    BY <1>1 DEF FailBoundary, At, EndingInv, EndingsOK
  <2>2. QED
    BY <1>1, <2>1, FailLockedType DEF FailBoundary
<1>2. CASE FailEmitted
  <2>1. ControlOK' /\ pc'["rt"] = "closing"
    BY <1>2, Moves DEF FailEmitted, ControlOK, Goto, Labels
  <2>2. EndingsOK' /\ EndingInv'
    BY <1>2, <2>1 DEF FailEmitted, At, EndingsOK, EndingInv, Outcomes
  <2>3. QED
    BY <1>2, <2>1, <2>2, EmitTypes DEF FailEmitted
<1>3. CASE FinishBoundary
  <2>1. CASE FailLocked(Stopped)
    BY <1>3, <2>1, OwnErrors, FailLockedType DEF FinishBoundary
  <2>2. CASE /\ Lock("rt", "closing") /\ closed' = TRUE
             /\ endOutcome' = "cancelled" /\ endErr' = NoErr /\ closeErr' = NoErr
             /\ UNCHANGED <<sequence, started, disconnected, responseID, failure,
                            record, emission>>
    <3>1. ControlOK' /\ pc'["rt"] = "closing"
      BY <2>2, Moves DEF ControlOK, Lock, Goto, Labels
    <3>2. EndingsOK' /\ EndingInv'
      BY <2>2, <3>1, OwnErrors DEF EndingsOK, EndingInv, Outcomes
    <3>3. FieldsOK'
      BY <2>2 DEF FieldsOK
    <3>4. QED
      BY <1>3, <2>2, <3>1, <3>2, <3>3 DEF FinishBoundary
  <2>3. CASE /\ Lock("rt", "replaying")
             /\ \E id \in IF started THEN {responseID} ELSE Ids :
                   CallEmit(Render("completed", ~started, id))
             /\ UNCHANGED <<fields, endings>>
    <3>1. ControlOK' /\ EndingInv'
      BY <2>3, Calls DEF Lock, Goto
    <3>2. PICK id \in Ids : CallEmit(Render("completed", ~started, id))
      BY <2>3 DEF FieldsOK
    <3>3. EmissionOK'
      BY <3>2, EmitTypes DEF Kinds, FieldsOK
    <3>4. QED
      BY <1>3, <2>3, <3>1, <3>3 DEF FinishBoundary
  <2>4. QED
    BY <1>3, <2>1, <2>2, <2>3 DEF FinishBoundary
<1>4. CASE Replayed
  <2>1. ControlOK' /\ pc'["rt"] = "closing"
    BY <1>4, Moves DEF Replayed, ControlOK, Goto, Labels
  <2>2. ReplayOutcome \in {"cancelled", "completed"}
    BY DEF ReplayOutcome
  <2>3. EndingsOK' /\ EndingInv'
    BY <1>4, <2>1, <2>2, OwnErrors DEF Replayed, EndingsOK, EndingInv, Outcomes
  <2>4. FieldsOK'
    BY <1>4 DEF Replayed, FieldsOK
  <2>5. QED
    BY <1>4, <2>1, <2>3, <2>4, EmitTypes DEF Replayed
<1>5. CASE CloseStream
  <2>1. ControlOK'
    BY <1>5, Moves DEF CloseStream, ControlOK, Goto
  <2>2. EndingInv'
    <3>1. At("rt", "closing") /\ pc'["rt"] \in {"close", "hook"} /\ UNCHANGED endings
      BY <1>5 DEF CloseStream, ControlOK, Goto, Labels
    <3>2. QED
      BY <3>1 DEF At, EndingInv, endings
  <2>3. QED
    BY <1>5, <2>1, <2>2 DEF CloseStream
<1>6. CASE OnEnd
  <2>1. ControlOK' /\ pc'["rt"] = "logging"
    <3>1. mu' = mu /\ pc' = [pc EXCEPT !["rt"] = "logging"]
      BY <1>6 DEF OnEnd, Goto
    <3>2. QED
      BY <3>1, Moves DEF ControlOK, Labels
  <2>2. EndingInv'
    BY <1>6, <2>1 DEF OnEnd, At, EndingInv
  <2>3. record' \in Exits \cup {"none"}
    BY <1>6, SummaryType, ExitsAreExits DEF OnEnd, EndingsOK, Outcomes, Exits
  <2>4. EndingsOK'
    BY <1>6, <2>3 DEF OnEnd, EndingsOK
  <2>5. QED
    BY <1>6, <2>1, <2>2, <2>4 DEF OnEnd
<1>7. CASE CloseOnce
  <2>1. ControlOK'
    BY <1>7, Moves DEF CloseOnce, ControlOK, Goto
  <2>2. EndingInv'
    <3>1. At("rt", "close") /\ pc'["rt"] \in {"hostClose", "return"} /\ UNCHANGED endings
      BY <1>7 DEF CloseOnce, ControlOK, Goto, Labels
    <3>2. QED
      BY <3>1 DEF At, EndingInv, endings
  <2>3. ForcingOK'
    BY <1>7 DEF CloseOnce, WinClose, ForcingOK
  <2>4. QED
    BY <1>7, <2>1, <2>2, <2>3 DEF CloseOnce
<1>8. CASE HostClose("rt", closeErr, "return")
  <2>1. ControlOK' /\ pc'["rt"] = "return"
    BY <1>8, Moves DEF HostClose, ControlOK, Goto, Labels
  <2>2. EndingInv'
    BY <1>8, <2>1 DEF HostClose, At, EndingInv, endings
  <2>3. ForcingOK'
    BY <1>8 DEF HostClose, ForcingOK
  <2>4. closeErr.kind \in ErrorKinds
    BY DEF EndingsOK, Errors
  <2>5. HostOK'
    BY <1>8, <2>4 DEF HostClose, HostOK
  <2>6. QED
    BY <1>8, <2>1, <2>2, <2>3, <2>5 DEF HostClose
<1>9. CASE Return
  <2>1. ControlOK' /\ pc'["rt"] = "summary"
    BY <1>9, Moves DEF Return, ControlOK, Unlock, Goto, Labels
  <2>2. EndingInv'
    BY <1>9, <2>1 DEF Return, At, EndingInv, endings
  <2>3. FieldsOK'
    BY <1>9 DEF Return, FieldsOK
  <2>4. QED
    BY <1>9, <2>1, <2>2, <2>3 DEF Return
<1>10. CASE FinishAfter
  <2>1. ControlOK' /\ pc'["rt"] = "done"
    BY <1>10, Moves DEF FinishAfter, ControlOK, Goto, Labels
  <2>2. EndingInv'
    BY <1>10, <2>1 DEF FinishAfter, At, EndingInv
  <2>3. failure # NoErr \/ endOutcome \in Exits
    BY <1>10 DEF FinishAfter, At, EndingInv, EndingsOK, Outcomes, Exits
  <2>4. record' \in Exits \cup {"none"}
    BY <1>10, <2>3, SummaryType, ExitsAreExits DEF FinishAfter
  <2>5. EndingsOK'
    BY <1>10, <2>4 DEF FinishAfter, EndingsOK
  <2>6. QED
    BY <1>10, <2>1, <2>2, <2>5 DEF FinishAfter
<1>11. QED
  BY <1>1, <1>2, <1>3, <1>4, <1>5, <1>6, <1>7, <1>8, <1>9, <1>10 DEF Ending

LEMMA HeartbeatType == TypeInv /\ (Tick \/ Beaten \/ HeartbeatStops) => TypeInv'
<1> SUFFICES ASSUME TypeInv, Tick \/ Beaten \/ HeartbeatStops PROVE TypeInv'
  OBVIOUS
<1> USE Frame DEF TypeInv, TypeOK
<1>1. PICK l \in {"wait", "beating", "done"} : pc' = [pc EXCEPT !["hb"] = l]
  BY DEF Tick, Beaten, EmitReturns, HeartbeatStops, Lock, Unlock, Goto
<1>2. mu' \in {mu, "free", "hb"}
  BY DEF Tick, Beaten, EmitReturns, HeartbeatStops, Lock, Unlock
<1>3. UNCHANGED <<endings, forcing, host, environment>>
  BY DEF Tick, Beaten, EmitReturns, HeartbeatStops
<1>4. ControlOK' /\ pc'["rt"] = pc["rt"]
  <2>1. pc' \in Labels
    BY <1>1, Moves
  <2>2. pc'["rt"] = pc["rt"]
    BY <1>1 DEF ControlOK, Labels
  <2>3. QED
    BY <1>2, <2>1, <2>2 DEF ControlOK
<1>5. EndingInv'
  BY <1>3, <1>4 DEF EndingInv, endings
<1>6. FieldsOK' /\ EmissionOK'
  <2>1. CASE Tick
    BY <2>1, OpenTypes, EmitTypes DEF Tick, Kinds, Ids, FieldsOK
  <2>2. CASE Beaten
    BY <2>2, EmitTypes DEF Beaten, EmitReturns
  <2>3. CASE HeartbeatStops
    BY <2>3 DEF HeartbeatStops
  <2>4. QED
    BY <2>1, <2>2, <2>3
<1>7. QED
  BY <1>3, <1>4, <1>5, <1>6

LEMMA WatchdogType == ASSUME TypeInv, NEW w \in Watchdogs, Watchdog(w) PROVE TypeInv'
<1> USE Frame DEF TypeInv, TypeOK
<1>1. PICK l \in {"grace", "abort", "publish", "hostClose", "done"} :
         pc' = [pc EXCEPT ![w] = l] /\ (l = "grace" => w = "life")
  BY DEF Watchdog, LifeCancelled, LifeGraceOver, DeadlineFires, WatchdogLeaves, Abort,
         PublishForced, HostClose, Goto
<1>2. UNCHANGED <<mu, fields, endings, emission, environment>>
  BY DEF Watchdog, LifeCancelled, LifeGraceOver, DeadlineFires, WatchdogLeaves, Abort,
         PublishForced, HostClose
<1>3. ControlOK' /\ pc'["rt"] = pc["rt"]
  BY <1>1, <1>2, Moves DEF ControlOK, Labels, Watchdogs
<1>4. EndingInv'
  BY <1>2, <1>3 DEF EndingInv, endings
<1>5. ForcingOK' /\ HostOK'
  <2>1. CASE LifeCancelled \/ LifeGraceOver \/ WatchdogLeaves(w)
    BY <2>1 DEF LifeCancelled, LifeGraceOver, WatchdogLeaves
  <2>2. CASE DeadlineFires
    BY <2>2, OwnErrors DEF DeadlineFires, ForcingOK
  <2>3. CASE Abort(w)
    BY <2>3, OwnErrors DEF Abort, WinClose, ForcingOK
  <2>4. CASE PublishForced(w)
    BY <2>4 DEF PublishForced, ForcingOK
  <2>5. CASE HostClose(w, abortErr[w], "done")
    <3>1. abortErr[w].kind \in ErrorKinds
      BY DEF ForcingOK, Errors
    <3>2. QED
      BY <2>5, <3>1 DEF HostClose, ForcingOK, HostOK
  <2>6. QED
    BY <2>1, <2>2, <2>3, <2>4, <2>5 DEF Watchdog
<1>6. QED
  BY <1>2, <1>3, <1>4, <1>5

LEMMA EnvironmentType == TypeInv /\ (Environment \/ LogReturns) => TypeInv'
<1> SUFFICES ASSUME TypeInv, Environment \/ LogReturns PROVE TypeInv'
  OBVIOUS
<1> USE Frame DEF TypeInv, TypeOK
<1>1. CASE Environment
  <2>1. UNCHANGED <<mu, pc, fields, endings, forcing, emission>>
    BY <1>1 DEF Environment, DeadlinePasses
  <2>2. EndingInv'
    BY <2>1 DEF EndingInv, endings
  <2>3. EnvironmentOK'
    BY <1>1 DEF Environment, PluginStops, ClientLeaves, DeadlinePasses, ClientReads,
                EnvironmentOK, environment
  <2>4. HostOK'
    BY <1>1, SessionAssumption DEF Environment, ClientReads, DeadlinePasses, HostOK,
                                   SessionAssumption
  <2>5. QED
    BY <2>1, <2>2, <2>3, <2>4
<1>2. CASE LogReturns
  <2>1. ControlOK' /\ pc'["rt"] = "close"
    BY <1>2, Moves DEF LogReturns, ControlOK, Goto, Labels
  <2>2. EndingInv'
    BY <1>2, <2>1 DEF LogReturns, At, EndingInv, endings
  <2>3. QED
    BY <1>2, <2>1, <2>2 DEF LogReturns
<1>3. QED
  BY <1>1, <1>2

LEMMA NextType == TypeInv /\ [Next]_vars => TypeInv'
<1> SUFFICES ASSUME TypeInv, [Next]_vars PROVE TypeInv'
  OBVIOUS
<1>1. ASSUME UNCHANGED vars PROVE TypeInv'
  BY <1>1, Frame DEF vars, TypeInv, TypeOK, EndingInv, endings
<1>2. CASE Next
  BY <1>1, <1>2, EmissionType, CallType, EndingType, HeartbeatType, WatchdogType,
     EnvironmentType DEF Next, Rest
<1>3. QED
  BY <1>1, <1>2

\* Every behaviour keeps the session's variables in their types: in particular
\* the summary's exit is always one of the exits, and the host's queue never
\* outgrows its capacity (stream_session.go, relay_summary.go:225-318).
THEOREM TypeCorrect == Spec => []TypeOK
<1>1. Spec => []TypeInv
  BY InitType, NextType, PTL DEF Spec
<1>2. TypeInv => TypeOK
  BY DEF TypeInv
<1>3. QED
  BY <1>1, <1>2, PTL

----------------------------------------------------------------------------
(* The close.  closeOnce is owned by exactly the goroutine that is between *)
(* winning it and returning from host.stream.close.                        *)

Closers == {"rt"} \cup Watchdogs

CloseInv ==
    /\ closeOnce # "done" => closeCalls = 0 /\ streamClose = "open"
    /\ closeOnce = "done" => closeCalls = 1
    /\ \A t \in Closers : closeOnce = t <=> pc[t] \in {"publish", "hostClose"}
    /\ pc["rt"] \in {"return", "summary", "done"} => closeOnce = "done"

\* The close error each reason stands for; why a watchdog's close has one.
ReasonOf(err) == IF err = NoErr THEN Stopped ELSE err
ReasonInv ==
    /\ abortErr \in [Watchdogs -> {NoErr, TimedOut}]
    /\ closeOnce \in Watchdogs => forceReason = ReasonOf(abortErr[closeOnce])
    /\ closeOnce \in {"free", "rt"} => ~forced
    /\ forced => forceReason # NoErr
    /\ forced /\ closeOnce = "done" =>
           streamClose = IF forceReason = Stopped THEN "none" ELSE forceReason.kind

Inv == TypeInv /\ CloseInv /\ ReasonInv

\* What is neither a close nor a watchdog leaves the close alone.
closing == <<closeOnce, forced, forceReason, abortErr, streamClose, closeCalls>>
NoClose ==
    /\ UNCHANGED closing
    /\ \A w \in Watchdogs : pc'[w] = pc[w]
    /\ \/ pc'["rt"] = pc["rt"]
       \/ /\ pc["rt"] \notin {"hostClose", "return", "summary", "done"}
          /\ pc'["rt"] \notin {"publish", "hostClose", "return", "summary", "done"}
       \/ pc["rt"] \in {"return", "summary"} /\ pc'["rt"] \in {"summary", "done"}

LEMMA NoCloseStep == Inv /\ NoClose => CloseInv' /\ ReasonInv'
<1> SUFFICES ASSUME Inv, NoClose PROVE CloseInv' /\ ReasonInv'
  OBVIOUS
<1>1. UNCHANGED <<closeOnce, forced, forceReason, abortErr, streamClose, closeCalls>>
  BY DEF NoClose, closing
<1>2. ReasonInv'
  BY <1>1 DEF Inv, ReasonInv, ReasonOf
<1>3. CloseInv'
  BY <1>1 DEF Inv, CloseInv, NoClose, Closers, TypeInv, TypeOK, ControlOK, Labels
<1>4. QED
  BY <1>2, <1>3

\* A step of the round trip to a label before its close.
Early == {"start", "started", "run", "opening", "deliverOpen", "deliver", "refused",
          "finish", "fail", "failing", "replaying", "closing", "hook", "logging", "close"}

LEMMA RtNoClose ==
    ASSUME Inv, UNCHANGED closing, pc["rt"] \in Early,
           NEW l \in Early, pc' = [pc EXCEPT !["rt"] = l]
    PROVE  NoClose
<1>1. pc'["rt"] = l
  BY DEF Inv, TypeInv, TypeOK, ControlOK, Labels
<1>2. ASSUME NEW w \in Watchdogs PROVE pc'[w] = pc[w]
  BY DEF Inv, TypeInv, TypeOK, ControlOK, Labels, Watchdogs
<1>3. /\ pc["rt"] \notin {"hostClose", "return", "summary", "done"}
      /\ pc'["rt"] \notin {"publish", "hostClose", "return", "summary", "done"}
  BY <1>1 DEF Early
<1>4. QED
  BY <1>2, <1>3 DEF NoClose, closing

LEMMA OtherSteps ==
    ASSUME Inv,
           \/ Emission \/ RoundTripCall \/ LogReturns \/ Tick \/ Beaten \/ HeartbeatStops
           \/ Environment
    PROVE  NoClose
<1> USE DEF At
<1>1. CASE Emission \/ Environment
  <2>1. UNCHANGED pc /\ UNCHANGED closing
    BY <1>1 DEF Emission, EmitCheck, HostAccepts, HostRefuses, Environment, DeadlinePasses,
                ClientReads, closing, forcing, host
  <2>2. QED
    BY <2>1 DEF NoClose, closing
<1>2. CASE RoundTripCall
  <2>1. pc["rt"] \in Early
    BY <1>2 DEF RoundTripCall, StartIdle, Start, DeliverOpened, RoundTripReturns,
                EmitReturns, Finish, Open, Deliver, Fail, Early
  <2>2. PICK l \in Early : pc' = [pc EXCEPT !["rt"] = l]
    BY <1>2 DEF RoundTripCall, StartIdle, Start, DeliverOpened, RoundTripReturns,
                EmitReturns, Finish, Open, Deliver, Fail, Lock, Unlock, Goto, Early
  <2>3. UNCHANGED closing
    BY <1>2 DEF RoundTripCall, StartIdle, Start, DeliverOpened, RoundTripReturns,
                EmitReturns, Finish, Open, Deliver, Fail, host, forcing, closing
  <2>4. QED
    BY <2>1, <2>2, <2>3, RtNoClose
<1>3. CASE LogReturns
  BY <1>3, RtNoClose DEF LogReturns, Goto, host, forcing, closing, Early
<1>4. CASE Tick \/ Beaten \/ HeartbeatStops
  <2>1. PICK l \in {"wait", "beating", "done"} : pc' = [pc EXCEPT !["hb"] = l]
    BY <1>4 DEF Tick, Beaten, EmitReturns, HeartbeatStops, Lock, Unlock, Goto
  <2>2. UNCHANGED closing
    BY <1>4 DEF Tick, Beaten, EmitReturns, HeartbeatStops, forcing, host, closing
  <2>3. pc'["rt"] = pc["rt"] /\ \A w \in Watchdogs : pc'[w] = pc[w]
    BY <2>1 DEF Inv, TypeInv, TypeOK, ControlOK, Labels, Watchdogs
  <2>4. QED
    BY <2>2, <2>3 DEF NoClose, closing
<1>5. QED
  BY <1>1, <1>2, <1>3, <1>4

LEMMA EndingSteps == Inv /\ Ending => CloseInv' /\ ReasonInv'
<1> SUFFICES ASSUME Inv, Ending PROVE CloseInv' /\ ReasonInv'
  OBVIOUS
<1> USE DEF At
<1>1. CASE FailBoundary \/ FailEmitted \/ FinishBoundary \/ Replayed \/ CloseStream \/ OnEnd
  <2>1. pc["rt"] \in Early
    BY <1>1 DEF FailBoundary, FailEmitted, FinishBoundary, Replayed, CloseStream, OnEnd, Early
  <2>2. PICK l \in Early : pc' = [pc EXCEPT !["rt"] = l]
    BY <1>1 DEF FailBoundary, FailEmitted, FinishBoundary, Replayed, CloseStream, OnEnd,
                FailLocked, Lock, Goto, Early
  <2>3. UNCHANGED closing
    BY <1>1 DEF FailBoundary, FailEmitted, FinishBoundary, Replayed, CloseStream, OnEnd,
                forcing, host, closing
  <2>4. NoClose
    BY <2>1, <2>2, <2>3, RtNoClose
  <2>5. QED
    BY <2>4, NoCloseStep
<1>2. CASE Return \/ FinishAfter
  <2>1. PICK l \in {"summary", "done"} : pc' = [pc EXCEPT !["rt"] = l]
    BY <1>2 DEF Return, FinishAfter, Unlock, Goto
  <2>2. pc["rt"] \in {"return", "summary"}
    BY <1>2 DEF Return, FinishAfter
  <2>3. UNCHANGED closing
    BY <1>2 DEF Return, FinishAfter, forcing, host, closing
  <2>4. pc'["rt"] = l /\ \A w \in Watchdogs : pc'[w] = pc[w]
    BY <2>1 DEF Inv, TypeInv, TypeOK, ControlOK, Labels, Watchdogs
  <2>5. NoClose
    BY <2>2, <2>3, <2>4 DEF NoClose, closing
  <2>6. QED
    BY <2>5, NoCloseStep
<1>3. CASE CloseOnce
  <2>1. \/ /\ closeOnce = "free" /\ closeOnce' = "rt"
           /\ pc' = [pc EXCEPT !["rt"] = "hostClose"]
        \/ /\ closeOnce = "done" /\ closeOnce' = "done"
           /\ pc' = [pc EXCEPT !["rt"] = "return"]
    BY <1>3 DEF CloseOnce, WinClose, Goto
  <2>2. /\ pc["rt"] = "close"
        /\ UNCHANGED <<forced, forceReason, abortErr, streamClose, closeCalls>>
    BY <1>3 DEF CloseOnce, host
  <2>3. pc'["rt"] \in {"hostClose", "return"} /\ \A w \in Watchdogs : pc'[w] = pc[w]
    BY <2>1 DEF Inv, TypeInv, TypeOK, ControlOK, Labels, Watchdogs
  <2>4. pc'["rt"] = "hostClose" <=> closeOnce' = "rt"
    BY <2>1 DEF Inv, TypeInv, TypeOK, ControlOK, Labels
  <2>5. CloseInv'
    BY <2>1, <2>2, <2>3, <2>4 DEF Inv, CloseInv, Closers, Watchdogs
  <2>6. ReasonInv'
    BY <2>1, <2>2 DEF Inv, ReasonInv, ReasonOf, Watchdogs
  <2>7. QED
    BY <2>5, <2>6
<1>4. CASE HostClose("rt", closeErr, "return")
  <2>1. /\ pc["rt"] = "hostClose" /\ pc' = [pc EXCEPT !["rt"] = "return"]
        /\ closeOnce' = "done" /\ closeCalls' = closeCalls + 1
        /\ UNCHANGED <<forced, forceReason, abortErr>>
    BY <1>4 DEF HostClose, Goto
  <2>2. pc'["rt"] = "return" /\ \A w \in Watchdogs : pc'[w] = pc[w]
    BY <2>1 DEF Inv, TypeInv, TypeOK, ControlOK, Labels, Watchdogs
  <2>3. closeOnce = "rt" /\ closeCalls = 0 /\ ~forced
    BY <2>1 DEF Inv, CloseInv, ReasonInv, Closers
  <2>4. CloseInv'
    BY <2>1, <2>2, <2>3 DEF Inv, CloseInv, Closers, Watchdogs
  <2>5. ReasonInv'
    BY <2>1, <2>3 DEF Inv, ReasonInv, ReasonOf, Watchdogs
  <2>6. QED
    BY <2>4, <2>5
<1>5. QED
  BY <1>1, <1>2, <1>3, <1>4 DEF Ending

\* A watchdog that is outside its close, before and after, and may have
\* written its own close error.
LEMMA WatchdogOutside ==
    ASSUME Inv, NEW w \in Watchdogs, NEW l \in {"grace", "abort", "done"},
           pc[w] \in {"watch", "grace", "abort"}, pc' = [pc EXCEPT ![w] = l],
           UNCHANGED <<closeOnce, forced, forceReason, streamClose, closeCalls>>,
           closeOnce = w => UNCHANGED abortErr,
           abortErr' = abortErr \/ \E e \in {NoErr, TimedOut} : abortErr' = [abortErr EXCEPT ![w] = e]
    PROVE  CloseInv' /\ ReasonInv'
<1>1. pc'[w] = l /\ \A t \in Closers \ {w} : pc'[t] = pc[t]
  BY DEF Inv, TypeInv, TypeOK, ControlOK, Labels, Watchdogs, Closers
<1>2. w # "rt"
  BY DEF Watchdogs
<1>3. closeOnce # w
  BY DEF Inv, CloseInv, Closers
<1>4. \A t \in Closers : closeOnce' = t <=> pc'[t] \in {"publish", "hostClose"}
  BY <1>1, <1>3 DEF Inv, CloseInv
<1>5. pc'["rt"] = pc["rt"]
  BY <1>1, <1>2 DEF Closers
<1>6. CloseInv'
  BY <1>4, <1>5 DEF Inv, CloseInv
<1>7. abortErr' \in [Watchdogs -> {NoErr, TimedOut}]
  BY DEF Inv, ReasonInv
<1>8. \A v \in Watchdogs \ {w} : abortErr'[v] = abortErr[v]
  BY DEF Inv, ReasonInv
<1>9. closeOnce' \in Watchdogs => forceReason' = ReasonOf(abortErr'[closeOnce'])
  BY <1>3, <1>8 DEF Inv, ReasonInv
<1>10. ReasonInv'
  BY <1>7, <1>9 DEF Inv, ReasonInv
<1>11. QED
  BY <1>6, <1>10

LEMMA WatchdogSteps ==
    ASSUME Inv, NEW w \in Watchdogs, Watchdog(w) PROVE CloseInv' /\ ReasonInv'
<1> USE DEF At
<1>1. CASE WatchdogLeaves(w)
  <2>1. /\ pc[w] \in {"watch", "grace"} /\ pc' = [pc EXCEPT ![w] = "done"]
        /\ UNCHANGED <<closeOnce, forced, forceReason, abortErr, streamClose, closeCalls>>
    BY <1>1 DEF WatchdogLeaves, Goto, forcing, host
  <2>2. QED
    BY <2>1, WatchdogOutside
<1>2. CASE w = "life" /\ (LifeCancelled \/ LifeGraceOver)
  <2>1. PICK l \in {"grace", "abort"} : pc' = [pc EXCEPT ![w] = l]
    BY <1>2 DEF LifeCancelled, LifeGraceOver, Goto
  <2>2. /\ pc[w] \in {"watch", "grace"}
        /\ UNCHANGED <<closeOnce, forced, forceReason, abortErr, streamClose, closeCalls>>
    BY <1>2 DEF LifeCancelled, LifeGraceOver, forcing, host
  <2>3. QED
    BY <2>1, <2>2, WatchdogOutside
<1>3. CASE w = "dl" /\ DeadlineFires
  <2>1. /\ pc[w] = "watch" /\ pc' = [pc EXCEPT ![w] = "abort"]
        /\ UNCHANGED <<closeOnce, forced, forceReason, streamClose, closeCalls>>
    BY <1>3 DEF DeadlineFires, Goto, host
  <2>2. \E e \in {NoErr, TimedOut} : abortErr' = [abortErr EXCEPT ![w] = e]
    BY <1>3 DEF DeadlineFires
  <2>3. closeOnce # w
    BY <2>1 DEF Inv, CloseInv, Closers
  <2>4. QED
    BY <2>1, <2>2, <2>3, WatchdogOutside
<1>4. CASE Abort(w)
  <2>1. CASE closeOnce = "done"
    <3>1. /\ pc[w] = "abort" /\ pc' = [pc EXCEPT ![w] = "done"]
          /\ UNCHANGED <<closeOnce, forced, forceReason, abortErr, streamClose, closeCalls>>
      BY <1>4, <2>1 DEF Abort, WinClose, Goto, host
    <3>2. QED
      BY <3>1, WatchdogOutside
  <2>2. CASE closeOnce # "done"
    <3>1. /\ closeOnce = "free" /\ closeOnce' = w
          /\ pc[w] = "abort" /\ pc' = [pc EXCEPT ![w] = "publish"]
          /\ UNCHANGED <<forced, abortErr, streamClose, closeCalls>>
      BY <1>4, <2>2 DEF Abort, WinClose, Goto, host
    <3>2. forceReason' = ReasonOf(abortErr[w])
      BY <1>4, <2>2 DEF Abort, ReasonOf
    <3>3. pc'[w] = "publish" /\ \A t \in Closers \ {w} : pc'[t] = pc[t]
      BY <3>1 DEF Inv, TypeInv, TypeOK, ControlOK, Labels, Watchdogs, Closers
    <3>4. w \notin {"rt", "free", "done"}
      BY DEF Watchdogs
    <3>5. pc["rt"] \notin {"return", "summary", "done"}
      BY <3>1 DEF Inv, CloseInv
    <3>6. \A t \in Closers : closeOnce' = t <=> pc'[t] \in {"publish", "hostClose"}
      BY <3>1, <3>3, <3>4 DEF Inv, CloseInv, Closers, Watchdogs
    <3>7. CloseInv'
      BY <3>1, <3>3, <3>4, <3>5, <3>6 DEF Inv, CloseInv, Closers
    <3>8. ReasonInv'
      BY <3>1, <3>2, <3>4 DEF Inv, ReasonInv
    <3>9. QED
      BY <3>7, <3>8
  <2>3. QED
    BY <2>1, <2>2
<1>5. CASE PublishForced(w)
  <2>1. /\ pc[w] = "publish" /\ pc' = [pc EXCEPT ![w] = "hostClose"] /\ forced' = TRUE
        /\ UNCHANGED <<closeOnce, forceReason, abortErr, streamClose, closeCalls>>
    BY <1>5 DEF PublishForced, Goto, host
  <2>2. closeOnce = w
    BY <2>1 DEF Inv, CloseInv, Closers
  <2>3. pc'[w] = "hostClose" /\ \A t \in Closers \ {w} : pc'[t] = pc[t]
    BY <2>1 DEF Inv, TypeInv, TypeOK, ControlOK, Labels, Watchdogs, Closers
  <2>4. w \notin {"rt", "free", "done"}
    BY DEF Watchdogs
  <2>5. CloseInv'
    BY <2>1, <2>2, <2>3, <2>4 DEF Inv, CloseInv, Closers
  <2>6. forceReason = ReasonOf(abortErr[w])
    BY <2>2 DEF Inv, ReasonInv
  <2>7. abortErr[w] \in {NoErr, TimedOut}
    BY DEF Inv, ReasonInv
  <2>8. forceReason # NoErr
    BY <2>6, <2>7 DEF ReasonOf, NoErr, TimedOut, Stopped
  <2>9. ReasonInv'
    BY <2>1, <2>2, <2>4, <2>8 DEF Inv, ReasonInv
  <2>10. QED
    BY <2>5, <2>9
<1>6. CASE HostClose(w, abortErr[w], "done")
  <2>1. /\ pc[w] = "hostClose" /\ pc' = [pc EXCEPT ![w] = "done"]
        /\ closeOnce' = "done" /\ closeCalls' = closeCalls + 1
        /\ streamClose' = abortErr[w].kind
        /\ UNCHANGED <<forced, forceReason, abortErr>>
    BY <1>6 DEF HostClose, Goto
  <2>2. closeOnce = w /\ closeCalls = 0
    BY <2>1 DEF Inv, CloseInv, Closers, Watchdogs
  <2>3. pc'[w] = "done" /\ \A t \in Closers \ {w} : pc'[t] = pc[t]
    BY <2>1 DEF Inv, TypeInv, TypeOK, ControlOK, Labels, Watchdogs, Closers
  <2>4. w \notin {"rt", "free", "done"}
    BY DEF Watchdogs
  <2>5. \A t \in Closers : pc'[t] \notin {"publish", "hostClose"}
    BY <2>2, <2>3 DEF Inv, CloseInv
  <2>6. CloseInv'
    BY <2>1, <2>2, <2>3, <2>4, <2>5 DEF Inv, CloseInv, Closers, Watchdogs
  <2>7. forceReason = ReasonOf(abortErr[w]) /\ abortErr[w] \in {NoErr, TimedOut}
    BY <2>2 DEF Inv, ReasonInv
  <2>8. streamClose' = IF forceReason = Stopped THEN "none" ELSE forceReason.kind
    BY <2>1, <2>7 DEF ReasonOf, NoErr, TimedOut, Stopped
  <2>9. ReasonInv'
    BY <2>1, <2>8 DEF Inv, ReasonInv, Watchdogs
  <2>10. QED
    BY <2>6, <2>9
<1>7. QED
  BY <1>1, <1>2, <1>3, <1>4, <1>5, <1>6 DEF Watchdog

LEMMA InvInit == Init => Inv
<1> SUFFICES ASSUME Init PROVE Inv
  OBVIOUS
<1>0. PICK bound \in DeadlineModes :
          pc = [rt |-> "start", hb |-> IF HeartbeatOn THEN "wait" ELSE "done",
                life |-> "watch", dl |-> IF bound THEN "watch" ELSE "done"]
  BY DEF Init
<1>1. TypeInv
  BY InitType
<1>2. CloseInv
  <2>1. closeOnce = "free" /\ closeCalls = 0 /\ streamClose = "open" /\ pc["rt"] = "start"
    BY <1>0 DEF Init
  <2>2. pc["life"] = "watch" /\ pc["dl"] \in {"watch", "done"}
    BY <1>0
  <2>3. \A t \in Closers : closeOnce # t /\ pc[t] \notin {"publish", "hostClose"}
    BY <2>1, <2>2 DEF Closers, Watchdogs
  <2>4. QED
    BY <2>1, <2>3 DEF CloseInv
<1>3. ReasonInv
  BY DEF Init, ReasonInv, Watchdogs
<1>4. QED
  BY <1>1, <1>2, <1>3 DEF Inv

LEMMA InvNext == Inv /\ [Next]_vars => Inv'
<1> SUFFICES ASSUME Inv, [Next]_vars PROVE Inv'
  OBVIOUS
<1>1. TypeInv'
  BY NextType DEF Inv
<1>2. ASSUME UNCHANGED vars PROVE CloseInv' /\ ReasonInv'
  BY <1>2 DEF vars, forcing, host, Inv, CloseInv, ReasonInv
<1>3. ASSUME Next PROVE CloseInv' /\ ReasonInv'
  <2>1. CASE Rest
    BY <1>2, <2>1 DEF Rest
  <2>2. CASE Ending
    BY <2>2, EndingSteps
  <2>3. CASE \E w \in Watchdogs : Watchdog(w)
    BY <2>3, WatchdogSteps
  <2>4. CASE \/ Emission \/ RoundTripCall \/ LogReturns \/ Tick \/ Beaten \/ HeartbeatStops
             \/ Environment
    BY <2>4, OtherSteps, NoCloseStep
  <2>5. QED
    BY <1>3, <2>1, <2>2, <2>3, <2>4 DEF Next
<1>4. QED
  BY <1>1, <1>2, <1>3 DEF Inv

LEMMA SpecInv == Spec => []Inv
  BY InvInit, InvNext, PTL DEF Spec

\* However the round trip and the two watchdogs race for closeOnce,
\* host.stream.close runs at most once, and has run by the time the session
\* has ended (stream_session.go:308-343).
THEOREM ClosesOnce == Spec => []ClosedExactlyOnce
<1>1. Inv => ClosedExactlyOnce
  BY DEF Inv, CloseInv, ClosedExactlyOnce, Ended
<1>2. QED
  BY <1>1, SpecInv, PTL

\* A watchdog publishes forced only once the close and its reason are its
\* own, so no ending overwrites that reason (stream_session.go:313-343).
THEOREM ForcedKeepsReason == Spec => []ForcedOwnsClose
<1>1. ASSUME Inv, forced PROVE closeOnce \in Watchdogs \cup {"done"}
  BY <1>1 DEF Inv, TypeInv, TypeOK, ForcingOK, ReasonInv
<1>2. ASSUME Inv, forced, streamClose # "open" PROVE closeOnce = "done"
  BY <1>2 DEF Inv, CloseInv
<1>3. Inv => ForcedOwnsClose
  BY <1>1, <1>2 DEF Inv, ReasonInv, ForcedOwnsClose
<1>4. QED
  BY <1>3, SpecInv, PTL

----------------------------------------------------------------------------
\* The contract with the host and the client.

Last == accepted[Len(accepted)]
Completed == \E i \in DOMAIN accepted : accepted[i].kind = "completed"

\* Where the round trip is in emitLocked, and where it is ending.
Emitting == {"started", "opening", "deliverOpen", "deliver", "failing", "replaying"}
Closing == {"closing", "hook", "logging", "close", "hostClose", "return", "summary", "done"}
Locked == (Emitting \cup Closing) \ {"summary", "done"}

\* ss.mu is held exactly where a goroutine is in its critical section, so one
\* of them emits at a time, and the heartbeat is gone when the stream ends.
MutexInv ==
    /\ mu = "rt" <=> pc["rt"] \in Locked
    /\ mu = "hb" <=> pc["hb"] = "beating"
    /\ stage # "idle" <=> pc["rt"] \in Emitting \/ pc["hb"] = "beating"
    /\ pc["rt"] \in Closing \cup {"failing", "replaying"} => pc["hb"] = "done"

\* The payload being handed over continues the stream.
BatchInv ==
    /\ stage # "idle" =>
          /\ batch.kind = "failed" <=> pc["rt"] = "failing"
          /\ batch.kind = "completed" <=> pc["rt"] = "replaying"
    /\ stage \in {"check", "host"} =>
          /\ batch.first = sequence
          /\ batch.opens => accepted = <<>>
          /\ started \/ (batch.opens /\ pc["rt"] \in {"failing", "replaying"})
          /\ started => batch.id = responseID
    /\ stage = "host" => ~disconnected /\ (~batch.opens => accepted # <<>>)
    /\ stage = "ok" => ~disconnected /\ accepted # <<>> /\ Last = batch

\* The session's fields describe what the host has accepted.
StreamInv ==
    /\ sequence = IF accepted = <<>> THEN 0 ELSE Last.first + Last.n
    /\ pc["rt"] = "start" => ~started
    /\ accepted # <<>> => started \/ pc["rt"] \in Closing \cup {"failing", "replaying"}
    /\ accepted # <<>> /\ started => Last.id = responseID
    /\ started /\ accepted = <<>> => CutOff \/ (stage \in {"check", "host"} /\ batch.opens)
    /\ accepted # <<>> /\ Last.kind \in {"completed", "failed"} =>
          \/ pc["rt"] \in Closing
          \/ pc["rt"] \in {"failing", "replaying"} /\ stage = "ok"

\* The error a stream fails with, and the one it is closed with.
FailInv ==
    /\ failure \in Failures \cup {NoErr, Disconnected, Stopped}
    /\ failure # NoErr => pc["rt"] \in Closing \cup {"fail", "failing"}
    /\ pc["rt"] = "failing" \/ (pc["rt"] \in Closing /\ endOutcome = "") => endErr # NoErr
    /\ endOutcome = "completed" => pc["rt"] \in Closing /\ failure = NoErr /\ Completed
    /\ closeErr # NoErr => closeErr \in Failures /\ ~IsRequestScoped(closeErr)
    /\ abortErr["life"] = NoErr

\* The summary: when it is written, and what it says.
RecordInv ==
    /\ closeOnce \notin {"free", "rt"} /\ forceReason = NoErr
           => pc["rt"] \in {"return", "summary", "done"}
    /\ record # "none" => pc["rt"] \in Closing \ {"closing", "hook"}
    /\ pc["rt"] = "logging" => record # "none"
    /\ pc["rt"] \in {"close", "hostClose", "return", "summary", "done"}
           => record # "none" \/ forced
    /\ Completed =>
          \/ pc["rt"] = "replaying" /\ stage = "ok"
          \/ pc["rt"] \in Closing /\ (endOutcome = "completed" \/ forceReason # NoErr)
    /\ record = "completed" => Completed
    /\ Completed /\ record # "none" /\ forceReason = NoErr => record = "completed"

Parts == MutexInv /\ BatchInv /\ StreamInv /\ FailInv /\ RecordInv
Full == Inv /\ MutexInv /\ BatchInv /\ StreamInv /\ FailInv /\ RecordInv

----------------------------------------------------------------------------
(* Lemmas.                                                                 *)

\* A goroutine moves alone.
LEMMA MovesAlone ==
    ASSUME ControlOK, NEW t \in {"rt", "hb", "life", "dl"}, NEW l, Goto(t, l)
    PROVE  pc'[t] = l /\ \A u \in {"rt", "hb", "life", "dl"} \ {t} : pc'[u] = pc[u]
BY DEF ControlOK, Labels, Goto

LEMMA SameFrames == UNCHANGED accepted => (Completed' <=> Completed) /\ Last' = Last
BY DEF Completed, Last

\* What the host accepts becomes the last payload.
LEMMA Appended ==
    ASSUME HostOK, EmissionOK, accepted' = Append(accepted, batch)
    PROVE  /\ accepted' # <<>> /\ Last' = batch
           /\ Completed' <=> Completed \/ batch.kind = "completed"
           /\ Len(accepted') = Len(accepted) + 1 /\ accepted'[Len(accepted')] = batch
<1>1. accepted \in Seq(Batches) /\ batch \in Batches
  BY DEF HostOK, EmissionOK
<1>2. /\ Len(accepted') = Len(accepted) + 1 /\ accepted'[Len(accepted')] = batch
      /\ \A i \in 1 .. Len(accepted) : accepted'[i] = accepted[i]
      /\ DOMAIN accepted = 1 .. Len(accepted) /\ DOMAIN accepted' = 1 .. Len(accepted')
      /\ Len(accepted) \in Nat
  BY <1>1
<1>3. accepted' # <<>>
  BY <1>2
<1>4. Completed' <=> Completed \/ batch.kind = "completed"
  BY <1>2 DEF Completed
<1>5. QED
  BY <1>2, <1>3, <1>4 DEF Last

LEMMA OwnClasses ==
    /\ IsRequestScoped(Stopped) /\ ~IsRequestScoped(TimedOut)
    /\ Disconnected.kind = "client_disconnected"
BY DEF IsRequestScoped, Stopped, TimedOut, Disconnected

LEMMA LastCompletes ==
    HostOK /\ accepted # <<>> /\ Last.kind = "completed" => Completed
<1> SUFFICES ASSUME HostOK, accepted # <<>>, Last.kind = "completed" PROVE Completed
  OBVIOUS
<1>1. Len(accepted) \in DOMAIN accepted
  BY DEF HostOK
<1>2. QED
  BY <1>1 DEF Completed, Last

\* Only no error at all is recorded as completed.
LEMMA ErrorNotCompleted == \A e : e # NoErr => ExitForError(e) # "completed"
BY DEF ExitForError

LEMMA FullInit == Init => Full
<1> SUFFICES ASSUME Init PROVE Full
  OBVIOUS
<1>0. PICK bound \in DeadlineModes :
          pc = [rt |-> "start", hb |-> IF HeartbeatOn THEN "wait" ELSE "done",
                life |-> "watch", dl |-> IF bound THEN "watch" ELSE "done"]
  BY DEF Init
<1>1. pc["rt"] = "start" /\ pc["hb"] \in {"wait", "done"} /\ accepted = <<>> /\ ~Completed
  <2>1. accepted = <<>>
    BY DEF Init
  <2>2. ~Completed
    BY <2>1 DEF Completed
  <2>3. QED
    BY <1>0, <2>1, <2>2
<1>2. Inv
  BY InvInit
<1>3. MutexInv /\ BatchInv /\ StreamInv
  BY <1>1 DEF Init, MutexInv, BatchInv, StreamInv, Emitting, Closing, Locked
<1>4. FailInv /\ RecordInv
  BY <1>1 DEF Init, FailInv, RecordInv, Closing, Watchdogs
<1>5. QED
  BY <1>2, <1>3, <1>4 DEF Full

----------------------------------------------------------------------------
(* The steps of emitLocked.                                                *)

LEMMA EmissionFull == Full /\ Emission => Parts'
<1> SUFFICES ASSUME Full, Emission PROVE Parts'
  OBVIOUS
<1> USE DEF Full, Parts
<1>1. CASE EmitCheck
  <2>1. /\ stage = "check" /\ stage' = IF CutOff THEN "err" ELSE "host"
        /\ UNCHANGED <<mu, pc, sequence, started, closed, disconnected, responseID,
                       endOutcome, endErr, failure, closeErr, record, closeOnce, forced,
                       forceReason, abortErr, batch, accepted>>
    BY <1>1 DEF EmitCheck, fields, endings, forcing, host
  <2>2. (Completed' <=> Completed) /\ Last' = Last
    BY <2>1, SameFrames
  <2>3. MutexInv' /\ BatchInv' /\ StreamInv'
    BY <2>1, <2>2 DEF MutexInv, BatchInv, StreamInv, CutOff
  <2>4. FailInv'
    BY <2>1, <2>2 DEF FailInv
  <2>5. RecordInv'
    BY <2>1, <2>2 DEF RecordInv
  <2>6. QED
    BY <2>3, <2>4, <2>5
<1>2. CASE HostAccepts
  <2>1. /\ stage = "host" /\ stage' = "ok" /\ accepted' = Append(accepted, batch)
        /\ sequence' = batch.first + batch.n
        /\ UNCHANGED <<mu, pc, started, closed, disconnected, responseID,
                       endOutcome, endErr, failure, closeErr, record, closeOnce, forced,
                       forceReason, abortErr, batch>>
    BY <1>2 DEF HostAccepts, endings, forcing
  <2>2. /\ accepted' # <<>> /\ Last' = batch
        /\ Completed' <=> Completed \/ batch.kind = "completed"
    BY <2>1, Appended DEF Inv, TypeInv, TypeOK
  <2>3. pc["rt"] \notin Closing
    BY <2>1 DEF MutexInv, Emitting, Closing
  <2>4. MutexInv' /\ BatchInv'
    BY <2>1, <2>2 DEF MutexInv, BatchInv
  <2>5. StreamInv'
    BY <2>1, <2>2 DEF StreamInv, BatchInv, CutOff
  <2>6. FailInv' /\ RecordInv'
    BY <2>1, <2>2, <2>3 DEF FailInv, RecordInv, BatchInv
  <2>7. QED
    BY <2>4, <2>5, <2>6
<1>3. CASE HostRefuses
  <2>1. /\ stage = "host" /\ stage' = "err" /\ disconnected' = TRUE
        /\ UNCHANGED <<mu, pc, sequence, started, closed, responseID,
                       endOutcome, endErr, failure, closeErr, record, closeOnce, forced,
                       forceReason, abortErr, batch, accepted>>
    BY <1>3 DEF HostRefuses, endings, forcing, host
  <2>2. (Completed' <=> Completed) /\ Last' = Last
    BY <2>1, SameFrames
  <2>3. MutexInv' /\ BatchInv' /\ StreamInv'
    BY <2>1, <2>2 DEF MutexInv, BatchInv, StreamInv, CutOff
  <2>4. FailInv'
    BY <2>1, <2>2 DEF FailInv
  <2>5. RecordInv'
    BY <2>1, <2>2 DEF RecordInv
  <2>6. QED
    BY <2>3, <2>4, <2>5
<1>4. QED
  BY <1>1, <1>2, <1>3 DEF Emission

----------------------------------------------------------------------------
(* The steps of the round trip before it ends, and of the heartbeat.       *)

\* Before the ending nothing is known of how the stream ends.
LEMMA CallKeeps ==
    ASSUME Full, UNCHANGED <<accepted, endings, forcing>>,
           pc["rt"] \notin Closing \cup {"failing", "replaying"},
           pc'["rt"] \notin Closing \cup {"failing"},
           pc["rt"] = "fail" => pc'["rt"] = "fail"
    PROVE  FailInv' /\ RecordInv'
<1>1. (Completed' <=> Completed) /\ Last' = Last
  BY SameFrames
<1>2. FailInv'
  BY <1>1 DEF Full, FailInv, endings, forcing
<1>3. RecordInv'
  BY <1>1 DEF Full, RecordInv, Closing, endings, forcing
<1>4. QED
  BY <1>2, <1>3

\* openLocked is called on a stream that has not started.
LEMMA OpenKeeps ==
    ASSUME Full, NEW id \in Ids, ~started, OpenWith(id), UNCHANGED <<accepted, forcing>>,
           stage = "idle", pc["rt"] \notin Closing \cup {"failing", "replaying"},
           pc'["rt"] \notin {"start", "failing", "replaying"}
    PROVE  BatchInv' /\ StreamInv'
<1>1. /\ started' = TRUE /\ responseID' = id /\ stage' = "check"
      /\ batch' = Render("prologue", TRUE, id)
      /\ UNCHANGED <<sequence, closed, disconnected>>
  BY DEF OpenWith, CallEmit
<1>2. /\ batch'.kind = "prologue" /\ batch'.opens = TRUE /\ batch'.id = id
      /\ batch'.first = sequence
  BY <1>1 DEF Render
<1>3. accepted = <<>>
  BY DEF Full, StreamInv
<1>4. Last' = Last
  BY SameFrames
<1>5. BatchInv'
  BY <1>1, <1>2, <1>3 DEF BatchInv
<1>6. StreamInv'
  BY <1>1, <1>2, <1>3, <1>4 DEF Full, StreamInv
<1>7. QED
  BY <1>5, <1>6

\* A payload that continues a started stream.
LEMMA ContinueKeeps ==
    ASSUME Full, NEW k \in Kinds \ {"completed", "failed"}, started,
           CallEmit(Render(k, FALSE, responseID)),
           UNCHANGED <<fields, accepted, forcing>>, stage \in {"idle", "ok"},
           pc["rt"] \notin Closing \cup {"failing", "replaying"},
           pc'["rt"] \notin {"start", "failing", "replaying"}
    PROVE  BatchInv' /\ StreamInv'
<1>1. /\ stage' = "check" /\ batch' = Render(k, FALSE, responseID)
      /\ UNCHANGED <<sequence, started, closed, disconnected, responseID>>
  BY DEF CallEmit, fields
<1>2. /\ batch'.kind = k /\ batch'.opens = FALSE /\ batch'.id = responseID
      /\ batch'.first = sequence
  BY <1>1 DEF Render
<1>3. Last' = Last
  BY SameFrames
<1>4. BatchInv'
  BY <1>1, <1>2 DEF BatchInv
<1>5. StreamInv'
  BY <1>1, <1>3 DEF Full, StreamInv, CutOff, forcing
<1>6. QED
  BY <1>4, <1>5

\* No payload is being handed over.
LEMMA IdleKeeps ==
    ASSUME Full, UNCHANGED <<fields, accepted, forcing>>,
           stage' = "idle", stage \notin {"check", "host"},
           pc["rt"] \notin Closing \cup {"failing", "replaying"},
           pc'["rt"] # "start"
    PROVE  BatchInv' /\ StreamInv'
<1>1. Last' = Last
  BY SameFrames
<1>2. BatchInv'
  BY DEF BatchInv
<1>3. StreamInv'
  BY <1>1 DEF Full, StreamInv, CutOff, fields, forcing
<1>4. QED
  BY <1>2, <1>3

\* The round trip moves on without emitting; the heartbeat may be emitting.
LEMMA QuietKeeps ==
    ASSUME Full, NEW from \in {"start", "run", "refused"},
           NEW to \in {"run", "refused", "finish", "fail"},
           pc["rt"] = from, Goto("rt", to),
           UNCHANGED <<mu, fields, emission, accepted, forcing>>
    PROVE  MutexInv' /\ BatchInv' /\ StreamInv' /\ pc'["rt"] = to
<1>1. ControlOK
  BY DEF Full, Inv, TypeInv, TypeOK
<1>2. pc'["rt"] = to /\ pc'["hb"] = pc["hb"]
  BY <1>1, MovesAlone
<1>3. MutexInv'
  BY <1>2 DEF Full, MutexInv, Emitting, Closing, Locked, emission
<1>4. Last' = Last
  BY SameFrames
<1>5. BatchInv'
  BY <1>2, <1>4 DEF Full, BatchInv, fields, emission
<1>6. StreamInv'
  BY <1>2, <1>4 DEF Full, StreamInv, CutOff, Closing, fields, emission, forcing
<1>7. QED
  BY <1>2, <1>3, <1>5, <1>6

\* Whoever takes ss.mu finds no payload being handed over.
LEMMA FreeIsIdle ==
    Full /\ mu = "free" => /\ stage = "idle" /\ pc["hb"] # "beating"
                           /\ pc["rt"] \notin Emitting
BY DEF Full, MutexInv, Locked, Emitting, Closing

LEMMA CallFull == Full /\ RoundTripCall => Parts'
<1> SUFFICES ASSUME Full, RoundTripCall PROVE Parts'
  OBVIOUS
<1> USE DEF At, Parts
<1>0. ControlOK /\ FieldsOK
  BY DEF Full, Inv, TypeInv, TypeOK
<1> DEFINE before == {"start", "started", "run", "opening", "deliverOpen", "deliver",
                      "refused", "finish"}
<1>1. ASSUME pc["rt"] \in before, pc'["rt"] \in before, UNCHANGED <<accepted, endings, forcing>>
      PROVE  FailInv' /\ RecordInv'
  BY <1>1, CallKeeps DEF Closing
<1>2. ASSUME NEW l \in Emitting \ {"failing", "replaying"}, Lock("rt", l)
      PROVE  /\ stage = "idle" /\ pc'["rt"] = l
             /\ pc["rt"] \in before => (stage' # "idle" => MutexInv')
  <2>1. pc'["rt"] = l /\ pc'["hb"] = pc["hb"] /\ mu = "free" /\ mu' = "rt"
    BY <1>0, <1>2, MovesAlone DEF Lock
  <2>2. stage = "idle" /\ pc["hb"] # "beating"
    BY <2>1, FreeIsIdle
  <2>3. ASSUME stage' # "idle" PROVE MutexInv'
    BY <2>1, <2>2, <2>3 DEF MutexInv, Emitting, Closing, Locked
  <2>4. QED
    BY <2>1, <2>2, <2>3
<1>3. CASE StartIdle
  BY <1>1, <1>3, QuietKeeps DEF StartIdle, host
<1>4. CASE Start
  <2>1. /\ pc["rt"] = "start" /\ Lock("rt", "started") /\ OpenWith(Synthetic)
        /\ UNCHANGED <<accepted, endings, forcing>>
    BY <1>4 DEF Start, host
  <2>2. ~started /\ stage' # "idle"
    BY <2>1 DEF Full, StreamInv, OpenWith, CallEmit
  <2>3. stage = "idle" /\ pc'["rt"] = "started" /\ MutexInv'
    BY <1>2, <2>1, <2>2 DEF Emitting
  <2>4. BatchInv' /\ StreamInv'
    BY <2>1, <2>2, <2>3, OpenKeeps DEF Ids, Closing
  <2>5. QED
    BY <1>1, <2>1, <2>3, <2>4
<1>5. CASE DeliverOpened
  <2>1. /\ pc["rt"] = "deliverOpen" /\ stage = "ok" /\ Goto("rt", "deliver")
        /\ CallEmit(Render("frames", FALSE, responseID))
        /\ UNCHANGED <<mu, fields, accepted, endings, forcing>>
    BY <1>5 DEF DeliverOpened, host
  <2>2. pc'["rt"] = "deliver" /\ pc'["hb"] = pc["hb"]
    BY <1>0, <2>1, MovesAlone
  <2>3. started /\ stage' # "idle"
    BY <2>1 DEF Full, StreamInv, BatchInv, CallEmit, Closing
  <2>4. MutexInv'
    BY <2>1, <2>2, <2>3 DEF Full, MutexInv, Emitting, Closing, Locked
  <2>5. BatchInv' /\ StreamInv'
    BY <2>1, <2>2, <2>3, ContinueKeeps DEF Kinds, Closing
  <2>6. QED
    BY <1>1, <2>1, <2>2, <2>4, <2>5
<1>6. CASE RoundTripReturns
  <2>1. PICK l \in {"run", "refused"} : mu' = "free" /\ Goto("rt", l)
    BY <1>6 DEF RoundTripReturns, EmitReturns, Unlock
  <2>2. /\ pc["rt"] \in {"started", "opening", "deliverOpen", "deliver"}
        /\ stage \in {"ok", "err"} /\ EmitReturned
        /\ UNCHANGED <<fields, endings, forcing, accepted>>
    BY <1>6 DEF RoundTripReturns, EmitReturns, host
  <2>3. pc'["rt"] = l /\ pc'["hb"] = pc["hb"] /\ stage' = "idle"
    BY <1>0, <2>1, <2>2, MovesAlone DEF EmitReturned
  <2>4. MutexInv'
    BY <2>1, <2>2, <2>3 DEF Full, MutexInv, Emitting, Closing, Locked
  <2>5. BatchInv' /\ StreamInv'
    BY <2>1, <2>2, <2>3, IdleKeeps DEF Closing
  <2>6. QED
    BY <1>1, <2>1, <2>2, <2>3, <2>4, <2>5
<1>7. CASE Finish
  BY <1>1, <1>7, QuietKeeps DEF Finish, host
<1>8. ASSUME NEW id \in Ids, Open(id) PROVE Parts'
  <2>1. /\ pc["rt"] = "run" /\ ~started /\ Lock("rt", "opening") /\ OpenWith(id)
        /\ UNCHANGED <<accepted, endings, forcing>>
    BY <1>8 DEF Open, host
  <2>2. stage' # "idle"
    BY <2>1 DEF OpenWith, CallEmit
  <2>3. stage = "idle" /\ pc'["rt"] = "opening" /\ MutexInv'
    BY <1>2, <2>1, <2>2 DEF Emitting
  <2>4. BatchInv' /\ StreamInv'
    BY <2>1, <2>2, <2>3, OpenKeeps DEF Closing
  <2>5. QED
    BY <1>1, <2>1, <2>3, <2>4
<1>9. ASSUME NEW id \in Ids, Deliver(id) PROVE Parts'
  <2>1. pc["rt"] = "run" /\ UNCHANGED <<accepted, endings, forcing>>
    BY <1>9 DEF Deliver, host
  <2>2. CASE Goto("rt", "refused") /\ UNCHANGED <<mu, fields, emission>>
    BY <1>1, <2>1, <2>2, QuietKeeps
  <2>3. CASE ~started /\ Lock("rt", "deliverOpen") /\ OpenWith(id)
    <3>1. stage' # "idle"
      BY <2>3 DEF OpenWith, CallEmit
    <3>2. stage = "idle" /\ pc'["rt"] = "deliverOpen" /\ MutexInv'
      BY <1>2, <2>1, <2>3, <3>1 DEF Emitting
    <3>3. BatchInv' /\ StreamInv'
      BY <2>1, <2>3, <3>1, <3>2, OpenKeeps DEF Closing
    <3>4. QED
      BY <1>1, <2>1, <3>2, <3>3
  <2>4. CASE /\ started /\ Lock("rt", "deliver")
             /\ CallEmit(Render("frames", FALSE, responseID)) /\ UNCHANGED fields
    <3>1. stage' # "idle"
      BY <2>4 DEF CallEmit
    <3>2. stage = "idle" /\ pc'["rt"] = "deliver" /\ MutexInv'
      BY <1>2, <2>1, <2>4, <3>1 DEF Emitting
    <3>3. BatchInv' /\ StreamInv'
      BY <2>1, <2>4, <3>1, <3>2, ContinueKeeps DEF Kinds, Closing
    <3>4. QED
      BY <1>1, <2>1, <3>2, <3>3
  <2>5. QED
    BY <1>9, <2>2, <2>3, <2>4 DEF Deliver
<1>10. ASSUME NEW e \in Failures \cup {Disconnected}, Fail(e) PROVE Parts'
  <2>1. /\ pc["rt"] \in {"run", "refused"} /\ Goto("rt", "fail") /\ failure' = e
        /\ UNCHANGED <<mu, fields, emission, accepted, forcing, forceReason, abortErr,
                       closeOnce, forced, endOutcome, endErr, closeErr, record>>
    BY <1>10 DEF Fail, host, forcing
  <2>2. MutexInv' /\ BatchInv' /\ StreamInv' /\ pc'["rt"] = "fail"
    BY <2>1, QuietKeeps
  <2>3. (Completed' <=> Completed) /\ Last' = Last
    BY <2>1, SameFrames
  <2>4. FailInv'
    BY <2>1, <2>2, <2>3 DEF Full, FailInv, Closing
  <2>5. RecordInv'
    BY <2>1, <2>2, <2>3 DEF Full, RecordInv, Closing
  <2>6. QED
    BY <2>2, <2>4, <2>5
<1>11. QED
  BY <1>3, <1>4, <1>5, <1>6, <1>7, <1>8, <1>9, <1>10 DEF RoundTripCall

LEMMA HeartbeatFull == Full /\ (Tick \/ Beaten \/ HeartbeatStops) => Parts'
<1> SUFFICES ASSUME Full, Tick \/ Beaten \/ HeartbeatStops PROVE Parts'
  OBVIOUS
<1> USE DEF At, Parts
<1>0. ControlOK
  BY DEF Full, Inv, TypeInv, TypeOK
<1>1. UNCHANGED <<accepted, endings, forcing>>
  BY DEF Tick, Beaten, EmitReturns, HeartbeatStops, host
<1>2. PICK l \in {"wait", "beating", "done"} : Goto("hb", l)
  BY DEF Tick, Beaten, EmitReturns, HeartbeatStops, Lock, Unlock
<1>3. pc'["hb"] = l /\ pc'["rt"] = pc["rt"]
  BY <1>0, <1>2, MovesAlone
<1>4. (Completed' <=> Completed) /\ Last' = Last
  BY <1>1, SameFrames
<1>5. CASE Tick
  <2>1. /\ pc["hb"] = "wait" /\ mu = "free" /\ mu' = "hb" /\ l = "beating"
        /\ pc["rt"] \notin {"start", "started"}
    BY <1>0, <1>2, <1>3, <1>5, MovesAlone DEF Tick, Lock
  <2>2. stage = "idle" /\ pc["rt"] \notin Emitting
    BY <2>1, FreeIsIdle
  <2>3. pc["rt"] \notin Closing \cup {"failing", "replaying"}
    BY <2>1 DEF Full, MutexInv
  <2>4. \/ ~started /\ OpenWith(Synthetic)
        \/ started /\ CallEmit(Render("beat", FALSE, responseID)) /\ UNCHANGED fields
    BY <1>5 DEF Tick
  <2>5. stage' # "idle"
    BY <2>4 DEF OpenWith, CallEmit
  <2>6. MutexInv'
    BY <1>3, <2>1, <2>2, <2>3, <2>5 DEF MutexInv, Locked, Emitting, Closing
  <2>7. BatchInv' /\ StreamInv'
    BY <1>1, <1>3, <2>1, <2>2, <2>3, <2>4, OpenKeeps, ContinueKeeps DEF Ids, Kinds
  <2>8. FailInv' /\ RecordInv'
    BY <1>1, <1>3, <2>3, CallKeeps
  <2>9. QED
    BY <2>6, <2>7, <2>8
<1>6. CASE Beaten
  <2>1. /\ pc["hb"] = "beating" /\ mu' = "free" /\ l # "beating"
        /\ stage \in {"ok", "err"} /\ stage' = "idle" /\ UNCHANGED fields
    BY <1>0, <1>2, <1>3, <1>6, MovesAlone DEF Beaten, EmitReturns, Unlock, EmitReturned
  <2>2. pc["rt"] \notin Closing \cup {"failing", "replaying"} /\ mu = "hb"
    BY <2>1 DEF Full, MutexInv
  <2>3. MutexInv'
    BY <1>3, <2>1, <2>2 DEF Full, MutexInv, Locked, Emitting, Closing
  <2>4. BatchInv'
    BY <2>1 DEF BatchInv
  <2>5. StreamInv'
    BY <1>1, <1>3, <1>4, <2>1, <2>2 DEF Full, StreamInv, CutOff, fields, forcing
  <2>6. FailInv' /\ RecordInv'
    BY <1>1, <1>3, <2>2, CallKeeps
  <2>7. QED
    BY <2>3, <2>4, <2>5, <2>6
<1>7. CASE HeartbeatStops
  <2>1. /\ pc["hb"] = "wait" /\ l = "done"
        /\ UNCHANGED <<mu, fields, stage, batch>>
    BY <1>0, <1>3, <1>7, MovesAlone DEF HeartbeatStops, emission
  <2>2. MutexInv'
    BY <1>3, <2>1 DEF Full, MutexInv
  <2>3. BatchInv' /\ StreamInv'
    BY <1>1, <1>3, <1>4, <2>1 DEF Full, BatchInv, StreamInv, CutOff, fields, forcing
  <2>4. FailInv'
    BY <1>1, <1>3, <1>4, <2>1 DEF Full, FailInv, endings, forcing
  <2>5. RecordInv'
    BY <1>1, <1>3, <1>4, <2>1 DEF Full, RecordInv, endings, forcing
  <2>6. QED
    BY <2>2, <2>3, <2>4, <2>5
<1>8. QED
  BY <1>5, <1>6, <1>7

----------------------------------------------------------------------------
(* The steps of the ending, of the watchdogs and of the environment.       *)

\* failLocked, reached by fail and by a stopped finish.
LEMMA FailLockedFull ==
    ASSUME Full, NEW e \in Failures \cup {Disconnected, Stopped}, FailLocked(e),
           pc["rt"] \in {"fail", "finish"}, pc["hb"] = "done",
           UNCHANGED <<accepted, forcing>>
    PROVE  Parts'
<1>1. ControlOK
  BY DEF Full, Inv, TypeInv, TypeOK
<1>2. PICK l \in {"closing", "failing"} : Lock("rt", l)
  BY DEF FailLocked
<1>3. /\ pc'["rt"] = l /\ pc'["hb"] = "done" /\ mu = "free" /\ mu' = "rt" /\ stage = "idle"
  BY <1>1, <1>2, MovesAlone, FreeIsIdle DEF Lock
<1>4. /\ failure' = e /\ endErr' = e /\ endOutcome' \in {"", "cancelled"}
      /\ UNCHANGED <<fields, record>>
      /\ closeErr' = NoErr \/ (e.kind # "client_disconnected" /\ closeErr' = e /\ ~IsRequestScoped(e))
  BY DEF FailLocked
<1>5. e # NoErr
  BY OwnErrors, SessionAssumption DEF SessionAssumption
<1>6. (Completed' <=> Completed) /\ Last' = Last
  BY SameFrames
<1>7. \/ l = "closing" /\ UNCHANGED emission
      \/ l = "failing" /\ CallEmit(Render("failed", ~started, responseID))
  BY <1>1, <1>3, MovesAlone DEF FailLocked, Lock
<1>8. MutexInv'
  BY <1>3, <1>7 DEF MutexInv, CallEmit, Emitting, Closing, Locked, emission
<1>9. BatchInv' /\ StreamInv'
  <2>1. CASE l = "closing" /\ UNCHANGED emission
    BY <1>3, <1>4, <1>6, <2>1 DEF Full, BatchInv, StreamInv, CutOff, Closing, fields,
       emission, forcing
  <2>2. CASE l = "failing" /\ CallEmit(Render("failed", ~started, responseID))
    <3>1. /\ stage' = "check" /\ batch'.kind = "failed" /\ batch'.opens = ~started
          /\ batch'.id = responseID /\ batch'.first = sequence
      BY <2>2 DEF CallEmit, Render
    <3>2. ~started => accepted = <<>>
      BY DEF Full, StreamInv, Closing
    <3>3. BatchInv'
      BY <1>3, <1>4, <2>2, <3>1, <3>2 DEF BatchInv, fields, Full, Inv, TypeInv, TypeOK, FieldsOK
    <3>4. StreamInv'
      BY <1>3, <1>4, <1>6, <2>2, <3>1 DEF Full, StreamInv, CutOff, Closing, fields, forcing
    <3>5. QED
      BY <3>3, <3>4
  <2>3. QED
    BY <1>7, <2>1, <2>2
<1>10. FailInv'
  BY <1>3, <1>4, <1>5, OwnClasses DEF Full, FailInv, Closing, forcing
<1>11. RecordInv'
  BY <1>3, <1>4, <1>6 DEF Full, RecordInv, Closing, forcing
<1>12. QED
  BY <1>8, <1>9, <1>10, <1>11 DEF Parts

\* What closing leaves as it is.
LEMMA ClosingKeeps ==
    ASSUME Full, UNCHANGED <<sequence, started, disconnected, responseID, accepted, emission>>,
           closed => closed', forced => forced',
           pc["rt"] \in Closing, pc'["rt"] \in Closing, pc'["hb"] = pc["hb"]
    PROVE  BatchInv' /\ StreamInv'
<1>1. stage = "idle" /\ stage' = "idle"
  BY DEF Full, MutexInv, Closing, Emitting, emission
<1>2. Last' = Last
  BY SameFrames
<1>3. BatchInv'
  BY <1>1 DEF BatchInv
<1>4. StreamInv'
  BY <1>1, <1>2 DEF Full, StreamInv, CutOff, Closing
<1>5. QED
  BY <1>3, <1>4

LEMMA EndingFull == Full /\ (Ending \/ LogReturns) => Parts'
<1> SUFFICES ASSUME Full, Ending \/ LogReturns PROVE Parts'
  OBVIOUS
<1> USE DEF At, Parts
<1>0. ControlOK
  BY DEF Full, Inv, TypeInv, TypeOK
<1>1. CASE FailBoundary
  <2>1. /\ pc["rt"] = "fail" /\ pc["hb"] = "done" /\ FailLocked(failure)
        /\ UNCHANGED <<accepted, forcing>>
    BY <1>1 DEF FailBoundary, HeartbeatJoined, host
  <2>2. failure \in Failures \cup {Disconnected, Stopped}
    BY <2>1 DEF Full, Inv, TypeInv, EndingInv, FailInv
  <2>3. QED
    BY <2>1, <2>2, FailLockedFull
<1>2. CASE FailEmitted
  <2>1. /\ pc["rt"] = "failing" /\ stage \in {"ok", "err"} /\ Goto("rt", "closing")
        /\ endOutcome' = IF stage = "err" THEN "cancelled" ELSE endOutcome
        /\ stage' = "idle"
        /\ UNCHANGED <<mu, fields, endErr, failure, closeErr, record, forcing, accepted>>
    BY <1>2 DEF FailEmitted, EmitReturned, host
  <2>2. pc'["rt"] = "closing" /\ pc'["hb"] = pc["hb"]
    BY <1>0, <2>1, MovesAlone
  <2>3. (Completed' <=> Completed) /\ Last' = Last
    BY <2>1, SameFrames
  <2>4. MutexInv' /\ BatchInv'
    BY <2>1, <2>2 DEF Full, MutexInv, BatchInv, Emitting, Closing, Locked
  <2>5. StreamInv'
    BY <2>1, <2>2, <2>3 DEF Full, StreamInv, CutOff, Closing, fields, forcing
  <2>6. FailInv' /\ RecordInv'
    BY <2>1, <2>2, <2>3 DEF Full, FailInv, RecordInv, Closing, forcing
  <2>7. QED
    BY <2>4, <2>5, <2>6
<1>3. CASE FinishBoundary
  <2>1. /\ pc["rt"] = "finish" /\ pc["hb"] = "done" /\ UNCHANGED <<accepted, forcing>>
    BY <1>3 DEF FinishBoundary, HeartbeatJoined, host
  <2>2. (Completed' <=> Completed) /\ Last' = Last
    BY <2>1, SameFrames
  <2>3. CASE FailLocked(Stopped)
    BY <2>1, <2>3, FailLockedFull
  <2>4. CASE /\ Lock("rt", "closing") /\ closed' = TRUE
             /\ endOutcome' = "cancelled" /\ endErr' = NoErr /\ closeErr' = NoErr
             /\ UNCHANGED <<sequence, started, disconnected, responseID, failure,
                            record, emission>>
    <3>1. /\ pc'["rt"] = "closing" /\ pc'["hb"] = "done" /\ mu' = "rt"
          /\ stage = "idle" /\ stage' = "idle"
      BY <1>0, <2>1, <2>4, MovesAlone, FreeIsIdle DEF Lock, emission
    <3>2. MutexInv' /\ BatchInv'
      BY <3>1 DEF MutexInv, BatchInv, Emitting, Closing, Locked
    <3>3. StreamInv'
      BY <2>1, <2>2, <2>4, <3>1 DEF Full, StreamInv, CutOff, Closing
    <3>4. FailInv' /\ RecordInv'
      BY <2>1, <2>2, <2>4, <3>1 DEF Full, FailInv, RecordInv, Closing, forcing
    <3>5. QED
      BY <3>2, <3>3, <3>4
  <2>5. CASE /\ Lock("rt", "replaying")
             /\ \E id \in IF started THEN {responseID} ELSE Ids :
                   CallEmit(Render("completed", ~started, id))
             /\ UNCHANGED <<fields, endings>>
    <3>1. PICK id \in IF started THEN {responseID} ELSE Ids :
             CallEmit(Render("completed", ~started, id))
      BY <2>5
    <3>2. /\ pc'["rt"] = "replaying" /\ pc'["hb"] = "done" /\ mu' = "rt" /\ stage = "idle"
      BY <1>0, <2>1, <2>5, MovesAlone, FreeIsIdle DEF Lock
    <3>3. /\ stage' = "check" /\ batch'.kind = "completed" /\ batch'.opens = ~started
          /\ batch'.id = id /\ batch'.first = sequence
      BY <3>1 DEF CallEmit, Render
    <3>4. ~started => accepted = <<>>
      BY <2>1 DEF Full, StreamInv, Closing
    <3>5. MutexInv'
      BY <3>2, <3>3 DEF MutexInv, Emitting, Closing, Locked
    <3>6. BatchInv'
      BY <2>1, <2>5, <3>1, <3>2, <3>3, <3>4 DEF BatchInv, fields, Full, Inv, TypeInv,
         TypeOK, FieldsOK
    <3>7. StreamInv'
      BY <2>1, <2>2, <2>5, <3>2, <3>3 DEF Full, StreamInv, CutOff, Closing, fields, forcing
    <3>8. FailInv' /\ RecordInv'
      BY <2>1, <2>2, <2>5, <3>2 DEF Full, FailInv, RecordInv, Closing, endings, forcing
    <3>9. QED
      BY <3>5, <3>6, <3>7, <3>8
  <2>6. QED
    BY <1>3, <2>3, <2>4, <2>5 DEF FinishBoundary
<1>4. CASE Replayed
  <2>1. /\ pc["rt"] = "replaying" /\ stage \in {"ok", "err"} /\ Goto("rt", "closing")
        /\ closed' = TRUE /\ endOutcome' = ReplayOutcome /\ endErr' = NoErr
        /\ closeErr' = NoErr /\ stage' = "idle"
        /\ UNCHANGED <<mu, sequence, started, disconnected, responseID, failure, record,
                       forcing, accepted>>
    BY <1>4 DEF Replayed, EmitReturned, host
  <2>2. pc'["rt"] = "closing" /\ pc'["hb"] = pc["hb"]
    BY <1>0, <2>1, MovesAlone
  <2>3. (Completed' <=> Completed) /\ Last' = Last
    BY <2>1, SameFrames
  <2>4. MutexInv' /\ BatchInv'
    BY <2>1, <2>2 DEF Full, MutexInv, BatchInv, Emitting, Closing, Locked
  <2>5. StreamInv'
    BY <2>1, <2>2, <2>3 DEF Full, StreamInv, CutOff, Closing
  <2>6. stage = "ok" => Completed /\ ~disconnected
    BY <2>1, LastCompletes DEF Full, BatchInv, Inv, TypeInv, TypeOK
  <2>7. stage = "err" => ~Completed
    BY <2>1 DEF Full, RecordInv, Closing
  <2>8. \/ endOutcome' = "completed" /\ stage = "ok"
        \/ endOutcome' = "cancelled" /\ (stage = "err" \/ forceReason # NoErr)
    BY <2>1, <2>6 DEF ReplayOutcome, Full, Inv, ReasonInv
  <2>9. FailInv'
    BY <2>1, <2>2, <2>3, <2>6, <2>8 DEF Full, FailInv, Closing, forcing
  <2>10. RecordInv'
    BY <2>1, <2>2, <2>3, <2>7, <2>8 DEF Full, RecordInv, Closing, forcing
  <2>11. QED
    BY <2>4, <2>5, <2>9, <2>10
<1>5. CASE CloseStream
  <2>1. /\ pc["rt"] = "closing" /\ Goto("rt", IF forced THEN "close" ELSE "hook")
        /\ UNCHANGED <<mu, fields, endings, forcing, emission, accepted>>
    BY <1>5 DEF CloseStream, host
  <2>2. pc'["rt"] = (IF forced THEN "close" ELSE "hook") /\ pc'["hb"] = pc["hb"]
    BY <1>0, <2>1, MovesAlone
  <2>3. (Completed' <=> Completed) /\ Last' = Last
    BY <2>1, SameFrames
  <2>4. MutexInv'
    BY <2>1, <2>2 DEF Full, MutexInv, Emitting, Closing, Locked, emission
  <2>5. BatchInv' /\ StreamInv'
    BY <2>1, <2>2, ClosingKeeps DEF Closing, fields, forcing
  <2>6. FailInv' /\ RecordInv'
    BY <2>1, <2>2, <2>3 DEF Full, FailInv, RecordInv, Closing, endings, forcing
  <2>7. QED
    BY <2>4, <2>5, <2>6
<1>6. CASE OnEnd
  <2> DEFINE exit == IF endOutcome # "" THEN endOutcome
                     ELSE ExitForError(IF endErr # NoErr THEN endErr ELSE closeErr)
  <2>1. /\ pc["rt"] = "hook" /\ Goto("rt", "logging") /\ Summarize(exit)
        /\ UNCHANGED <<mu, fields, endOutcome, endErr, failure, closeErr, forcing,
                       emission, accepted>>
    BY <1>6 DEF OnEnd, host
  <2>2. pc'["rt"] = "logging" /\ pc'["hb"] = pc["hb"]
    BY <1>0, <2>1, MovesAlone
  <2>3. (Completed' <=> Completed) /\ Last' = Last
    BY <2>1, SameFrames
  <2>4. MutexInv'
    BY <2>1, <2>2 DEF Full, MutexInv, Emitting, Closing, Locked, emission
  <2>5. BatchInv' /\ StreamInv'
    BY <2>1, <2>2, ClosingKeeps DEF Closing, fields, forcing
  <2>6. record = "none"
    BY <2>1 DEF Full, RecordInv, Closing
  <2>7. exit \in Exits
    BY ExitsAreExits DEF Full, Inv, TypeInv, TypeOK, EndingsOK, Outcomes, Exits
  <2>8. exit = "completed" <=> endOutcome = "completed"
    BY <2>1, ErrorNotCompleted DEF Full, FailInv, Closing
  <2> HIDE DEF exit
  <2>9. /\ record' = IF forceReason # NoErr THEN ExitForError(forceReason) ELSE exit
        /\ record' # "none"
    BY <2>1, <2>6, <2>7, ExitsAreExits DEF Summarize, Exits
  <2>10. /\ forceReason = NoErr => (record' = "completed" <=> endOutcome = "completed")
         /\ forceReason # NoErr => record' # "completed"
    BY <2>8, <2>9, ErrorNotCompleted
  <2>11. FailInv'
    BY <2>1, <2>2, <2>3 DEF Full, FailInv, Closing, forcing
  <2>12. RecordInv'
    BY <2>1, <2>2, <2>3, <2>9, <2>10 DEF Full, FailInv, RecordInv, Closing, forcing
  <2>13. QED
    BY <2>4, <2>5, <2>11, <2>12
<1>7. CASE LogReturns
  <2>1. /\ pc["rt"] = "logging" /\ Goto("rt", "close")
        /\ UNCHANGED <<mu, fields, endings, forcing, emission, accepted>>
    BY <1>7 DEF LogReturns, host
  <2>2. pc'["rt"] = "close" /\ pc'["hb"] = pc["hb"]
    BY <1>0, <2>1, MovesAlone
  <2>3. (Completed' <=> Completed) /\ Last' = Last
    BY <2>1, SameFrames
  <2>4. MutexInv'
    BY <2>1, <2>2 DEF Full, MutexInv, Emitting, Closing, Locked, emission
  <2>5. BatchInv' /\ StreamInv'
    BY <2>1, <2>2, ClosingKeeps DEF Closing, fields, forcing
  <2>6. FailInv' /\ RecordInv'
    BY <2>1, <2>2, <2>3 DEF Full, FailInv, RecordInv, Closing, endings, forcing
  <2>7. QED
    BY <2>4, <2>5, <2>6
<1>8. CASE CloseOnce \/ HostClose("rt", closeErr, "return")
  <2>1. PICK l \in {"hostClose", "return"} : Goto("rt", l)
    BY <1>8 DEF CloseOnce, HostClose
  <2>2. /\ pc["rt"] \in {"close", "hostClose"}
        /\ UNCHANGED <<mu, fields, endings, forced, forceReason, abortErr, emission, accepted>>
    BY <1>8 DEF CloseOnce, HostClose, host
  <2>3. pc'["rt"] = l /\ pc'["hb"] = pc["hb"]
    BY <1>0, <2>1, MovesAlone
  <2>4. l = "hostClose" => closeOnce' = "rt" \/ UNCHANGED closeOnce
    BY <1>0, <1>8, <2>3, MovesAlone DEF CloseOnce, WinClose, HostClose
  <2>5. (Completed' <=> Completed) /\ Last' = Last
    BY <2>2, SameFrames
  <2>6. MutexInv'
    BY <2>2, <2>3 DEF Full, MutexInv, Emitting, Closing, Locked, emission
  <2>7. BatchInv' /\ StreamInv'
    BY <2>2, <2>3, ClosingKeeps DEF Closing, fields
  <2>8. FailInv'
    BY <2>2, <2>3, <2>5 DEF Full, FailInv, Closing, endings
  <2>9. RecordInv'
    BY <2>2, <2>3, <2>4, <2>5 DEF Full, RecordInv, Closing, endings
  <2>10. QED
    BY <2>6, <2>7, <2>8, <2>9
<1>9. CASE Return
  <2>1. /\ pc["rt"] = "return" /\ Goto("rt", "summary") /\ mu' = "free" /\ closed' = TRUE
        /\ UNCHANGED <<sequence, started, disconnected, responseID, endings, forcing,
                       emission, accepted>>
    BY <1>9 DEF Return, Unlock, host
  <2>2. pc'["rt"] = "summary" /\ pc'["hb"] = pc["hb"]
    BY <1>0, <2>1, MovesAlone
  <2>3. (Completed' <=> Completed) /\ Last' = Last
    BY <2>1, SameFrames
  <2>4. MutexInv'
    BY <2>1, <2>2 DEF Full, MutexInv, Emitting, Closing, Locked, emission
  <2>5. BatchInv' /\ StreamInv'
    BY <2>1, <2>2, ClosingKeeps DEF Closing, forcing
  <2>6. FailInv' /\ RecordInv'
    BY <2>1, <2>2, <2>3 DEF Full, FailInv, RecordInv, Closing, endings, forcing
  <2>7. QED
    BY <2>4, <2>5, <2>6
<1>10. CASE FinishAfter
  <2>1. /\ pc["rt"] = "summary" /\ Goto("rt", "done")
        /\ \E exit \in Exits \cup Outcomes : Summarize(exit)
        /\ UNCHANGED <<mu, fields, endOutcome, endErr, failure, closeErr, forcing,
                       emission, accepted>>
    BY <1>10, ExitsAreExits DEF FinishAfter, host, Full, Inv, TypeInv, TypeOK, EndingsOK
  <2>2. pc'["rt"] = "done" /\ pc'["hb"] = pc["hb"]
    BY <1>0, <2>1, MovesAlone
  <2>3. (Completed' <=> Completed) /\ Last' = Last
    BY <2>1, SameFrames
  <2>4. MutexInv'
    BY <2>1, <2>2 DEF Full, MutexInv, Emitting, Closing, Locked, emission
  <2>5. BatchInv' /\ StreamInv'
    BY <2>1, <2>2, ClosingKeeps DEF Closing, fields, forcing
  <2>6. FailInv'
    BY <2>1, <2>2, <2>3 DEF Full, FailInv, Closing, forcing
  <2>7. record # "none" \/ (forced /\ forceReason # NoErr)
    BY <2>1 DEF Full, Inv, ReasonInv, RecordInv
  <2>8. \/ record # "none" /\ UNCHANGED record
        \/ forced /\ forceReason # NoErr /\ record' # "completed"
    BY <2>1, <2>7, ErrorNotCompleted DEF Summarize
  <2>9. RecordInv'
    BY <2>1, <2>2, <2>3, <2>8 DEF Full, RecordInv, Closing, forcing
  <2>10. QED
    BY <2>4, <2>5, <2>6, <2>9
<1>11. QED
  BY <1>1, <1>2, <1>3, <1>4, <1>5, <1>6, <1>7, <1>8, <1>9, <1>10 DEF Ending

\* The watchdogs and the environment touch neither the session nor its ending.
LEMMA OutsideKeeps ==
    ASSUME Full, UNCHANGED <<mu, fields, endings, emission, accepted>>,
           pc'["rt"] = pc["rt"], pc'["hb"] = pc["hb"],
           forced => forced', abortErr'["life"] = abortErr["life"],
           forceReason' = forceReason \/ forceReason' # NoErr,
           closeOnce' \notin {"free", "rt"}
              => closeOnce \notin {"free", "rt"} \/ forceReason' # NoErr
    PROVE  Parts'
<1>1. (Completed' <=> Completed) /\ Last' = Last
  BY SameFrames
<1>2. MutexInv' /\ BatchInv'
  BY <1>1 DEF Full, MutexInv, BatchInv, fields, emission
<1>3. StreamInv'
  BY <1>1 DEF Full, StreamInv, CutOff, fields, emission
<1>4. FailInv'
  BY <1>1 DEF Full, FailInv, endings
<1>5. RecordInv'
  BY <1>1 DEF Full, RecordInv, endings, emission
<1>6. QED
  BY <1>2, <1>3, <1>4, <1>5 DEF Parts

LEMMA WatchdogFull ==
    ASSUME Full, NEW w \in Watchdogs, Watchdog(w) PROVE Parts'
<1> USE DEF At
<1>1. PICK l \in {"grace", "abort", "publish", "hostClose", "done"} : Goto(w, l)
  BY DEF Watchdog, LifeCancelled, LifeGraceOver, DeadlineFires, WatchdogLeaves, Abort,
         PublishForced, HostClose
<1>2. pc'["rt"] = pc["rt"] /\ pc'["hb"] = pc["hb"]
  BY <1>1, MovesAlone DEF Full, Inv, TypeInv, TypeOK, Watchdogs
<1>3. UNCHANGED <<mu, fields, endings, emission, accepted>>
  BY DEF Watchdog, LifeCancelled, LifeGraceOver, DeadlineFires, WatchdogLeaves, Abort,
         PublishForced, HostClose, host
<1>4. abortErr'["life"] = abortErr["life"] /\ (forced => forced')
  BY DEF Watchdog, LifeCancelled, LifeGraceOver, DeadlineFires, WatchdogLeaves, Abort,
         PublishForced, HostClose, forcing, Full, Inv, ReasonInv, Watchdogs
<1>5. forceReason' = forceReason \/ forceReason' # NoErr
  BY OwnErrors DEF Watchdog, LifeCancelled, LifeGraceOver, DeadlineFires, WatchdogLeaves,
         Abort, PublishForced, HostClose, forcing
<1>6. ASSUME closeOnce' \notin {"free", "rt"}
      PROVE  closeOnce \notin {"free", "rt"} \/ forceReason' # NoErr
  <2>1. CASE Abort(w)
    BY <1>6, <2>1, OwnErrors DEF Abort, WinClose
  <2>2. CASE HostClose(w, abortErr[w], "done")
    <3>1. closeOnce = w
      BY <2>2 DEF HostClose, Full, Inv, CloseInv, Closers
    <3>2. QED
      BY <3>1 DEF Watchdogs
  <2>3. CASE UNCHANGED closeOnce
    BY <1>6, <2>3
  <2>4. QED
    BY <2>1, <2>2, <2>3 DEF Watchdog, LifeCancelled, LifeGraceOver, DeadlineFires,
       WatchdogLeaves, PublishForced, forcing
<1>7. QED
  BY <1>2, <1>3, <1>4, <1>5, <1>6, OutsideKeeps

LEMMA FullNext == Full /\ [Next]_vars => Full'
<1> SUFFICES ASSUME Full, [Next]_vars PROVE Full'
  OBVIOUS
<1>1. Inv'
  BY InvNext DEF Full
<1>2. ASSUME UNCHANGED <<mu, pc, fields, endings, forcing, emission, accepted>>
      PROVE  Parts'
  <2>1. UNCHANGED <<forced, abortErr, forceReason, closeOnce>>
    BY <1>2 DEF forcing
  <2>2. QED
    BY <1>2, <2>1, OutsideKeeps
<1>3. ASSUME UNCHANGED vars PROVE Parts'
  BY <1>2, <1>3 DEF vars, host
<1>4. ASSUME Next PROVE Parts'
  <2>1. CASE Environment \/ Rest
    BY <1>2, <1>3, <2>1 DEF Environment, DeadlinePasses, Rest, host
  <2>2. CASE Emission \/ RoundTripCall \/ Ending \/ LogReturns \/ Tick \/ Beaten \/ HeartbeatStops
    BY <2>2, EmissionFull, CallFull, EndingFull, HeartbeatFull
  <2>3. CASE \E w \in Watchdogs : Watchdog(w)
    BY <2>3, WatchdogFull
  <2>4. QED
    BY <1>4, <2>1, <2>2, <2>3 DEF Next
<1>5. QED
  BY <1>1, <1>3, <1>4 DEF Full, Parts

\* The invariant of the whole session.
THEOREM SpecFull == Spec => []Full
BY FullInit, FullNext, PTL DEF Spec

----------------------------------------------------------------------------
(* The theorems.                                                           *)

\* Once ended is closed no host call of this session is in flight and the
\* heartbeat is gone (stream_session.go:386-447, markEnded), in every order in
\* which the heartbeat, the watchdogs and the round trip end: shutdown, which
\* waits for ended, may unload the host's callbacks.
THEOREM EndedIsQuiet == Spec => []EndedQuiescent
<1>1. Full => EndedQuiescent
  <2> SUFFICES ASSUME Full, Ended PROVE EndedQuiescent
    BY DEF EndedQuiescent
  <2>1. pc["hb"] = "done" /\ stage = "idle"
    BY DEF Full, MutexInv, Ended, Closing, Emitting
  <2>2. closeOnce = "done"
    BY DEF Full, Inv, CloseInv, Ended
  <2>3. \A w \in Watchdogs : pc[w] \notin {"publish", "hostClose"}
    BY <2>2 DEF Full, Inv, CloseInv, Closers, Watchdogs
  <2>4. QED
    BY <2>1, <2>2, <2>3 DEF EndedQuiescent
<1>2. QED
  BY <1>1, SpecFull, PTL

\* An ordinary ending writes the summary before host.stream.close, whatever the
\* watchdogs do meanwhile: without a forced close the record is there when the
\* stream is closed (stream_session.go:313-331).
THEOREM SummaryFirst == Spec => []SummaryBeforeClose
<1>1. Full => SummaryBeforeClose
  <2> SUFFICES ASSUME Full, streamClose # "open", forceReason = NoErr PROVE record # "none"
    BY DEF SummaryBeforeClose
  <2>1. closeOnce = "done"
    BY DEF Full, Inv, CloseInv
  <2>2. pc["rt"] \in {"return", "summary", "done"}
    BY <2>1 DEF Full, RecordInv
  <2>3. ~forced
    BY DEF Full, Inv, ReasonInv
  <2>4. QED
    BY <2>2, <2>3 DEF Full, RecordInv
<1>2. QED
  BY <1>1, SpecFull, PTL

\* The summary says completed exactly when the host took the terminal events of
\* a complete response, a forced close apart (relay_summary.go:225-318,
\* stream_session.go:365-400): for every failure and interleaving.
THEOREM RecordIsTrue == Spec => []RecordTellsTruth
<1>1. Full => RecordTellsTruth
  BY DEF Full, RecordInv, RecordTellsTruth, Completed
<1>2. QED
  BY <1>1, SpecFull, PTL

\* A stopped plugin hands over no complete response.
LEMMA NothingCompletes ==
    ASSUME Full, Next, stopped, batch.kind # "completed"
    PROVE  batch'.kind # "completed"
<1>1. ASSUME NEW k \in Kinds \ {"completed"}, NEW o \in BOOLEAN, NEW id \in Ids,
             CallEmit(Render(k, o, id))
      PROVE  batch'.kind # "completed"
  BY <1>1 DEF CallEmit, Render
<1>2. ASSUME EmitReturned \/ UNCHANGED emission PROVE batch'.kind # "completed"
  BY <1>2 DEF EmitReturned, NoBatch, emission
<1>3. ASSUME NEW id \in Ids, OpenWith(id) PROVE batch'.kind # "completed"
  BY <1>1, <1>3 DEF OpenWith, Kinds
<1>4. responseID \in Ids /\ started \in BOOLEAN
  BY DEF Full, Inv, TypeInv, TypeOK, FieldsOK
<1>5. ASSUME NEW e, FailLocked(e) PROVE batch'.kind # "completed"
  BY <1>1, <1>2, <1>4, <1>5 DEF FailLocked, Kinds
<1>6. CASE Emission
  BY <1>6 DEF Emission, EmitCheck, HostAccepts, HostRefuses
<1>7. CASE RoundTripCall
  <2>1. CASE StartIdle \/ Finish \/ \E e \in Failures \cup {Disconnected} : Fail(e)
    BY <1>2, <2>1 DEF StartIdle, Finish, Fail
  <2>2. CASE Start
    BY <1>3, <2>2 DEF Start, Ids
  <2>3. CASE DeliverOpened
    BY <1>1, <1>4, <2>3 DEF DeliverOpened, Kinds
  <2>4. CASE RoundTripReturns
    BY <1>2, <2>4 DEF RoundTripReturns, EmitReturns
  <2>5. CASE \E id \in Ids : Open(id)
    BY <1>3, <2>5 DEF Open
  <2>6. CASE \E id \in Ids : Deliver(id)
    BY <1>1, <1>2, <1>3, <1>4, <2>6 DEF Deliver, Kinds
  <2>7. QED
    BY <1>7, <2>1, <2>2, <2>3, <2>4, <2>5, <2>6 DEF RoundTripCall
<1>8. CASE Ending
  <2>1. CASE FailBoundary
    BY <1>5, <2>1 DEF FailBoundary
  <2>2. CASE FinishBoundary
    BY <1>5, <2>2 DEF FinishBoundary, StopSeen
  <2>3. CASE FailEmitted \/ Replayed
    BY <1>2, <2>3 DEF FailEmitted, Replayed
  <2>4. CASE \/ CloseStream \/ OnEnd \/ CloseOnce \/ HostClose("rt", closeErr, "return")
             \/ Return \/ FinishAfter
    BY <1>2, <2>4 DEF CloseStream, OnEnd, CloseOnce, HostClose, Return, FinishAfter
  <2>5. QED
    BY <1>8, <2>1, <2>2, <2>3, <2>4 DEF Ending
<1>9. CASE Tick
  BY <1>1, <1>3, <1>4, <1>9 DEF Tick, Ids, Kinds
<1>10. CASE Beaten \/ HeartbeatStops \/ LogReturns
  BY <1>2, <1>10 DEF Beaten, EmitReturns, HeartbeatStops, LogReturns
<1>11. CASE Environment \/ Rest
  BY <1>2, <1>11 DEF Environment, DeadlinePasses, Rest, vars
<1>12. ASSUME NEW w \in Watchdogs, Watchdog(w) PROVE batch'.kind # "completed"
  BY <1>2, <1>12 DEF Watchdog, LifeCancelled, LifeGraceOver, DeadlineFires,
     WatchdogLeaves, Abort, PublishForced, HostClose
<1>13. QED
  BY <1>6, <1>7, <1>8, <1>9, <1>10, <1>11, <1>12 DEF Next

\* Nobody but a watchdog moves it.
LEMMA WatchdogsMove ==
    ASSUME Full, Next, NEW w \in Watchdogs, pc'[w] # pc[w]
    PROVE  Watchdog(w)
<1>1. ControlOK
  BY DEF Full, Inv, TypeInv, TypeOK
<1>2. CASE Emission \/ Environment \/ Rest
  BY <1>2 DEF Emission, EmitCheck, HostAccepts, HostRefuses, Environment, DeadlinePasses,
     Rest, vars
<1>3. CASE RoundTripCall \/ Ending \/ LogReturns
  <2>1. \E l : Goto("rt", l)
    BY <1>3 DEF RoundTripCall, StartIdle, Start, DeliverOpened, RoundTripReturns,
       EmitReturns, Finish, Open, Deliver, Fail, Ending, FailBoundary, FailEmitted,
       FinishBoundary, Replayed, CloseStream, OnEnd, CloseOnce, HostClose, Return,
       FinishAfter, FailLocked, LogReturns, Lock, Unlock
  <2>2. QED
    BY <1>1, <2>1, MovesAlone DEF Watchdogs
<1>4. CASE Tick \/ Beaten \/ HeartbeatStops
  <2>1. \E l : Goto("hb", l)
    BY <1>4 DEF Tick, Beaten, EmitReturns, HeartbeatStops, Lock, Unlock
  <2>2. QED
    BY <1>1, <2>1, MovesAlone DEF Watchdogs
<1>5. ASSUME NEW v \in Watchdogs \ {w}, Watchdog(v) PROVE FALSE
  <2>1. \E l : Goto(v, l)
    BY <1>5 DEF Watchdog, LifeCancelled, LifeGraceOver, DeadlineFires, WatchdogLeaves,
       Abort, PublishForced, HostClose
  <2>2. QED
    BY <1>1, <2>1, MovesAlone DEF Watchdogs
<1>6. QED
  BY <1>2, <1>3, <1>4, <1>5 DEF Next

\* A stopped plugin starts no replay of a complete response, and its watchdogs
\* close without an error (stream_session.go:121-160 and 365-373): what
\* finishGenerated checks under ss.mu no later step can undo.
THEOREM StopIsKept == Spec => StopIsFinal
<1> DEFINE Final ==
       stopped =>
          /\ batch.kind # "completed" => batch'.kind # "completed"
          /\ \A w \in Watchdogs :
                pc[w] \in {"watch", "grace"} /\ pc'[w] = "abort"
                    => abortErr'[w] = NoErr
<1>1. Full /\ [Next]_vars => [Final]_vars
  <2> SUFFICES ASSUME Full, Next, stopped PROVE Final
    OBVIOUS
  <2>1. ASSUME NEW w \in Watchdogs, pc[w] \in {"watch", "grace"}, pc'[w] = "abort"
        PROVE  abortErr'[w] = NoErr
    <3>1. Watchdog(w)
      BY <2>1, WatchdogsMove
    <3>2. CASE w = "life"
      BY <3>2, FullNext DEF Full, FailInv
    <3>3. CASE w = "dl"
      <4>1. pc'[w] = "done" \/ DeadlineFires
        BY <2>1, <3>1, <3>3, MovesAlone DEF Watchdog, WatchdogLeaves, Abort, PublishForced,
           HostClose, At, Full, Inv, TypeInv, TypeOK
      <4>2. QED
        BY <2>1, <3>3, <4>1 DEF DeadlineFires, StopSeen, Full, Inv, ReasonInv, Watchdogs
    <3>4. QED
      BY <3>2, <3>3 DEF Watchdogs
  <2>2. QED
    BY <2>1, NothingCompletes
<1>2. QED
  BY <1>1, SpecFull, PTL DEF StopIsFinal, Spec

\* The payload the host is about to take continues what it already took.
LEMMA NextFollows ==
    Full /\ stage = "host" => Contract!Follows(batch)
<1> SUFFICES ASSUME Full, stage = "host" PROVE Contract!Follows(batch)
  OBVIOUS
<1>1. CASE accepted = <<>>
  BY <1>1 DEF Full, BatchInv, StreamInv, Contract!Follows
<1>2. CASE accepted # <<>>
  <2>1. pc["rt"] \notin Closing
    BY DEF Full, MutexInv, Closing, Emitting
  <2>2. Last.kind \notin {"completed", "failed"}
    BY <1>2, <2>1 DEF Full, StreamInv
  <2>3. /\ ~batch.opens /\ batch.first = Last.first + Last.n /\ batch.id = Last.id
    BY <1>2 DEF Full, BatchInv, StreamInv, Inv, TypeInv, TypeOK, EmissionOK, Batches
  <2>4. QED
    BY <1>2, <2>2, <2>3 DEF Contract!Follows, Contract!Terminal, Last
<1>3. QED
  BY <1>1, <1>2

\* Whoever closes the host stream, closes it for the first time and for a
\* reason that may be blamed.
LEMMA ClosesForAReason ==
    ASSUME Full,
           \/ HostClose("rt", closeErr, "return")
           \/ \E w \in Watchdogs : HostClose(w, abortErr[w], "done")
    PROVE  Contract!Close
<1>1. PICK t \in Closers, e \in Errors :
         /\ pc[t] = "hostClose" /\ streamClose' = e.kind /\ UNCHANGED accepted
         /\ \/ e = NoErr \/ (e \in Failures \cup {TimedOut} /\ ~IsRequestScoped(e))
  <2>1. CASE HostClose("rt", closeErr, "return")
    BY <2>1 DEF HostClose, At, Closers, Full, FailInv, Inv, TypeInv, TypeOK, EndingsOK
  <2>2. ASSUME NEW w \in Watchdogs, HostClose(w, abortErr[w], "done")
        PROVE  \E t \in Closers, e \in Errors :
                  /\ pc[t] = "hostClose" /\ streamClose' = e.kind /\ UNCHANGED accepted
                  /\ \/ e = NoErr \/ (e \in Failures \cup {TimedOut} /\ ~IsRequestScoped(e))
    <3>1. abortErr[w] \in {NoErr, TimedOut}
      BY DEF Full, Inv, ReasonInv
    <3>2. QED
      BY <2>2, <3>1, OwnErrors, OwnClasses DEF HostClose, At, Closers
  <2>3. QED
    BY <2>1, <2>2
<1>2. streamClose = "open"
  BY <1>1 DEF Full, Inv, CloseInv, Closers, Watchdogs
<1>3. QED
  BY <1>1, <1>2, OwnErrors DEF Contract!Close

\* The session implements the contract of its downstream stream, for every set
\* of failures and every interleaving of its goroutines: what the host accepts
\* is one gapless numbered stream under one response id, opened once, with
\* nothing after a terminal event or the close, and only a failure of the
\* credential or the link is closed with (stream_session.go:162-447).
THEOREM ContractIsKept == Spec => ContractHolds
<1>1. Init => Contract!Init
  BY DEF Init, Contract!Init
<1>2. Full /\ [Next]_vars => [Contract!Next]_(Contract!vars)
  <2> SUFFICES ASSUME Full, [Next]_vars
               PROVE  Contract!Next \/ UNCHANGED <<accepted, streamClose>>
    BY DEF Contract!vars
  <2> USE DEF Contract!Next
  <2>1. CASE HostAccepts
    <3>1. /\ stage = "host" /\ streamClose = "open" /\ UNCHANGED streamClose
          /\ accepted' = Append(accepted, batch)
      BY <2>1 DEF HostAccepts
    <3>2. Len(accepted') = Len(accepted) + 1 /\ accepted'[Len(accepted')] = batch
      BY <3>1, Appended DEF Full, Inv, TypeInv, TypeOK
    <3>3. Contract!Follows(batch)
      BY <3>1, NextFollows
    <3>4. Contract!Emit
      BY <3>1, <3>2, <3>3 DEF Contract!Emit
    <3>5. QED
      BY <3>4
  <2>2. CASE \/ HostClose("rt", closeErr, "return")
             \/ \E w \in Watchdogs : HostClose(w, abortErr[w], "done")
    BY <2>2, ClosesForAReason
  <2>3. CASE EmitCheck \/ HostRefuses \/ RoundTripCall \/ Tick \/ Beaten \/ HeartbeatStops \/ LogReturns
    BY <2>3 DEF EmitCheck, HostRefuses, RoundTripCall, StartIdle, Start, DeliverOpened,
       RoundTripReturns, EmitReturns, Finish, Open, Deliver, Fail, Tick, Beaten,
       HeartbeatStops, LogReturns, host
  <2>4. CASE \/ FailBoundary \/ FailEmitted \/ FinishBoundary \/ Replayed \/ CloseStream
             \/ OnEnd \/ CloseOnce \/ Return \/ FinishAfter
    BY <2>4 DEF FailBoundary, FailEmitted, FinishBoundary, Replayed, CloseStream, OnEnd,
       CloseOnce, Return, FinishAfter, host
  <2>5. ASSUME NEW w \in Watchdogs,
               \/ w = "life" /\ (LifeCancelled \/ LifeGraceOver)
               \/ w = "dl" /\ DeadlineFires
               \/ WatchdogLeaves(w) \/ Abort(w) \/ PublishForced(w)
        PROVE  UNCHANGED <<accepted, streamClose>>
    BY <2>5 DEF LifeCancelled, LifeGraceOver, DeadlineFires, WatchdogLeaves, Abort,
       PublishForced, host
  <2>6. CASE Environment \/ Rest \/ UNCHANGED vars
    BY <2>6 DEF Environment, DeadlinePasses, Rest, vars, host
  <2>7. QED
    BY <2>1, <2>2, <2>3, <2>4, <2>5, <2>6 DEF Next, Emission, Ending, Watchdog
<1>3. QED
  BY <1>1, <1>2, SpecFull, PTL DEF Spec, ContractHolds, Contract!Spec
=============================================================================
