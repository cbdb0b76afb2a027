--------------------------- MODULE StreamSession ---------------------------
(***************************************************************************)
(* One downstream stream of executor.execute_stream                        *)
(* (internal/basispoints/stream_session.go).  Four goroutines share the    *)
(* session: the round trip ("rt"), the heartbeat ("hb") and two watchdogs, *)
(* bindLifecycle ("life") and bindDeadline ("dl").  The round trip and the *)
(* heartbeat hold ss.mu across host.stream.emit, which blocks while the    *)
(* host's queue is full; the watchdogs never take ss.mu and unblock a      *)
(* stuck emit by closing the host stream themselves.                       *)
(*                                                                         *)
(* What the round trip asks for (open, deliver, finish, fail) is chosen    *)
(* freely here: executeStream decides it, and the session must be correct  *)
(* for every choice.  The host (its queue, host.log, the client behind it) *)
(* is external and modelled from how the session uses it.                  *)
(***************************************************************************)
EXTENDS Naturals, Sequences

CONSTANTS
    HeartbeatOn,    \* ss.heartbeat > 0
    DeadlineModes,  \* whether a session binds bindDeadline: http does, ws does not
    UpstreamIds,    \* ids carried by upstream response.created objects
    Failures,       \* the errors a round trip may fail with
    QueueCap,       \* batches the host queue holds before emit blocks
    MaxBatches      \* bound: no heartbeat or delivery starts beyond it

Synthetic == "resp_bp"   \* the session's own id, newStreamSession
Ids == UpstreamIds \cup {Synthetic}

\* The kinds of error a stream may end with ("none" for a nil error).
ErrorKinds ==
    {"none", "client_disconnected", "plugin_stopped", "upstream_timeout",
     "upstream_transport", "upstream_response_too_large", "upstream_error",
     "upstream_incomplete", "invalid_upstream_response",
     "invalid_upstream_stream", "invalid_tool_call", "rate_limited",
     "server_draining"}
Errors == [kind : ErrorKinds, status : Nat]
NoErr           == [kind |-> "none",                status |-> 0]
InvalidToolCall == [kind |-> "invalid_tool_call",   status |-> 502]
RateLimited     == [kind |-> "upstream_error",      status |-> 429]
TimedOut        == [kind |-> "upstream_timeout",    status |-> 504]
Stopped         == [kind |-> "plugin_stopped",      status |-> 503]
Disconnected    == [kind |-> "client_disconnected", status |-> 499]

ASSUME SessionAssumption ==
    /\ HeartbeatOn \in BOOLEAN /\ DeadlineModes \subseteq BOOLEAN
    /\ Failures \subseteq (Errors \ {NoErr})
    /\ QueueCap \in Nat \ {0} /\ MaxBatches \in Nat

Watchdogs == {"life", "dl"}

VARIABLES
    mu, pc,              \* ss.mu's holder or "free"; where each goroutine is
    \* fields of the session under ss.mu
    sequence, started, closed, disconnected, responseID,
    \* how it ends: endOutcome, endErr, fail's error, the error to close with
    \* and the relay summary's exit ("none" until written)
    endOutcome, endErr, failure, closeErr, record,
    \* closeOnce and the forced close; each watchdog's abortDownstream error
    closeOnce, forced, forceReason, abortErr,
    \* emitLocked in progress: its stage, the payload it renders
    stage, batch,
    \* the host stream: unread payloads, accepted ones, how it was closed
    queued, accepted, streamClose, closeCalls,
    \* shutdown happened, the deadline and its grace passed, the client left
    stopped, expired, clientGone

fields == <<sequence, started, closed, disconnected, responseID>>
endings == <<endOutcome, endErr, failure, closeErr, record>>
forcing == <<closeOnce, forced, forceReason, abortErr>>
emission == <<stage, batch>>
host == <<queued, accepted, streamClose, closeCalls>>
environment == <<stopped, expired, clientGone>>
vars == <<mu, pc, fields, endings, forcing, emission, host, environment>>

----------------------------------------------------------------------------
(* A batch is one emit payload: it opens the stream if it carries          *)
(* response.created, and renderSSE numbers its n events from ss.sequence.  *)

Kinds == {"none", "prologue", "beat", "frames", "completed", "failed"}
Batches == [kind : Kinds, opens : BOOLEAN, id : Ids, first : Nat, n : Nat]
NoBatch ==
    [kind |-> "none", opens |-> FALSE, id |-> Synthetic, first |-> 0, n |-> 0]

Render(kind, opens, id) ==
    [kind |-> kind, opens |-> opens, id |-> id, first |-> sequence,
     n |-> IF opens THEN 2 ELSE 1]

IsRequestScoped(e) ==
    /\ e.kind \notin {"upstream_transport", "upstream_timeout",
                      "upstream_response_too_large"}
    /\ e.status \notin {401, 402, 403, 404, 429}

Outcomes == {"", "completed", "cancelled"}
Exits == {"completed", "cancelled", "stopped", "timeout", "failed",
          "upstream_error"}

\* Mutant: an error without a class of its own is recorded by its kind.
ExitForError_raw(e) == IF e = NoErr THEN "completed" ELSE e.kind

ExitForError(e) ==
    CASE e = NoErr                      -> "completed"
      [] e.kind = "client_disconnected" -> "cancelled"
      [] e.kind = "plugin_stopped"      -> "stopped"
      [] e.kind = "upstream_timeout"    -> "timeout"
      [] OTHER -> IF IsRequestScoped(e) THEN "failed" ELSE "upstream_error"

Init ==
    /\ mu = "free"
    /\ \E bound \in DeadlineModes :
          pc = [rt |-> "start", hb |-> IF HeartbeatOn THEN "wait" ELSE "done",
                life |-> "watch", dl |-> IF bound THEN "watch" ELSE "done"]
    /\ sequence = 0 /\ started = FALSE /\ closed = FALSE
    /\ disconnected = FALSE /\ responseID = Synthetic
    /\ endOutcome = "" /\ endErr = NoErr /\ failure = NoErr
    /\ closeErr = NoErr /\ record = "none"
    /\ closeOnce = "free" /\ forced = FALSE /\ forceReason = NoErr
    /\ abortErr = [w \in Watchdogs |-> NoErr]
    /\ stage = "idle" /\ batch = NoBatch
    /\ queued = 0 /\ accepted = <<>> /\ streamClose = "open" /\ closeCalls = 0
    /\ stopped = FALSE /\ expired = FALSE /\ clientGone = FALSE

At(t, label) == pc[t] = label
Goto(t, label) == pc' = [pc EXCEPT ![t] = label]
Lock(t, label) == mu = "free" /\ mu' = t /\ Goto(t, label)
Unlock(t, label) == mu' = "free" /\ Goto(t, label)

CutOff == closed \/ disconnected \/ forced

----------------------------------------------------------------------------
(* emitLocked: the holder of ss.mu hands over a payload; the flags are     *)
(* checked, then the host takes it, or blocks, or refuses it.              *)

CallEmit(b) == stage' = "check" /\ batch' = b
EmitReturned == stage' = "idle" /\ batch' = NoBatch

EmitCheck ==
    /\ stage = "check"
    /\ stage' = IF CutOff THEN "err" ELSE "host"
    /\ UNCHANGED <<mu, pc, fields, endings, forcing, batch, host, environment>>

\* The host queues the payload; only then does ss.sequence move.
HostAccepts ==
    /\ stage = "host" /\ streamClose = "open" /\ ~clientGone
    /\ queued < QueueCap
    /\ queued' = queued + 1
    /\ accepted' = Append(accepted, batch)
    /\ sequence' = batch.first + batch.n
    /\ stage' = "ok"
    /\ UNCHANGED <<mu, pc, started, closed, disconnected, responseID, endings,
                   forcing, batch, streamClose, closeCalls, environment>>

\* The host stream is closed or its client left: the session disconnects.
HostRefuses ==
    /\ stage = "host" /\ (streamClose # "open" \/ clientGone)
    /\ disconnected' = TRUE
    /\ stage' = "err"
    /\ UNCHANGED <<mu, pc, sequence, started, closed, responseID, endings,
                   forcing, batch, host, environment>>

\* openLocked: fix the client's response id and emit the opening events.
OpenWith(id) ==
    /\ started' = TRUE /\ responseID' = id
    /\ CallEmit(Render("prologue", TRUE, id))
    /\ UNCHANGED <<sequence, closed, disconnected>>

\* emitLocked is back in the caller, which releases ss.mu.
EmitReturns(t, from, ok, err) ==
    /\ At(t, from) /\ stage \in {"ok", "err"}
    /\ Unlock(t, IF stage = "ok" THEN ok ELSE err)
    /\ EmitReturned
    /\ UNCHANGED <<fields, endings, forcing, host, environment>>

----------------------------------------------------------------------------
(* The round trip: start or startIdle, then open and deliver while the     *)
(* upstream answers, then finish or fail exactly once.                     *)

\* startIdle, or heartbeat <= 0: nothing is emitted yet.
StartIdle ==
    /\ At("rt", "start") /\ Goto("rt", "run")
    /\ UNCHANGED <<mu, fields, endings, forcing, emission, host, environment>>

\* start: open at once under the session's own id; the heartbeat then runs
\* whether or not that emit succeeded.
Start ==
    /\ HeartbeatOn /\ At("rt", "start") /\ Lock("rt", "started")
    /\ OpenWith(Synthetic)
    /\ UNCHANGED <<endings, forcing, host, environment>>

\* Mutant: open does not look at started.
Open_again(id) ==
    /\ HeartbeatOn /\ At("rt", "run") /\ ~CutOff
    /\ Lock("rt", "opening") /\ OpenWith(id)
    /\ UNCHANGED <<endings, forcing, host, environment>>

\* open(meta); a meta without an id leaves the synthetic one.
Open(id) ==
    /\ HeartbeatOn /\ At("rt", "run") /\ ~CutOff /\ ~started
    /\ Lock("rt", "opening") /\ OpenWith(id)
    /\ UNCHANGED <<endings, forcing, host, environment>>

\* deliver(meta, frames): refused, or opens the stream first if need be.
Deliver(id) ==
    /\ At("rt", "run") /\ Len(accepted) < MaxBatches
    /\ \/ /\ CutOff /\ mu = "free" /\ Goto("rt", "refused")
          /\ UNCHANGED <<mu, fields, emission>>
       \/ /\ ~CutOff /\ ~started /\ Lock("rt", "deliverOpen") /\ OpenWith(id)
       \/ /\ ~CutOff /\ started /\ Lock("rt", "deliver")
          /\ CallEmit(Render("frames", FALSE, responseID)) /\ UNCHANGED fields
    /\ UNCHANGED <<endings, forcing, host, environment>>

DeliverOpened ==
    /\ At("rt", "deliverOpen") /\ stage = "ok" /\ Goto("rt", "deliver")
    /\ CallEmit(Render("frames", FALSE, responseID))
    /\ UNCHANGED <<mu, fields, endings, forcing, host, environment>>

RoundTripReturns ==
    \/ EmitReturns("rt", "started", "run", "run")
    \/ EmitReturns("rt", "opening", "run", "run")
    \/ stage = "err" /\ EmitReturns("rt", "deliverOpen", "run", "refused")
    \/ EmitReturns("rt", "deliver", "run", "refused")

----------------------------------------------------------------------------
(* finish and fail.  Both first stop the heartbeat and wait for it: a      *)
(* heartbeat stuck in emit holds them here until the stream is cut.        *)

Finish ==
    /\ At("rt", "run") /\ Goto("rt", "finish")
    /\ UNCHANGED <<mu, fields, endings, forcing, emission, host, environment>>

\* fail(err); a refused delivery always fails as a lost client.
Fail(e) ==
    /\ At("rt", "run") \/ (At("rt", "refused") /\ e = Disconnected)
    /\ Goto("rt", "fail")
    /\ failure' = e
    /\ UNCHANGED <<mu, fields, endOutcome, endErr, closeErr, record, forcing,
                   emission, host, environment>>

StopHeartbeat ==
    pc["rt"] \notin {"start", "started", "run", "opening", "deliverOpen",
                     "deliver", "refused"}

\* Mutant: stop closes stopHeartbeat without waiting for heartbeatDone.
HeartbeatJoined_early == TRUE

HeartbeatJoined == At("hb", "done")

\* failLocked(e): close silently if the client is gone, with e if it is the
\* credential's problem, else tell the client with response.failed first.
FailLocked(e) ==
    /\ failure' = e /\ endErr' = e
    /\ \/ /\ disconnected \/ forced \/ e.kind = "client_disconnected"
          /\ endOutcome' = "cancelled" /\ closeErr' = NoErr
          /\ Lock("rt", "closing") /\ UNCHANGED emission
       \/ /\ ~disconnected /\ ~forced /\ e.kind # "client_disconnected"
          /\ endOutcome' = ""
          /\ IF IsRequestScoped(e)
             THEN /\ Lock("rt", "failing") /\ closeErr' = NoErr
                  /\ CallEmit(Render("failed", ~started, responseID))
             ELSE /\ Lock("rt", "closing") /\ closeErr' = e
                  /\ UNCHANGED emission
    /\ UNCHANGED <<fields, record>>

FailBoundary ==
    /\ At("rt", "fail") /\ HeartbeatJoined /\ FailLocked(failure)
    /\ UNCHANGED <<forcing, host, environment>>

FailEmitted ==
    /\ At("rt", "failing") /\ stage \in {"ok", "err"} /\ Goto("rt", "closing")
    /\ endOutcome' = IF stage = "err" THEN "cancelled" ELSE endOutcome
    /\ EmitReturned
    /\ UNCHANGED <<mu, fields, endErr, failure, closeErr, record, forcing, host,
                   environment>>

\* Mutant: the session does not look at the lifecycle it is bound to.
StopSeen_never == FALSE

\* stoppedByShutdown(ss.lifeCtx).
StopSeen == stopped

\* finishGenerated under ss.mu: a stopped plugin fails the request, a cut
\* stream closes in silence, otherwise the response is replayed.
FinishBoundary ==
    /\ At("rt", "finish") /\ HeartbeatJoined
    /\ \/ StopSeen /\ FailLocked(Stopped)
       \/ /\ ~StopSeen /\ (disconnected \/ forced)
          /\ Lock("rt", "closing") /\ closed' = TRUE
          /\ endOutcome' = "cancelled" /\ endErr' = NoErr /\ closeErr' = NoErr
          /\ UNCHANGED <<sequence, started, disconnected, responseID, failure,
                         record, emission>>
       \/ /\ ~StopSeen /\ ~disconnected /\ ~forced
          /\ Lock("rt", "replaying")
          /\ \E id \in IF started THEN {responseID} ELSE Ids :
                CallEmit(Render("completed", ~started, id))
          /\ UNCHANGED <<fields, endings>>
    /\ UNCHANGED <<forcing, host, environment>>

\* Mutant: finish reports completed without looking at the emit's result.
ReplayOutcome_unchecked == "completed"

ReplayOutcome ==
    IF stage = "err" \/ disconnected \/ forced THEN "cancelled" ELSE "completed"

Replayed ==
    /\ At("rt", "replaying") /\ stage \in {"ok", "err"} /\ Goto("rt", "closing")
    /\ closed' = TRUE
    /\ endOutcome' = ReplayOutcome /\ endErr' = NoErr /\ closeErr' = NoErr
    /\ EmitReturned
    /\ UNCHANGED <<mu, sequence, started, disconnected, responseID, failure,
                   record, forcing, host, environment>>

----------------------------------------------------------------------------
(* closeWith(err, FALSE): first onEnd, which writes the summary through    *)
(* host.log and may block there, then host.stream.close behind closeOnce.  *)
(* (endHookOnce never bites: the round trip gets here once.)               *)

\* Mutant: the summary is left to finishAfter, after the close.
CloseStream_noHook ==
    /\ At("rt", "closing") /\ Goto("rt", "close")
    /\ UNCHANGED <<mu, fields, endings, forcing, emission, host, environment>>

CloseStream ==
    /\ At("rt", "closing") /\ Goto("rt", IF forced THEN "close" ELSE "hook")
    /\ UNCHANGED <<mu, fields, endings, forcing, emission, host, environment>>

\* relaySummary.finishAfter: a forced close that already owns the stream
\* decides the exit; the record is written once (r.once).
Summarize(exit) ==
    record' = IF record # "none" THEN record
              ELSE IF forceReason # NoErr THEN ExitForError(forceReason)
              ELSE exit

OnEnd ==
    /\ At("rt", "hook") /\ Goto("rt", "logging")
    /\ Summarize(IF endOutcome # "" THEN endOutcome
                 ELSE ExitForError(IF endErr # NoErr THEN endErr ELSE closeErr))
    /\ UNCHANGED <<mu, fields, endOutcome, endErr, failure, closeErr, forcing,
                   emission, host, environment>>

\* host.log returns; nothing obliges the host to do so.
LogReturns ==
    /\ At("rt", "logging") /\ Goto("rt", "close")
    /\ UNCHANGED <<mu, fields, endings, forcing, emission, host, environment>>

\* Mutants: closeOnce lets everyone through; it is only won under ss.mu.
WinClose_always(t) == closeOnce' = t
WinClose_locked(t) == mu \in {"free", t} /\ closeOnce = "free" /\ closeOnce' = t

\* closeOnce.Do: t wins it; a loser waits until the winner has closed.
WinClose(t) == closeOnce = "free" /\ closeOnce' = t

CloseOnce ==
    /\ At("rt", "close")
    /\ \/ WinClose("rt") /\ Goto("rt", "hostClose")
       \/ closeOnce = "done" /\ UNCHANGED closeOnce /\ Goto("rt", "return")
    /\ UNCHANGED <<mu, fields, endings, forced, forceReason, abortErr, emission,
                   host, environment>>

\* host.stream.close; the host accepts it even when its queue is full.
HostClose(t, err, label) ==
    /\ At(t, "hostClose") /\ Goto(t, label)
    /\ closeOnce' = "done"
    /\ streamClose' = err.kind /\ closeCalls' = closeCalls + 1
    /\ UNCHANGED <<mu, fields, endings, forced, forceReason, abortErr, emission,
                   queued, accepted, environment>>

\* The deferred unlock and markEnded; finishAfter then fills in the summary.
Return ==
    /\ At("rt", "return") /\ Unlock("rt", "summary")
    /\ closed' = TRUE
    /\ UNCHANGED <<sequence, started, disconnected, responseID, endings,
                   forcing, emission, host, environment>>

Ended == pc["rt"] \in {"summary", "done"}

FinishAfter ==
    /\ At("rt", "summary") /\ Goto("rt", "done")
    /\ Summarize(IF failure # NoErr THEN ExitForError(failure) ELSE endOutcome)
    /\ UNCHANGED <<mu, fields, endOutcome, endErr, failure, closeErr, forcing,
                   emission, host, environment>>

----------------------------------------------------------------------------
(* runHeartbeat: a tick opens the stream or, when it has been idle for     *)
(* half an interval, emits response.in_progress; an emit error ends it.    *)

Tick ==
    /\ At("hb", "wait") /\ pc["rt"] \notin {"start", "started"}
    /\ Len(accepted) < MaxBatches
    /\ Lock("hb", "beating")
    /\ \/ ~started /\ OpenWith(Synthetic)
       \/ /\ started /\ CallEmit(Render("beat", FALSE, responseID))
          /\ UNCHANGED fields
    /\ UNCHANGED <<endings, forcing, host, environment>>

Beaten == EmitReturns("hb", "beating", "wait", "done")

\* Mutant: the heartbeat of a stream that never opened misses the stop.
HeartbeatStops_opened ==
    /\ At("hb", "wait") /\ StopHeartbeat /\ started /\ Goto("hb", "done")
    /\ UNCHANGED <<mu, fields, endings, forcing, emission, host, environment>>

HeartbeatStops ==
    /\ At("hb", "wait") /\ StopHeartbeat /\ Goto("hb", "done")
    /\ UNCHANGED <<mu, fields, endings, forcing, emission, host, environment>>

----------------------------------------------------------------------------
(* The watchdogs.  bindLifecycle gives a stopped session a grace period;   *)
(* bindDeadline fires after the deadline and its grace.  Both then close   *)
(* the host stream without ss.mu (abortDownstream).                        *)

LifeCancelled ==
    /\ At("life", "watch") /\ stopped /\ Goto("life", "grace")
    /\ UNCHANGED <<mu, fields, endings, forcing, emission, host, environment>>

\* Mutant: forced is published before the close is won.
LifeGraceOver_forced ==
    /\ At("life", "grace") /\ Goto("life", "abort") /\ forced' = TRUE
    /\ UNCHANGED <<mu, fields, endings, closeOnce, forceReason, abortErr,
                   emission, host, environment>>

LifeGraceOver ==
    /\ At("life", "grace") /\ Goto("life", "abort")
    /\ UNCHANGED <<mu, fields, endings, forcing, emission, host, environment>>

DeadlineFires ==
    /\ At("dl", "watch") /\ expired /\ Goto("dl", "abort")
    /\ abortErr' = [abortErr EXCEPT !["dl"] =
                       IF StopSeen THEN NoErr ELSE TimedOut]
    /\ UNCHANGED <<mu, fields, endings, closeOnce, forced, forceReason, emission,
                   host, environment>>

WatchdogLeaves(w) ==
    /\ Ended /\ pc[w] \in {"watch", "grace"} /\ Goto(w, "done")
    /\ UNCHANGED <<mu, fields, endings, forcing, emission, host, environment>>

\* closeWith(err, TRUE): whoever wins closeOnce owns the close reason and
\* only then publishes forced.  A silent abort counts as plugin_stopped.
Abort(w) ==
    /\ At(w, "abort")
    /\ \/ /\ WinClose(w) /\ Goto(w, "publish")
          /\ forceReason' = IF abortErr[w] = NoErr THEN Stopped ELSE abortErr[w]
       \/ /\ closeOnce = "done" /\ UNCHANGED <<closeOnce, forceReason>>
          /\ Goto(w, "done")
    /\ UNCHANGED <<mu, fields, endings, forced, abortErr, emission, host,
                   environment>>

PublishForced(w) ==
    /\ At(w, "publish") /\ Goto(w, "hostClose")
    /\ forced' = TRUE
    /\ UNCHANGED <<mu, fields, endings, closeOnce, forceReason, abortErr,
                   emission, host, environment>>

----------------------------------------------------------------------------
(* plugin.shutdown, the clock, and the client.                             *)

PluginStops == ~stopped /\ stopped' = TRUE /\ UNCHANGED <<expired, clientGone>>
DeadlinePasses ==
    /\ ~At("dl", "done") /\ ~expired /\ expired' = TRUE
    /\ UNCHANGED <<stopped, clientGone, mu, pc, fields, endings, forcing,
                   emission, host>>
ClientLeaves == ~clientGone /\ clientGone' = TRUE /\ UNCHANGED <<stopped, expired>>
ClientReads == queued > 0 /\ ~clientGone /\ queued' = queued - 1

Environment ==
    \/ /\ PluginStops \/ ClientLeaves
       /\ UNCHANGED <<mu, pc, fields, endings, forcing, emission, host>>
    \/ DeadlinePasses
    \/ /\ ClientReads
       /\ UNCHANGED <<mu, pc, fields, endings, forcing, emission, accepted,
                      streamClose, closeCalls, environment>>

Emission == EmitCheck \/ HostAccepts \/ HostRefuses

RoundTripCall ==
    \/ StartIdle \/ Start \/ DeliverOpened \/ RoundTripReturns \/ Finish
    \/ \E id \in Ids : Open(id) \/ Deliver(id)
    \/ \E e \in Failures \cup {Disconnected} : Fail(e)

Ending ==
    \/ FailBoundary \/ FailEmitted \/ FinishBoundary \/ Replayed
    \/ CloseStream \/ OnEnd \/ CloseOnce \/ HostClose("rt", closeErr, "return")
    \/ Return \/ FinishAfter

Watchdog(w) ==
    \/ w = "life" /\ (LifeCancelled \/ LifeGraceOver)
    \/ w = "dl" /\ DeadlineFires
    \/ WatchdogLeaves(w) \/ Abort(w) \/ PublishForced(w)
    \/ HostClose(w, abortErr[w], "done")

AllDone == \A t \in DOMAIN pc : pc[t] = "done"

\* The session is over; what remains is not a deadlock.
Rest == AllDone /\ UNCHANGED vars

Next ==
    \/ Emission \/ RoundTripCall \/ Ending \/ LogReturns
    \/ Tick \/ Beaten \/ HeartbeatStops
    \/ \E w \in Watchdogs : Watchdog(w)
    \/ Environment \/ Rest

(* Every goroutine keeps running and time passes.  Nothing is assumed of   *)
(* the client (it may never read or leave) nor of host.log (LogReturns).   *)
Fairness ==
    /\ WF_vars(Emission) /\ WF_vars(RoundTripCall) /\ WF_vars(Ending)
    /\ WF_vars(Beaten) /\ WF_vars(HeartbeatStops)
    /\ \A w \in Watchdogs : WF_vars(Watchdog(w))
    /\ WF_vars(DeadlinePasses)

Spec == Init /\ [][Next]_vars /\ Fairness

----------------------------------------------------------------------------
(* Properties.                                                             *)

Labels ==
    [rt : {"start", "started", "run", "opening", "deliverOpen", "deliver",
           "refused", "finish", "fail", "failing", "replaying", "closing",
           "hook", "logging", "close", "hostClose", "return", "summary",
           "done"},
     hb : {"wait", "beating", "done"},
     life : {"watch", "grace", "abort", "publish", "hostClose", "done"},
     dl : {"watch", "abort", "publish", "hostClose", "done"}]

ControlOK == mu \in {"free", "rt", "hb"} /\ pc \in Labels
FieldsOK ==
    /\ sequence \in Nat /\ responseID \in Ids
    /\ started \in BOOLEAN /\ closed \in BOOLEAN /\ disconnected \in BOOLEAN
EndingsOK ==
    /\ endOutcome \in Outcomes /\ record \in Exits \cup {"none"}
    /\ endErr \in Errors /\ failure \in Errors /\ closeErr \in Errors
ForcingOK ==
    /\ closeOnce \in {"free", "rt", "done"} \cup Watchdogs
    /\ forced \in BOOLEAN /\ forceReason \in Errors
    /\ abortErr \in [Watchdogs -> Errors]
EmissionOK == stage \in {"idle", "check", "host", "ok", "err"} /\ batch \in Batches
HostOK ==
    /\ queued \in 0 .. QueueCap /\ accepted \in Seq(Batches)
    /\ streamClose \in ErrorKinds \cup {"open"} /\ closeCalls \in Nat
EnvironmentOK == stopped \in BOOLEAN /\ expired \in BOOLEAN /\ clientGone \in BOOLEAN

\* Every variable of the session keeps to its type.
TypeOK ==
    /\ ControlOK /\ FieldsOK /\ EndingsOK /\ ForcingOK /\ EmissionOK
    /\ HostOK /\ EnvironmentOK

\* host.stream.close is called at most once, and exactly once by the time
\* the session has ended, whichever of the three goroutines got there first
\* (the comment on closeOnce: a second close could block for ever).
ClosedExactlyOnce == closeCalls <= 1 /\ (Ended => closeCalls = 1)

\* Whoever sees forced knows the close reason is the watchdog's: no ending
\* that ran in between closed the stream with a nil error and lost it (the
\* comment on abortDownstream).
ForcedOwnsClose ==
    forced =>
        /\ forceReason # NoErr
        /\ closeOnce \in Watchdogs \cup {"done"}
        /\ streamClose # "open" =>
               streamClose = IF forceReason = Stopped THEN "none"
                             ELSE forceReason.kind

\* Once ended is closed no host call of this session is in flight and the
\* heartbeat is gone: shutdown waits for ended sessions and then unloads
\* the host's callbacks.
EndedQuiescent ==
    Ended => /\ stage = "idle" /\ closeOnce = "done" /\ pc["hb"] = "done"
             /\ \A w \in Watchdogs : pc[w] \notin {"publish", "hostClose"}

\* An accepted completed replay and a "completed" summary go together: the
\* record says completed only if the host took the terminal events, and an
\* unforced ending that got them through is never recorded as anything else.
RecordTellsTruth ==
    LET completed == \E i \in DOMAIN accepted : accepted[i].kind = "completed"
    IN  /\ record = "completed" => completed
        /\ (completed /\ record # "none" /\ forceReason = NoErr)
               => record = "completed"

\* README: an ordinary ending writes the summary before host.stream.close,
\* so that the log line still carries the host's request id.
SummaryBeforeClose ==
    streamClose # "open" /\ forceReason = NoErr => record # "none"

\* A stopped plugin never starts replaying a complete response (the check is
\* made under ss.mu at the last output boundary), and a watchdog that had not
\* fired yet when it stopped closes without an error: an error at
\* host.stream.close makes CPA cool the credential down.
StopIsFinal ==
    [][stopped =>
          /\ batch.kind # "completed" => batch'.kind # "completed"
          /\ \A w \in Watchdogs :
                pc[w] \in {"watch", "grace"} /\ pc'[w] = "abort"
                    => abortErr'[w] = NoErr]_vars

\* Once the plugin stops, or with the deadline bound in any case, the host
\* stream is closed in the end even if the client never reads and host.log
\* never returns: nothing can hold it open.  A ws session has the stop only.
StreamEventuallyClosed ==
    (stopped \/ ~At("dl", "done")) ~> streamClose # "open"

\* If host.log keeps returning, a session that the deadline or a shutdown
\* reaches ends, together with all of its goroutines.
SessionEnds ==
    ([]<>(pc["rt"] # "logging") /\ <>(stopped \/ expired)) => <>AllDone

\* The session implements the contract of its downstream stream: refinement
\* of DownstreamStream by the payloads the host accepted and the close.  The
\* errors it may be closed with are those a round trip failed with, or the
\* deadline's, that are not the request's own (failLocked, abortDownstream).
Contract == INSTANCE DownstreamStream
                WITH frames <- accepted, close <- streamClose,
                     Blamed <- {e.kind : e \in {f \in Failures \cup {TimedOut} :
                                                   ~IsRequestScoped(f)}}
ContractHolds == Contract!Spec

=============================================================================
