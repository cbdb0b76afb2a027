--------------------------- MODULE UpstreamGuard ---------------------------
(***************************************************************************)
(* One upstream round trip under its guard (internal/basispoints/          *)
(* upstream_guard.go, upstream.go) and the caller that waits for it        *)
(* (awaitConnect and executeStream in service.go, guardedDo).  Threads:    *)
(*   "main"  the executor call, then the goroutine that reads the stream   *)
(*   "conn"  upstreamStream: do_stream, attach, the status                 *)
(*   "body"  the reader of a non-2xx body, readErrorBody                   *)
(*   "watch" the guard's watcher, the only thread woken by a signal        *)
(* g.mu is never held across a host call, so each of its critical sections *)
(* is one step.  The host's HTTP bridge is external: do_stream blocks      *)
(* until the upstream answers or its operation is cancelled, stream_read   *)
(* until data arrives or the stream is closed.                             *)
(***************************************************************************)
EXTENDS Naturals

CONSTANTS
    Modes,        \* "stream" (executeStream) and "do" (guardedDo)
    HeartbeatOn,  \* awaitConnect's grace > 0
    MaxChunks     \* cfg.MaxResponseBytes, in chunks

ASSUME GuardAssumption ==
    Modes \subseteq {"stream", "do"} /\ HeartbeatOn \in BOOLEAN /\ MaxChunks \in Nat

Threads == {"main", "conn", "body", "watch"}
Readers == {"main", "body"}
Reasons == {"plugin_stopped", "client_disconnected", "upstream_timeout"}
Verdicts == Reasons \cup {"none", "ok", "upstream_transport", "upstream_error",
                          "upstream_response_too_large", "delivery"}
Chunks == {"none", "data", "last", "eof", "error"}

VARIABLES
    mode, pc,
    \* the guard: reason, streamID # "", closeOnce, closed channels
    reason, attached, closeOnce, done, headers,
    \* what do_stream answered; the connected channel; the attempt's result
    answer, connected, verdict,
    \* per reader: the chunk just read, chunks buffered, how the read ended
    chunk, size, readEnd,
    \* the host: the operation, the upstream stream, stream_close calls, and
    \* whether a read saw the end of a stream that had been closed under it
    operation, stream, closeCalls, truncated,
    \* signals: runCtx done, stop closed, deadline passed; awaitConnect's
    \* grace passed, and whether headers had arrived by then
    shutdownC, stopC, late, graceOver, headersInTime

guard == <<reason, attached, closeOnce, done, headers>>
results == <<answer, connected, verdict>>
reading == <<chunk, size, readEnd>>
host == <<operation, stream, closeCalls, truncated>>
signals == <<shutdownC, stopC, late, graceOver, headersInTime>>
vars == <<mode, pc, guard, results, reading, host, signals>>

Init ==
    /\ mode \in Modes
    /\ pc = [main |-> "await", conn |-> "doing", body |-> "idle", watch |-> "select"]
    /\ reason = "none" /\ attached = FALSE /\ closeOnce = "free"
    /\ done = FALSE /\ headers = FALSE
    /\ answer = "none" /\ connected = "none" /\ verdict = "none"
    /\ chunk = [t \in Readers |-> "none"] /\ size = [t \in Readers |-> 0]
    /\ readEnd = [t \in Readers |-> "none"]
    /\ operation \in {"none", "open"}   \* operation_open may fail
    /\ stream = "none" /\ closeCalls = 0 /\ truncated = FALSE
    /\ shutdownC = FALSE /\ stopC = FALSE /\ late = FALSE
    /\ graceOver = FALSE /\ headersInTime = FALSE

At(t, label) == pc[t] = label
Goto(t, label) == pc' = [pc EXCEPT ![t] = label]

----------------------------------------------------------------------------
(* resolveLocked: sticky, then stop before disconnect before timeout.      *)

Signalled == shutdownC \/ stopC \/ late

Resolved ==
    CASE reason # "none" -> reason
      [] reason = "none" /\ shutdownC -> "plugin_stopped"
      [] reason = "none" /\ ~shutdownC /\ stopC -> "client_disconnected"
      [] reason = "none" /\ ~shutdownC /\ ~stopC /\ late -> "upstream_timeout"
      [] OTHER -> "none"

Aborted == Resolved # "none"

(* closeStream: closeOnce runs stream_close in the first caller and makes  *)
(* every other caller wait for it.                                         *)

CloseClaim(t) ==
    /\ closeOnce = "free" /\ closeOnce' = t
    /\ UNCHANGED <<mode, pc, reason, attached, done, headers, results, reading,
                   host, signals>>

\* The host closes the upstream stream, which also finishes its operation.
CloseHost(t, next) ==
    /\ closeOnce = t /\ closeOnce' = "done"
    /\ stream' = "closed" /\ closeCalls' = closeCalls + 1
    /\ operation' = IF operation = "open" THEN "finished" ELSE operation
    /\ Goto(t, next)
    /\ UNCHANGED <<mode, reason, attached, done, headers, results, reading,
                   truncated, signals>>

CloseSkip(t, next) ==
    /\ closeOnce = "done" /\ Goto(t, next)
    /\ UNCHANGED <<mode, guard, results, reading, host, signals>>

CloseStream(t, label, next) ==
    At(t, label) /\ (CloseClaim(t) \/ CloseHost(t, next) \/ CloseSkip(t, next))

CancelOperation(t, next) ==
    /\ operation' = IF operation = "none" THEN "none" ELSE "cancelled"
    /\ Goto(t, next)
    /\ UNCHANGED <<mode, guard, results, reading, stream, closeCalls, truncated,
                   signals>>

----------------------------------------------------------------------------
(* The watcher.                                                            *)

WatchDone ==
    /\ At("watch", "select") /\ done /\ Goto("watch", "exited")
    /\ UNCHANGED <<mode, guard, results, reading, host, signals>>

WatchWakes ==
    /\ At("watch", "select") /\ Signalled
    /\ reason' = Resolved /\ Goto("watch", "abort")
    /\ UNCHANGED <<mode, attached, closeOnce, done, headers, results, reading,
                   host, signals>>

\* abortUpstream: cancel unblocks the wait for headers, close the reads.
WatchCancels == At("watch", "abort") /\ CancelOperation("watch", "load")

\* Mutant: the watcher relies on the cancelled operation alone.
WatchLoads_cancelOnly ==
    /\ At("watch", "load") /\ Goto("watch", "exited")
    /\ UNCHANGED <<mode, guard, results, reading, host, signals>>

WatchLoads ==
    /\ At("watch", "load")
    /\ Goto("watch", IF attached THEN "close" ELSE "exited")
    /\ UNCHANGED <<mode, guard, results, reading, host, signals>>

WatchCloses == CloseStream("watch", "close", "exited")

----------------------------------------------------------------------------
(* upstreamStream on "conn".  The host answers with a 2xx stream, a stream *)
(* carrying an error status, no stream at all, or an error; in "do" mode   *)
(* there is never a stream.                                                *)

HostAnswers ==
    /\ At("conn", "doing")
    /\ \E a \in IF mode = "do" THEN {"ok", "error"} ELSE {"ok", "refused", "no_id", "error"} :
          /\ answer' = a
          /\ stream' = IF mode = "stream" /\ a \in {"ok", "refused"} THEN "open" ELSE stream
    /\ Goto("conn", IF mode = "do" THEN "check" ELSE "attach")
    /\ UNCHANGED <<mode, guard, connected, verdict, reading, operation, closeCalls,
                   truncated, signals>>

\* Cancelling the operation makes the blocked call fail.
HostAborts ==
    /\ At("conn", "doing") /\ operation = "cancelled"
    /\ answer' = "error"
    /\ Goto("conn", IF mode = "do" THEN "check" ELSE "attach")
    /\ UNCHANGED <<mode, guard, connected, verdict, reading, host, signals>>

\* attach: a stream that comes after the abort is closed at once.
Attach ==
    /\ At("conn", "attach")
    /\ attached' = (answer \in {"ok", "refused"})
    /\ Goto("conn", IF attached' /\ reason # "none" THEN "close" ELSE "mark")
    /\ UNCHANGED <<mode, reason, closeOnce, done, headers, results, reading, host,
                   signals>>

AttachCloses == CloseStream("conn", "close", "mark")

MarkHeaders ==
    /\ At("conn", "mark") /\ headers' = TRUE /\ Goto("conn", "check")
    /\ UNCHANGED <<mode, reason, attached, closeOnce, done, results, reading, host,
                   signals>>

\* The abort reason outranks what the host answered.
Answered ==
    IF Aborted THEN Resolved
    ELSE IF answer \in {"error", "no_id"} THEN "upstream_transport"
    ELSE "ok"

CheckAnswer ==
    /\ At("conn", "check") /\ reason' = Resolved
    /\ IF Answered = "ok" /\ answer = "refused"
       THEN /\ pc' = [pc EXCEPT !["conn"] = "bodyWait", !["body"] = "top"]
            /\ UNCHANGED connected
       ELSE Goto("conn", "ended") /\ connected' = Answered
    /\ verdict' = IF connected' \notin {"none", "ok"} THEN connected'
                  ELSE IF connected' = "ok" /\ mode = "do" THEN "ok" ELSE verdict
    /\ UNCHANGED <<mode, attached, closeOnce, done, headers, answer, reading, host,
                   signals>>

\* readErrorBody: the body's end or its own two-second limit closes the stream.
BodyLimit ==
    /\ At("conn", "bodyWait") /\ Goto("conn", "bodyClose")
    /\ UNCHANGED <<mode, guard, results, reading, host, signals>>

BodyCloses == CloseStream("conn", "bodyClose", "bodyDrain")

\* Mutant: the status is reported without asking whether the guard aborted.
BodyVerdict_status == "upstream_error"

BodyVerdict == IF Aborted THEN Resolved ELSE "upstream_error"

BodyReported ==
    /\ At("conn", "bodyDrain") /\ readEnd["body"] # "none"
    /\ reason' = Resolved
    /\ connected' = BodyVerdict /\ verdict' = connected'
    /\ Goto("conn", "ended")
    /\ UNCHANGED <<mode, attached, closeOnce, done, headers, answer, reading, host,
                   signals>>

----------------------------------------------------------------------------
(* readGuardedInto on a reader.                                            *)

EndRead(t, how) ==
    /\ readEnd' = [readEnd EXCEPT ![t] = how]
    /\ verdict' = IF t = "main" THEN how ELSE verdict
    /\ Goto(t, IF t = "main" THEN "release" ELSE "ended")

ReadTop(t) ==
    /\ At(t, "top") /\ reason' = Resolved
    /\ IF Aborted THEN EndRead(t, Resolved)
       ELSE Goto(t, "reading") /\ UNCHANGED <<readEnd, verdict>>
    /\ UNCHANGED <<mode, attached, closeOnce, done, headers, answer, connected,
                   chunk, size, host, signals>>

\* The host returns a read: data, the last data, the end, or an error.
HostReads(t) ==
    /\ At(t, "reading") /\ stream = "open"
    /\ \E c \in Chunks \ {"none"} : chunk' = [chunk EXCEPT ![t] = c]
    /\ Goto(t, "read")
    /\ UNCHANGED <<mode, guard, results, size, readEnd, host, signals>>

\* On a closed stream the read fails, or ends as if the stream were over.
HostCutsRead(t) ==
    /\ At(t, "reading") /\ stream = "closed"
    /\ \E c \in {"eof", "error"} : chunk' = [chunk EXCEPT ![t] = c]
    /\ truncated' = TRUE
    /\ Goto(t, "read")
    /\ UNCHANGED <<mode, guard, results, size, readEnd, operation, stream,
                   closeCalls, signals>>

\* Mutant: a read is judged by what it returned, not by why it returned.
AfterRead_trusting(t) ==
    IF chunk[t] = "error" THEN "upstream_transport"
    ELSE IF chunk[t] \in {"data", "last"} /\ size[t] + 1 > MaxChunks
         THEN "upstream_response_too_large"
    ELSE IF chunk[t] = "eof" THEN "ok" ELSE "none"

\* The verdict right after a read; "none" hands the chunk to onChunk.
AfterRead(t) ==
    IF Aborted THEN Resolved
    ELSE IF chunk[t] = "error" THEN "upstream_transport"
    ELSE IF chunk[t] \in {"data", "last"} /\ size[t] + 1 > MaxChunks
         THEN "upstream_response_too_large"
    ELSE IF chunk[t] = "eof" THEN "ok" ELSE "none"

ReadReturns(t) ==
    /\ At(t, "read") /\ reason' = Resolved
    /\ IF AfterRead(t) # "none"
       THEN EndRead(t, AfterRead(t)) /\ UNCHANGED size
       ELSE /\ size' = [size EXCEPT ![t] = @ + 1] /\ Goto(t, "chunk")
            /\ UNCHANGED <<readEnd, verdict>>
    /\ UNCHANGED <<mode, attached, closeOnce, done, headers, answer, connected,
                   chunk, host, signals>>

\* onChunk may block in the downstream session; a client that left ends the
\* read silently, else the abort reason outranks the callback's own error.
AfterChunk(t, said) ==
    IF said = "client_disconnected" THEN said
    ELSE IF Aborted THEN Resolved
    ELSE IF said # "ok" THEN said
    ELSE IF chunk[t] = "last" THEN "ok" ELSE "none"

ChunkReturns(t) ==
    /\ At(t, "chunk")
    /\ \E said \in IF t = "main" THEN {"ok", "client_disconnected", "delivery"}
                   ELSE {"ok"} :
          /\ reason' = IF said = "client_disconnected" THEN reason ELSE Resolved
          /\ IF AfterChunk(t, said) # "none" THEN EndRead(t, AfterChunk(t, said))
             ELSE Goto(t, "top") /\ UNCHANGED <<readEnd, verdict>>
    /\ UNCHANGED <<mode, attached, closeOnce, done, headers, answer, connected,
                   chunk, size, host, signals>>

BodyEnds ==
    /\ At("conn", "bodyWait") /\ readEnd["body"] # "none" /\ Goto("conn", "bodyClose")
    /\ UNCHANGED <<mode, guard, results, reading, host, signals>>

Reads ==
    \E t \in Readers : ReadTop(t) \/ HostReads(t) \/ HostCutsRead(t)
                       \/ ReadReturns(t) \/ ChunkReturns(t)

----------------------------------------------------------------------------
(* The caller.  awaitConnect waits for the connection within the grace;    *)
(* then the executor call either answers synchronously or returns with the *)
(* stream open ("late") and its goroutine keeps waiting.                   *)

\* connected is received: an error releases the guard, a stream is read.
TakeConnected ==
    /\ pc["main"] \in {"await", "overdue", "awaitResult", "late"} /\ connected # "none"
    /\ Goto("main", IF connected = "ok" /\ mode = "stream" THEN "top" ELSE "release")
    /\ UNCHANGED <<mode, guard, results, reading, host, signals>>

GraceTimer ==
    /\ At("main", "await") /\ mode = "stream" /\ graceOver /\ Goto("main", "overdue")
    /\ UNCHANGED <<mode, guard, results, reading, host, signals>>

\* Mutant: a result that is not ready when the timer fires is never awaited.
AfterGrace_never == "late"

AfterGrace == IF headers THEN "awaitResult" ELSE "late"

\* Non-blocking looks at connected, then at headers.
GraceExpired ==
    /\ At("main", "overdue") /\ connected = "none" /\ Goto("main", "overdue2")
    /\ UNCHANGED <<mode, guard, results, reading, host, signals>>

LookAtHeaders ==
    /\ At("main", "overdue2") /\ Goto("main", AfterGrace)
    /\ UNCHANGED <<mode, guard, results, reading, host, signals>>

(* release: stop the watcher, wait for it, close what is left.             *)

\* Mutant: release signals the watcher but does not wait for it.
Joined_unwaited == done

Joined == done /\ At("watch", "exited")

ReleaseDone ==
    /\ At("main", "release") /\ done' = TRUE /\ Goto("main", "join")
    /\ UNCHANGED <<mode, reason, attached, closeOnce, headers, results, reading,
                   host, signals>>

\* Mutant: only a stream that was read is closed; a refused one is left.
ReleaseStep_read == IF verdict = "ok" /\ attached THEN "close" ELSE "cancel"

ReleaseStep == IF attached THEN "close" ELSE "cancel"

ReleaseJoins ==
    /\ At("main", "join") /\ Joined /\ Goto("main", ReleaseStep)
    /\ UNCHANGED <<mode, guard, results, reading, host, signals>>

ReleaseCloses == CloseStream("main", "close", "released")
ReleaseCancels == At("main", "cancel") /\ CancelOperation("main", "released")

----------------------------------------------------------------------------
(* Signals: plugin.shutdown, the client leaving, the deadline, the grace.  *)

Shutdown == ~shutdownC /\ shutdownC' = TRUE /\ UNCHANGED <<stopC, late, graceOver, headersInTime>>
ClientLeaves ==
    /\ mode = "stream" /\ ~stopC /\ stopC' = TRUE
    /\ UNCHANGED <<shutdownC, late, graceOver, headersInTime>>
Deadline == ~late /\ late' = TRUE /\ UNCHANGED <<shutdownC, stopC, graceOver, headersInTime>>
Grace ==
    /\ mode = "stream" /\ HeartbeatOn /\ ~graceOver
    /\ graceOver' = TRUE /\ headersInTime' = headers
    /\ UNCHANGED <<shutdownC, stopC, late>>
Signal ==
    /\ Shutdown \/ ClientLeaves \/ Deadline \/ Grace
    /\ UNCHANGED <<mode, pc, guard, results, reading, host>>

Released ==
    /\ At("main", "released") /\ At("watch", "exited") /\ UNCHANGED vars

Watch == WatchDone \/ WatchWakes \/ WatchCancels \/ WatchLoads \/ WatchCloses
Connect == Attach \/ AttachCloses \/ MarkHeaders \/ CheckAnswer \/ BodyEnds
           \/ BodyLimit \/ BodyCloses \/ BodyReported
Main == TakeConnected \/ GraceTimer \/ GraceExpired \/ LookAtHeaders
        \/ ReleaseDone \/ ReleaseJoins \/ ReleaseCloses \/ ReleaseCancels

Next == Watch \/ HostAnswers \/ HostAborts \/ Connect \/ Reads \/ Main \/ Signal
        \/ Released

(* The goroutines are scheduled; host calls that do not wait for the       *)
(* upstream return, and so do a cancelled do_stream, a read of a closed    *)
(* stream and onChunk (StreamSession forces its emit out).  The upstream   *)
(* itself owes nothing: no fairness on HostAnswers or HostReads.           *)
Fairness ==
    /\ WF_vars(Watch) /\ WF_vars(HostAborts) /\ WF_vars(Connect) /\ WF_vars(Main)
    /\ \A t \in Readers : WF_vars(ReadTop(t) \/ HostCutsRead(t) \/ ReadReturns(t)
                                  \/ ChunkReturns(t))
Spec == Init /\ [][Next]_vars /\ Fairness

----------------------------------------------------------------------------
(* Properties.                                                             *)

\* Whoever closes the upstream stream - watcher, attach, the error-body reader
\* or release - it is closed at most once, and when release returns no stream
\* and no operation is left behind in the host (upstream_guard.go:124-128,184-199).
NothingLeaks ==
    /\ closeCalls <= 1
    /\ At("main", "released") => stream # "open" /\ operation # "open"

\* After release returns no thread of the round trip calls the host again: the
\* watcher is gone and so are the connecting and reading goroutines, so the
\* WaitGroup may be signalled (upstream_guard.go:20-21).
QuietOnceReleased ==
    At("main", "released") =>
        /\ At("watch", "exited") /\ At("conn", "ended")
        /\ pc["body"] \in {"idle", "ended"} /\ closeOnce \in {"free", "done"}

\* A buffer cut short because the stream was closed under the read is never
\* returned as a complete response (upstream.go:251-254).
TruncatedNeverComplete == verdict = "ok" => ~truncated

\* Once the plugin was stopped the attempt ends as stopped, unless an earlier
\* abort was already on record or the client left: never with a status, a
\* timeout or a transport error that would cool the credential, and never as
\* a success (upstream.go:182-189, upstream_guard.go:144-170).
StopIsReported ==
    [][verdict = "none" /\ verdict' # "none" /\ shutdownC
           => verdict' \in {"plugin_stopped", "client_disconnected", reason}]_vars

\* Response headers that arrived within the grace are answered synchronously:
\* the stream is not handed to the host while their status is still being
\* read (service.go:185-191,434-443).
HeadersInTimeAnswered == headersInTime => ~At("main", "late")

\* A stop, a disconnect or the deadline ends the attempt even when the upstream
\* stays silent, provided the host gave an operation or a stream to cancel
\* (upstream_guard.go:8-18).
AbortReleases ==
    (Signalled /\ (operation # "none" \/ attached)) ~> At("main", "released")
=============================================================================
