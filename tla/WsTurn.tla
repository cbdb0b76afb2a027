------------------------------- MODULE WsTurn -------------------------------
(***************************************************************************)
(* A streaming request over a websocket (internal/basispoints/             *)
(* transport_ws.go): executeStreamWS waits up to one heartbeat for the     *)
(* dialling goroutine, hands the stream to the host and carries on in a    *)
(* goroutine of its own ("main" is both); each turn is one connection with *)
(* one response.create, and a listener that writes the cancel frame before *)
(* it lets the blocked Read go.  A rejected tool call opens a second turn. *)
(*                                                                         *)
(* One context bounds the request; the first to end it is its cause.  The  *)
(* session is StreamSession's, here only whether it is open and whether an *)
(* emit that holds ss.mu is blocked by the host.  The websocket library    *)
(* and the upstream are external: a connection may break at any time, and  *)
(* the upstream owes no answer.  A write of a cancel frame ends within two *)
(* seconds, so that the three seconds main waits for it never run out.     *)
(***************************************************************************)
EXTENDS Naturals

CONSTANTS
    HeartbeatOn,  \* heartbeat_seconds > 0: the wait for the dial has an end
    MaxTokens     \* bound: resume tokens the upstream issues per turn

ASSUME WsAssumption == HeartbeatOn \in BOOLEAN /\ MaxTokens \in Nat

Turns == {1, 2}
\* What ends a context, and what a turn that it ended is told.
CtxErrors == [deadline |-> "upstream_timeout", stop |-> "plugin_stopped",
              client |-> "client_disconnected"]
\* Frames that end a turn (with what error) or leave it to a finished response.
Frames == {"completed", "invalid_tool_call", "invalid_upstream_response",
           "upstream_error", "rate_limited", "server_draining"}
Verdicts == Frames \cup {"none", "upstream_transport", "invalid_config",
                         "upstream_timeout", "plugin_stopped", "client_disconnected"}

VARIABLES
    main, dialer,       \* where executeStreamWS and the dialling goroutine are
    turn,               \* the turn main is at
    ctx, stopped,       \* "live" or its first cause; the plugin was stopped
    \* per turn: its connection, response.create sent, the server's token
    conn, created, token,
    listener,           \* per turn: the goroutine that watches ctx
    loopDone, readCancelled, cancelSent,
    cancel,             \* per turn: [frame: the cancel frame's fate, token]
    known,              \* per turn: its token when ctx ended
    verdict,            \* per turn: how it returned
    session, blocked,   \* the downstream stream; an emit is blocked in it
    outcome             \* how the request ended

threads == <<main, dialer, turn, listener>>
context == <<ctx, stopped>>
wire == <<conn, created, token, cancel, known>>
signals == <<loopDone, readCancelled, cancelSent>>
downstream == <<session, blocked, outcome>>
vars == <<threads, context, wire, signals, verdict, downstream>>

PerTurn(x) == [t \in Turns |-> x]

Init ==
    /\ main = "connecting" /\ dialer = "dial" /\ turn = 1
    /\ ctx = "live" /\ stopped = FALSE
    /\ conn = PerTurn("none") /\ created = PerTurn(FALSE) /\ token = PerTurn(0)
    /\ listener = PerTurn("none") /\ loopDone = PerTurn(FALSE)
    /\ readCancelled = PerTurn(FALSE) /\ cancelSent = PerTurn(FALSE)
    /\ cancel = PerTurn([frame |-> "none", token |-> 0]) /\ known = PerTurn(0)
    /\ verdict = PerTurn("none")
    /\ session = "none" /\ blocked = FALSE /\ outcome = "none"

Ended == ctx # "live"

----------------------------------------------------------------------------
(* openWSTurn, by the dialling goroutine for the first turn and by main    *)
(* for the second: Goes(l) moves whichever of the two is at work.          *)

Opening(t, l) == IF t = 1 THEN dialer = l ELSE main = l
Goes(t, l) ==
    IF t = 1 THEN dialer' = l /\ UNCHANGED main ELSE main' = l /\ UNCHANGED dialer

\* wsDialError and the errors of the send: the context outranks the wire.
OpenError(otherwise) == IF Ended THEN CtxErrors[ctx] ELSE otherwise

Gives(t, v) == verdict' = [verdict EXCEPT ![t] = v]

Dials(t) ==
    /\ Opening(t, "dial") /\ ~Ended /\ Goes(t, "send")
    /\ conn' = [conn EXCEPT ![t] = "open"]
    /\ UNCHANGED <<turn, listener, context, created, token, cancel, known, signals,
                   verdict, downstream>>

DialRefused(t) ==
    /\ Opening(t, "dial") /\ Goes(t, "opened")
    /\ \E v \in {"upstream_transport", "rate_limited"} : Gives(t, OpenError(v))
    /\ UNCHANGED <<turn, listener, context, wire, signals, downstream>>

\* The context ends the handshake however long the upstream takes.
DialAborted(t) == Ended /\ DialRefused(t)

\* responses_url or proxy_url do not parse: no handshake at all.
DialImpossible(t) ==
    /\ Opening(t, "dial") /\ Goes(t, "opened") /\ Gives(t, "invalid_config")
    /\ UNCHANGED <<turn, listener, context, wire, signals, downstream>>

Sends(t) ==
    /\ Opening(t, "send") /\ ~Ended /\ conn[t] = "open" /\ Goes(t, "opened")
    /\ created' = [created EXCEPT ![t] = TRUE]
    /\ UNCHANGED <<turn, listener, context, conn, token, cancel, known, signals,
                   verdict, downstream>>

SendFails(t) ==
    /\ Opening(t, "send")
    /\ Goes(t, IF Ended THEN "sendCancel" ELSE "sendClose")
    /\ UNCHANGED <<turn, listener, context, wire, signals, verdict, downstream>>

SendAborted(t) == (Ended \/ conn[t] = "broken") /\ SendFails(t)

\* writeCancelFrame: the frame goes out, or its write fails.
WritesCancel(t, n) ==
    \E f \in (IF conn[t] = "open" THEN {"written"} ELSE {}) \cup {"failed"} :
        cancel' = [cancel EXCEPT ![t] = [frame |-> f, token |-> n]]

SendCancels(t) ==
    /\ Opening(t, "sendCancel") /\ Goes(t, "sendClose") /\ WritesCancel(t, 0)
    /\ UNCHANGED <<turn, listener, context, conn, created, token, known, signals,
                   verdict, downstream>>

\* Mutant: the connection of a failed send is left to the garbage collector.
CloseConn_leaky(t) ==
    IF created[t] THEN [conn EXCEPT ![t] = "closed"] ELSE conn

CloseConn(t) == [conn EXCEPT ![t] = "closed"]

SendCloses(t) ==
    /\ Opening(t, "sendClose") /\ Goes(t, "opened")
    /\ conn' = CloseConn(t) /\ Gives(t, OpenError("upstream_transport"))
    /\ UNCHANGED <<turn, listener, context, created, token, cancel, known, signals,
                   downstream>>

Open(t) ==
    \/ DialAborted(t) \/ SendAborted(t) \/ Sends(t) \/ SendCancels(t) \/ SendCloses(t)

----------------------------------------------------------------------------
(* executeStreamWS until the first turn is open.                           *)

\* failWith and a synchronous error both end in EndsWith.
Failing == /\ main' = "failing"
           /\ UNCHANGED <<listener, loopDone, readCancelled, cancelSent>>

StartsReading(t) == main' = "reading" /\ listener' = [listener EXCEPT ![t] = "watch"]

\* Within the grace: an error is answered synchronously, no stream was opened.
AnswersEarly ==
    /\ main = "connecting" /\ dialer = "opened" /\ verdict[1] # "none"
    /\ main' = "done" /\ outcome' = verdict[1]
    /\ ctx' = IF Ended THEN ctx ELSE "client"   \* cancel()
    /\ UNCHANGED <<dialer, turn, listener, stopped, wire, signals, verdict, session,
                   blocked>>

HandsOver ==
    /\ main = "connecting"
    /\ \/ dialer = "opened" /\ verdict[1] = "none"
       \/ HeartbeatOn /\ dialer # "opened"   \* the grace is over
    /\ main' = "start" /\ session' = "open"
    /\ UNCHANGED <<dialer, turn, listener, context, wire, signals, verdict, blocked,
                   outcome>>

\* session.start: response.created is emitted under ss.mu.
Starts ==
    /\ main = "start" /\ ~blocked /\ main' = "await"
    /\ UNCHANGED <<dialer, turn, listener, context, wire, signals, verdict, downstream>>

\* The first turn from the channel, the second from the call.
TurnOpened(t) ==
    /\ turn = t
    /\ IF t = 1 THEN main = "await" /\ dialer = "opened" ELSE main = "opened"
    /\ IF verdict[t] = "none" THEN StartsReading(t)
       ELSE main' = "failing" /\ UNCHANGED listener
    /\ UNCHANGED <<dialer, turn, context, wire, signals, verdict, downstream>>

----------------------------------------------------------------------------
(* readUntilCompleted, its listener, and the upstream's frames.            *)

Reading(t) == turn = t /\ main = "reading"
CanRead(t) == conn[t] = "open" /\ ~readCancelled[t]

\* Frames the turn skips change nothing; this one carries a new token.
ReadsToken(t) ==
    /\ Reading(t) /\ CanRead(t) /\ token[t] < MaxTokens
    /\ token' = [token EXCEPT ![t] = @ + 1]
    /\ UNCHANGED <<threads, context, conn, created, cancel, known, signals, verdict,
                   downstream>>

ReadsLast(t) ==
    /\ Reading(t) /\ CanRead(t)
    /\ \E f \in Frames : Gives(t, f)
    /\ main' = "leaving"
    /\ UNCHANGED <<dialer, turn, listener, context, wire, signals, downstream>>

\* Read fails: the connection broke, or the listener let it go.
ReadFails(t) ==
    /\ Reading(t) /\ ~CanRead(t)
    /\ IF Ended
       THEN main' = "waiting" /\ UNCHANGED verdict
       ELSE main' = "leaving" /\ Gives(t, "upstream_transport")
    /\ UNCHANGED <<dialer, turn, listener, context, wire, signals, downstream>>

\* Mutant: the reader closes the connection without waiting for the frame.
FrameIsOut_unwaited(t) == TRUE

FrameIsOut(t) == cancelSent[t]

WaitsForCancel(t) ==
    /\ turn = t /\ main = "waiting" /\ FrameIsOut(t)
    /\ conn' = CloseConn(t) /\ Gives(t, CtxErrors[ctx])
    /\ main' = "leaving"
    /\ UNCHANGED <<dialer, turn, listener, context, created, token, cancel, known,
                   signals, downstream>>

\* The deferred calls: close(loopDone) and readCancel, then the connection.
LeavesLoop(t) ==
    /\ turn = t /\ main = "leaving" /\ main' = "closing"
    /\ loopDone' = [loopDone EXCEPT ![t] = TRUE]
    /\ readCancelled' = [readCancelled EXCEPT ![t] = TRUE]
    /\ UNCHANGED <<dialer, turn, listener, context, wire, cancelSent, verdict,
                   downstream>>

Closes(t) ==
    /\ turn = t /\ main = "closing" /\ main' = "returned" /\ conn' = CloseConn(t)
    /\ UNCHANGED <<dialer, turn, listener, context, created, token, cancel, known,
                   signals, verdict, downstream>>

\* The listener's token is read under resumeMu, the frame is written later.
ListenerWakes(t) ==
    /\ listener[t] = "watch" /\ Ended
    /\ listener' = [listener EXCEPT ![t] = "write"]
    /\ cancel' = [cancel EXCEPT ![t].token = token[t]]
    /\ UNCHANGED <<main, dialer, turn, context, conn, created, token, known, signals,
                   verdict, downstream>>

ListenerWrites(t) ==
    /\ listener[t] = "write" /\ WritesCancel(t, cancel[t].token)
    /\ listener' = [listener EXCEPT ![t] = "ended"]
    /\ cancelSent' = [cancelSent EXCEPT ![t] = TRUE]
    /\ readCancelled' = [readCancelled EXCEPT ![t] = TRUE]
    /\ UNCHANGED <<main, dialer, turn, context, conn, created, token, known, loopDone,
                   verdict, downstream>>

ListenerLeaves(t) ==
    /\ listener[t] = "watch" /\ loopDone[t]
    /\ listener' = [listener EXCEPT ![t] = "ended"]
    /\ UNCHANGED <<main, dialer, turn, context, wire, signals, verdict, downstream>>

Listen(t) == ListenerWakes(t) \/ ListenerWrites(t) \/ ListenerLeaves(t)

Breaks(t) ==
    /\ conn[t] = "open" /\ conn' = [conn EXCEPT ![t] = "broken"]
    /\ UNCHANGED <<threads, context, created, token, cancel, known, signals, verdict,
                   downstream>>

----------------------------------------------------------------------------
(* The end of a turn.                                                      *)

\* relayRetryBody: one more turn, on a connection of its own.
Regenerates ==
    /\ main = "returned" /\ verdict[turn] = "invalid_tool_call" /\ turn = 1
    /\ main' = "dial" /\ turn' = 2
    /\ UNCHANGED <<dialer, listener, context, wire, signals, verdict, downstream>>

Returns ==
    /\ main = "returned" /\ ~(verdict[turn] = "invalid_tool_call" /\ turn = 1)
    /\ main' = IF verdict[turn] = "completed" THEN "finishing" ELSE "failing"
    /\ UNCHANGED <<dialer, turn, listener, context, wire, signals, verdict, downstream>>

\* session.finish looks at the plugin once more before it replays; a stream
\* the watchdog closed has its reason.  Then cancel and done.
Finishes ==
    /\ main \in {"finishing", "failing"} /\ ~blocked
    /\ outcome' = IF session = "closed" \/ (main = "finishing" /\ stopped)
                  THEN "plugin_stopped" ELSE verdict[turn]
    /\ session' = "closed" /\ main' = "done"
    /\ ctx' = IF Ended THEN ctx ELSE "client"
    /\ UNCHANGED <<dialer, turn, listener, stopped, wire, signals, verdict, blocked>>

----------------------------------------------------------------------------
(* What ends the context, and the emits of the session.                    *)

EndsCtx(cause) ==
    /\ ctx' = IF Ended THEN ctx ELSE cause
    /\ known' = IF Ended THEN known ELSE token

DeadlinePasses ==
    /\ ~Ended /\ EndsCtx("deadline")
    /\ UNCHANGED <<threads, stopped, conn, created, token, cancel, signals, verdict,
                   downstream>>

Shutdown ==
    /\ ~stopped /\ stopped' = TRUE /\ EndsCtx("stop")
    /\ UNCHANGED <<threads, conn, created, token, cancel, signals, verdict, downstream>>

EmitBlocks ==
    /\ session = "open" /\ ~blocked /\ blocked' = TRUE
    /\ UNCHANGED <<threads, context, wire, signals, verdict, session, outcome>>

\* The client reads, or it leaves and the emit fails, which cancels ctx.
EmitReturns ==
    /\ blocked /\ blocked' = FALSE
    /\ \/ UNCHANGED <<ctx, known>>
       \/ EndsCtx("client")
    /\ UNCHANGED <<threads, stopped, conn, created, token, cancel, signals, verdict,
                   session, outcome>>

\* Mutant: only the http branch binds the session to the plugin's life.
Forces_never == FALSE

Forces == stopped /\ session = "open"

\* bindLifecycle: the stream is closed under a blocked emit.
ForceClose ==
    /\ Forces /\ session' = "closed" /\ blocked' = FALSE
    /\ UNCHANGED <<threads, context, wire, signals, verdict, outcome>>

----------------------------------------------------------------------------
Main ==
    \/ AnswersEarly \/ HandsOver \/ Starts \/ Regenerates \/ Returns \/ Finishes
    \/ \E t \in Turns :
          TurnOpened(t) \/ ReadFails(t) \/ WaitsForCancel(t) \/ LeavesLoop(t) \/ Closes(t)

Upstream(t) ==
    Dials(t) \/ DialRefused(t) \/ ReadsToken(t) \/ ReadsLast(t) \/ Breaks(t)

Rest == main = "done" /\ UNCHANGED vars

Next ==
    \/ Main \/ DeadlinePasses \/ Shutdown \/ EmitBlocks \/ EmitReturns \/ ForceClose
    \/ \E t \in Turns :
          Open(t) \/ Listen(t) \/ Upstream(t) \/ DialImpossible(t) \/ SendFails(t)
    \/ Rest

(* The goroutines run, who waits for ss.mu gets it in its turn, and the    *)
(* library ends what its context ends.  The upstream, the client and the   *)
(* clock owe nothing.                                                      *)
Fairness ==
    /\ WF_vars(Main) /\ SF_vars(Starts \/ Finishes) /\ WF_vars(ForceClose)
    /\ \A t \in Turns : WF_vars(Open(t)) /\ WF_vars(Listen(t))
Spec == Init /\ [][Next]_vars /\ Fairness

----------------------------------------------------------------------------
(* Properties.                                                             *)

\* Once its response.create is out, a turn that its context ends closes the
\* connection only after the cancel frame was written or its write had failed,
\* and the frame names the newest resume token the turn knew when the context
\* ended (transport_ws.go:262-282,289-303).
CancelReachesUpstream ==
    \A t \in Turns :
        created[t] /\ (\E c \in DOMAIN CtxErrors : verdict[t] = CtxErrors[c])
            => cancel[t].frame # "none" /\ cancel[t].token >= known[t]

\* A request never has two connections, and none when it is over, however its
\* dial, its send or its turns ended (CHANGELOG.md:177, transport_ws.go:19-21).
OneConnection ==
    LET Held == {t \in Turns : conn[t] \in {"open", "broken"}}
    IN  /\ \A t, u \in Held : t = u
        /\ main = "done" => Held = {}

\* A stop ends the request though upstream and client are silent; any other
\* end of its context does so if no emit stays blocked for ever: without a
\* deadline watchdog a client that neither reads nor leaves keeps a ws
\* request past its timeout (transport_ws.go:386-389).
TurnEnds ==
    /\ stopped ~> main = "done"
    /\ []<>~blocked => (Ended ~> main = "done")

\* CHANGELOG.md:177: a request that plugin.shutdown interrupts ends normally,
\* with response.failed(plugin_stopped): a turn that had not returned when the
\* plugin stopped does not return an error its credential is cooled down for.
InterruptedEndsAsStopped ==
    [][\A t \in Turns :
          ctx = "stop" /\ verdict[t] = "none"
              => verdict'[t] \notin {"rate_limited", "upstream_transport",
                                    "upstream_timeout"}]_vars
=============================================================================
