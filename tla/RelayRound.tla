----------------------------- MODULE RelayRound -----------------------------
(***************************************************************************)
(* One execution from admission to its relay_summary record                *)
(* (internal/basispoints/service.go execute, executeOnce, executeStream;   *)
(* transport_ws.go executeStreamWS; relay_summary.go), in its three forms: *)
(* without a stream, streaming over http and streaming over a websocket.   *)
(* It issues one round trip, validates the tool calls of the answer as one *)
(* batch, and may have a rejected batch regenerated once.  Two watchdogs   *)
(* may close the downstream stream at any time.                            *)
(*                                                                         *)
(* A round trip is one step to connect and one to read here; its guard is  *)
(* UpstreamGuard's, a ws connection WsTurn's, the session StreamSession's, *)
(* the text it delivers StreamDelivery's.  "held" stands for the guard or  *)
(* the connection of the attempt.                                          *)
(***************************************************************************)
EXTENDS RelayConversion

CONSTANTS
    Modes,     \* the forms an execution may have
    Sources,   \* the client's requests
    Answers    \* the native calls of an upstream response

Key == Seq(STRING)
ToolSpec == [ns : Key, name : Key \ {<<>>}, type : STRING, def : STRING]
ToolChoice ==
    [kind : STRING, tools : Seq([key : Key, type : STRING]), required : BOOLEAN]
\* (The types that are not treated on their own are "message" here.)
ItemTypes ==
    CallTypes \cup OutputTypes \cup
        {"reasoning", "item_reference", "additional_tools", "compaction_trigger", "message"}
Payloads == Texts \cup {"object", ""}
Item == [type : ItemTypes, ns : Key, name : Key, id : STRING, payload : Payloads]
Native ==
    [outer : BOOLEAN, parsed : BOOLEAN, refs : [kind : STRING, name : Key],
     code : [text : Texts \cup {"none"}, tool : Key, args : STRING], id : STRING]

ASSUME RelayAssumption ==
    /\ Modes \subseteq {"once", "http", "ws"}
    /\ \A s \in Sources :
          /\ DOMAIN s = {"tools", "topLevel", "choice", "parallel", "history"}
          /\ s.tools \in Seq(ToolSpec) /\ s.choice \in ToolChoice
          /\ s.topLevel \in BOOLEAN /\ s.parallel \in BOOLEAN /\ s.history \in Seq(Item)
    /\ \A a \in Answers : a \in Seq(Native)

Transformed ==
    [s \in Sources |-> [a \in Answers |-> transformResponseBodyStats(s, a)]]

\* (A response that transformResponseBodyStats cannot decode was parsed before.)
Valid == {"no_call", "ok", "legacy"}
Results == Valid \cup {"not_run", "invalid"}
RequestScoped == {"invalid_request", "invalid_tool_call", "invalid_upstream_response"}
Upstreams == {"upstream_transport", "rate_limited"}
Aborts == {"plugin_stopped", "upstream_timeout", "client_disconnected"}
Errors == {"none"} \cup RequestScoped \cup Upstreams \cup Aborts

VARIABLES
    mode, buffered,    \* the form; stream_tool_mode holds the text back
    source, answer,    \* the request; the response's calls until they are checked
    pc, attempt, err,  \* where; the attempt's index; what it failed with
    counted, held,     \* in the generation's WaitGroup; the attempt's resources
    session, forced,   \* the downstream stream; a watchdog's reason
    told, end,         \* what the client was told in the end, and for the record
    \* relaySummary: its counters and the preset exit, which is "unset" if empty
    attempts, first, final, checks, regen, text, incomplete, preset,
    record,            \* the record written, NoRecord before
    rounds,            \* history: the attempts' validation results
    stopped, expired, clientGone

form == <<mode, buffered, source>>
place == <<form, pc, attempt, err, end, answer>>
resources == <<counted, held, session, forced>>
summary == <<attempts, first, final, checks, regen, text, incomplete, preset>>
environment == <<stopped, expired, clientGone>>
vars == <<place, resources, told, summary, record, rounds, environment>>

NoRecord == [exit |-> "none", kind |-> "none", regen |-> "none"]

Init ==
    /\ mode \in Modes /\ buffered \in BOOLEAN /\ (buffered => mode = "http")
    /\ source \in Sources /\ answer = <<>>
    /\ pc = "begin" /\ attempt = 0 /\ err = "none"
    /\ counted = FALSE /\ held = FALSE /\ session = "none" /\ forced = "none"
    /\ told = "nothing" /\ end = [exit |-> "unset", kind |-> "none"]
    /\ attempts = 0 /\ first = "not_run" /\ final = "not_run" /\ checks = 0
    /\ regen = FALSE /\ text = FALSE /\ incomplete = FALSE /\ preset = "unset"
    /\ record = NoRecord /\ rounds = <<>>
    /\ stopped = FALSE /\ expired = FALSE /\ clientGone = FALSE

Goto(l) == pc' = l /\ UNCHANGED <<form, attempt, err, end, answer>>
Streams == mode # "once"

----------------------------------------------------------------------------
(* relay_summary.go.                                                       *)

ExitForError(e) ==
    CASE e = "none"                -> "completed"
      [] e = "client_disconnected" -> "cancelled"
      [] e = "plugin_stopped"      -> "stopped"
      [] e = "upstream_timeout"    -> "timeout"
      [] OTHER -> IF e \in RequestScoped THEN "failed" ELSE "upstream_error"

\* Mutant: a new attempt keeps the result of the one before it.
Reset_never == final

Reset == IF attempts > 0 THEN "not_run" ELSE final

AttemptStarted ==
    /\ attempts' = attempts + 1 /\ final' = Reset
    /\ rounds' = Append(rounds, "not_run")
    /\ UNCHANGED <<first, checks, regen, text, incomplete, preset>>

Validated(r) ==
    /\ checks' = checks + 1 /\ final' = r
    /\ first' = IF first = "not_run" THEN r ELSE first
    /\ rounds' = [rounds EXCEPT ![Len(rounds)] = r]

\* The outcome of the regeneration, told from the counters.
Regenerated ==
    IF ~regen THEN "none"
    ELSE IF checks >= 2 /\ final \in Valid THEN "success"
    ELSE IF checks >= 2 /\ final \in {"invalid", "other"} THEN "exhausted"
    ELSE "aborted"

\* finish, through finishAfter if there is a session: the watchdog's reason,
\* the caller's exit, the preset one, the error's, in this order.
Write(exit, e) ==
    LET named == IF forced # "none" THEN ExitForError(forced)
                 ELSE IF exit # "unset" THEN exit
                 ELSE IF preset # "unset" THEN preset ELSE ExitForError(e)
    IN  record' = [exit |-> IF named = "completed" /\ incomplete THEN "incomplete"
                            ELSE named,
                   kind |-> IF forced # "none" THEN forced ELSE e,
                   regen |-> Regenerated]

----------------------------------------------------------------------------
(* Ways to end: a synchronous answer, an error of the stream, a result.    *)

\* A streaming call answers with an error: done first, then the record.
AnswersError(exit, e) ==
    /\ pc' = "leaveFirst" /\ err' = e /\ preset' = exit
    /\ UNCHANGED <<form, attempt, end, answer>>

\* failWith, or executeOnce returns.
FailsWith(exit, e) ==
    /\ pc' = IF Streams THEN "failing" ELSE "log"
    /\ err' = e /\ preset' = IF Streams THEN exit ELSE preset
    /\ UNCHANGED <<form, attempt, end, answer>>

SameCounters == UNCHANGED <<attempts, first, final, checks, regen, text, incomplete>>

\* Not admitted: a record, but nothing to leave.
Begin ==
    /\ pc = "begin"
    /\ IF stopped
       THEN /\ pc' = "log" /\ err' = "plugin_stopped" /\ UNCHANGED counted
       ELSE /\ pc' = "prepare" /\ err' = err /\ counted' = TRUE
    /\ UNCHANGED <<form, attempt, end, answer, held, session, forced, told, summary, record,
                   rounds, environment>>

Aborted ==
    {e \in Aborts : \/ e = "plugin_stopped" /\ stopped
                    \/ e = "upstream_timeout" /\ expired
                    \/ e = "client_disconnected" /\ clientGone}

\* prepareRequest with its uploads, or no stream_id.  (requestSource cannot fail
\* once prepareRequest has parsed the same bytes.)
PrepareFails ==
    /\ pc = "prepare"
    /\ \E e \in {"invalid_request", "upstream_transport"} \cup Aborted :
          /\ Refused(source) => e = "invalid_request"
          /\ AnswersError("prepare_error", e)
    /\ SameCounters
    /\ UNCHANGED <<resources, told, record, rounds, environment>>

\* http has its guard before the attempt is counted; without a stream the
\* attempt is counted first and guardedDo looks at the deadline.
Prepares ==
    /\ pc = "prepare" /\ ~Refused(source) /\ Goto(IF mode = "once" THEN "issue" ELSE "trip")
    /\ AttemptStarted /\ held' = Streams
    /\ UNCHANGED <<counted, session, forced, told, record, environment>>

Issues ==
    /\ pc = "issue"
    /\ IF expired
       THEN FailsWith("unset", "upstream_timeout") /\ UNCHANGED held
       ELSE Goto("trip") /\ held' = TRUE /\ UNCHANGED preset
    /\ UNCHANGED <<counted, session, forced, told, attempts, first, final, checks, regen,
                   text, incomplete, record, rounds, environment>>

\* The grace is over before the upstream answered.
GraceOver ==
    /\ pc = "trip" /\ Streams /\ session = "none" /\ attempt = 0
    /\ session' = "open"
    /\ UNCHANGED <<place, counted, held, forced, told, summary, record, rounds,
                   environment>>

Connects ==
    /\ pc = "trip" /\ Goto("reading")
    /\ session' = IF Streams /\ session = "none" THEN "open" ELSE session
    /\ UNCHANGED <<counted, held, forced, told, summary, record, rounds, environment>>

\* Mutant: the guard of a failed connection is not released.
Released_read == pc = "trip"

\* release, or the connection's close, precedes every end of an attempt.
Released == FALSE

TripFails(e) ==
    /\ pc = "trip" /\ held' = Released
    /\ IF Streams /\ session = "none"
       THEN AnswersError("connect_error", e)
       ELSE FailsWith(IF attempt = 0 THEN "connect_error" ELSE "unset", e)
    /\ SameCounters
    /\ UNCHANGED <<counted, session, forced, told, record, rounds, environment>>

\* Text of the answer goes out, unless it is held back to the end; the summary
\* says so before the session gets to see it.
Delivers ==
    /\ pc = "reading" /\ mode = "http" /\ ~text
    /\ ~buffered \/ callableClientToolSpecs(source) = {}
    /\ text' = TRUE
    /\ UNCHANGED <<place, resources, told, attempts, first, final, checks, regen,
                   incomplete, preset, record, rounds, environment>>

ReadFails(e) ==
    /\ pc = "reading" /\ held' = Released /\ FailsWith("unset", e) /\ SameCounters
    /\ UNCHANGED <<counted, session, forced, told, record, rounds, environment>>

\* A response that parses and agrees with what was delivered of it.
Parses ==
    /\ pc = "reading" /\ pc' = "validating" /\ answer' \in Answers /\ held' = Released
    /\ UNCHANGED <<form, attempt, err, end, counted, session, forced, told, summary,
                   record, rounds, environment>>

\* Its tool calls are checked; it may have been cut short.
Validates ==
    /\ pc = "validating" /\ answer' = <<>>
    /\ LET r == relayResult(Transformed[source][answer])
       IN  /\ Validated(r)
           /\ \E cut \in BOOLEAN :
                 IF r \in Valid
                 THEN /\ incomplete' = cut /\ UNCHANGED <<err, regen>>
                      /\ pc' = IF Streams THEN "finishing" ELSE "log"
                 ELSE /\ UNCHANGED incomplete
                      /\ IF attempt = 0 /\ ~cut /\ ~text
                         THEN pc' = "retry" /\ regen' = TRUE /\ UNCHANGED err
                         ELSE /\ pc' = IF Streams THEN "failing" ELSE "log"
                              /\ err' = "invalid_tool_call" /\ UNCHANGED regen
    /\ preset' = IF pc' = "failing" THEN "unset" ELSE preset
    /\ UNCHANGED <<form, attempt, end, resources, told, attempts, text, record,
                   environment>>

\* The second round trip has what is left of the first one's time.  http asks
\* before it starts the attempt, the others start it and fail at once.
Retries ==
    /\ pc = "retry"
    /\ IF mode = "http" /\ expired
       THEN /\ FailsWith("unset", "upstream_timeout") /\ SameCounters
            /\ UNCHANGED <<held, rounds>>
       ELSE /\ AttemptStarted /\ attempt' = 1 /\ held' = Streams
            /\ pc' = (IF mode = "once" THEN "issue" ELSE "trip")
            /\ UNCHANGED <<form, err, end, answer>>
    /\ UNCHANGED <<counted, session, forced, told, record, environment>>

----------------------------------------------------------------------------
(* The session's finish and fail, its hook, and what follows.              *)

Ends(exit, kind, what) ==
    /\ pc' = "writing" /\ end' = [exit |-> exit, kind |-> kind] /\ told' = what
    /\ UNCHANGED <<form, attempt, err, answer, resources, summary, record, rounds,
                   environment>>

\* At the output boundary a stopped plugin fails instead.
Finishes ==
    /\ pc = "finishing"
    /\ IF forced # "none" \/ clientGone
       THEN Ends("cancelled", IF stopped THEN "plugin_stopped" ELSE "none", "silence")
       ELSE IF stopped THEN Ends("unset", "plugin_stopped", "failed")
       ELSE Ends("completed", "none", "completed")

\* Only an emit tells that the client has left: one of the heartbeat's before,
\* or that of response.failed.
Fails ==
    /\ pc = "failing"
    /\ LET Event == err \in RequestScoped \cup {"plugin_stopped"}
       IN  \/ /\ forced # "none" \/ clientGone \/ err = "client_disconnected"
              /\ Ends("cancelled", err, "silence")
           \/ /\ forced = "none" /\ err # "client_disconnected" /\ (Event => ~clientGone)
              /\ Ends("unset", err, IF Event THEN "failed" ELSE "error")

\* The hook, or finishAfter if a watchdog has been there since.
Writes ==
    /\ pc = "writing" /\ Write(end.exit, end.kind) /\ Goto("close")
    /\ UNCHANGED <<resources, told, summary, rounds, environment>>

\* host.stream.close, then done.
Closes ==
    /\ pc = "close" /\ session' = "closed" /\ counted' = FALSE /\ Goto("done")
    /\ UNCHANGED <<held, forced, told, summary, record, rounds, environment>>

\* A synchronous error leaves the generation, then logs.
LeavesFirst ==
    /\ pc = "leaveFirst" /\ counted' = FALSE /\ Goto("log")
    /\ UNCHANGED <<held, session, forced, told, summary, record, rounds, environment>>

Logs ==
    /\ pc = "log" /\ Write("unset", err) /\ Goto("leave")
    /\ told' = IF err = "none" THEN "completed" ELSE "error"
    /\ UNCHANGED <<resources, summary, rounds, environment>>

Leaves ==
    /\ pc = "leave" /\ counted' = FALSE /\ Goto("done")
    /\ UNCHANGED <<held, session, forced, told, summary, record, rounds, environment>>

\* bindLifecycle, and over http bindDeadline, which yields to a stop.  The close
\* that would carry an error is then the watchdog's.
Forces ==
    /\ session = "open" /\ forced = "none"
    /\ \/ stopped /\ forced' = "plugin_stopped"
       \/ expired /\ ~stopped /\ mode = "http" /\ forced' = "upstream_timeout"
    /\ session' = "closed" /\ told' = IF told = "error" THEN "silence" ELSE told
    /\ UNCHANGED <<place, counted, held, summary, record, rounds, environment>>

----------------------------------------------------------------------------
PluginStops == ~stopped /\ stopped' = TRUE /\ UNCHANGED <<expired, clientGone>>
DeadlinePasses ==
    /\ pc \notin {"begin", "prepare"} /\ ~expired /\ expired' = TRUE
    /\ UNCHANGED <<stopped, clientGone>>
ClientLeaves ==
    /\ session = "open" /\ ~clientGone /\ clientGone' = TRUE
    /\ UNCHANGED <<stopped, expired>>
Environment ==
    /\ PluginStops \/ DeadlinePasses \/ ClientLeaves
    /\ UNCHANGED <<place, resources, told, summary, record, rounds>>

Upstream ==
    \/ PrepareFails \/ Connects \/ Delivers \/ Parses
    \/ \E e \in Upstreams : TripFails(e)
    \/ \E e \in Upstreams \cup {"invalid_upstream_response"} : ReadFails(e)

Abort == \E e \in Aborted : TripFails(e) \/ ReadFails(e)

Run == \/ Begin \/ Prepares \/ Issues \/ Validates \/ Retries \/ Finishes \/ Fails \/ Writes
       \/ Closes \/ LeavesFirst \/ Logs \/ Leaves

Next ==
    \/ Run \/ Abort \/ Upstream \/ GraceOver \/ Forces \/ Environment
    \/ pc = "done" /\ UNCHANGED vars

Spec == Init /\ [][Next]_vars

----------------------------------------------------------------------------
(* Properties.                                                             *)

\* The tool that a native call names, what it carries, and whether it is sound.
Tool(n) ==
    IF n.refs.kind = "one" THEN n.refs.name
    ELSE IF n.refs.kind \in {"absent", "empty"} /\ n.code.text = "envelope"
    THEN n.code.tool ELSE <<>>
Carries(n) == IF n.refs.kind = "one" THEN n.code.text ELSE n.code.args
Fits(n, t) ==
    /\ clientToolCallName(t) = Tool(n)
    /\ IF t.type = "custom" THEN Carries(n) \in Texts
       ELSE \/ Carries(n) \in {"json", "quoted", "object"}
            \/ t.def # "strict" /\ Carries(n) \in {"bad", "envelope"}
Sound(callable, n) ==
    /\ n.outer /\ n.parsed /\ n.id # "" /\ Tool(n) \notin TransportNames
    /\ \E t \in callable : Fits(n, t)

AllOrNothing(s, a, b, callable, told_of) ==
    /\ b.reason = "" <=>
          /\ \A i \in DOMAIN a : Sound(callable, a[i])
          /\ \A i, j \in DOMAIN a : a[i].id = a[j].id => i = j
          /\ ~s.parallel => Len(a) <= 1
          /\ clientToolCallRequired(s) => a # <<>>
    /\ b.reason = "" =>
          /\ Len(b.calls) = Len(a)
          /\ \A i \in DOMAIN a :
                /\ b.calls[i].id = a[i].id
                /\ clientToolCallName(b.calls[i]) = Tool(a[i])
    /\ b.reason # "" => b.calls = <<>>
    /\ \A t \in callable : \E i \in told_of :
          /\ SameSpec(t, s.tools[i])
          /\ \A j \in told_of :
                clientToolCallName(s.tools[j]) = clientToolCallName(t) => j = i

\* The client sends the calls back, each with its output.
Echo(calls) ==
    [j \in 1..(2 * Len(calls)) |->
        LET i == (j + 1) \div 2
        IN  IF j = 2 * i THEN Other("custom_tool_call_output", calls[i].id) ELSE calls[i]]

\* (native and output are the two items that call has become.)
Kept(call, native, output, callable) ==
    /\ extractNativeClientToolCallIn(native.native, callable, callable)
          = Extracted("", call, call.type, call.id, call.payload, FALSE)
    /\ output = Sent("function_call_output", call.id, NoNative)

Returned(calls, before, after, callable) ==
    before.reason = "" =>
        /\ after.reason = ""
        /\ \A i \in DOMAIN calls :
              Kept(calls[i], after.items[Len(before.items) + 2 * i - 1],
                   after.items[Len(before.items) + 2 * i], callable)
        /\ \A i \in DOMAIN after.items :
              /\ after.items[i].type = "function_call" => after.items[i].native.outer
              /\ after.items[i].type
                    \notin {"custom_tool_call", "additional_tools", "item_reference"}

Triggered(items) == items # <<>> /\ Last(items).type = "compaction_trigger"

\* What the two properties below say of every request and response.
Checked ==
    [s \in Sources |-> [a \in Answers |->
        [all |-> AllOrNothing(s, a, Transformed[s][a], callableClientToolSpecs(s),
                              Advertised(s)),
         returned |->
            /\ Returned(Transformed[s][a].calls, translateInputItems(s.history),
                        translateInputItems(s.history \o Echo(Transformed[s][a].calls)),
                        callableClientToolSpecs(s))
            /\ Triggered(s.history) /\ ~Refused(s) => Triggered(RetryInput(s))]]]

\* A response's calls are handed over all or not at all: exactly if each is
\* sound for a tool this round may call and all together are what the request
\* allows, in their order and under their ids (protocol.go:865-977); and the
\* tools that count are those the model was told of, once each
\* (protocol.go:153-185).
BatchAllOrNothing == pc = "validating" => Checked[source][answer].all

\* The calls a client was handed come back in its next history as native calls
\* that name the same tool, carry the same payload and own their outputs, and
\* no client's own tool, catalog or reference reaches the upstream
\* (protocol.go:312-314,360-364,424-427); a compaction trigger stays last
\* (protocol.go:533-542).
HistoryKeepsCalls == pc = "validating" => Checked[source][answer].returned

RegenOf ==
    IF ~regen THEN "none"
    ELSE IF Len(rounds) < 2 \/ rounds[2] = "not_run" THEN "aborted"
    ELSE IF rounds[2] \in Valid THEN "success" ELSE "exhausted"
ToolFailure ==
    final = "invalid" /\ record.exit = "failed" /\ record.kind = "invalid_tool_call"

\* What the record says of the attempts, and of the end.
TellsRound ==
    /\ first = IF rounds = <<>> THEN "not_run" ELSE rounds[1]
    /\ final = IF rounds = <<>> THEN "not_run" ELSE rounds[Len(rounds)]
    /\ attempts = Len(rounds) /\ record.regen = RegenOf
    /\ regen => rounds[1] = "invalid"
    /\ LET Told == told \in {"failed", "error"} /\ err = "invalid_tool_call"
       IN  /\ ToolFailure => Told
           /\ Told /\ forced = "none" => ToolFailure
TellsEnd ==
    LET Exit(x) == record.exit \in x
    IN  /\ Exit({"completed", "incomplete"}) => told = "completed"
        /\ told = "completed" /\ ~Exit({"completed", "incomplete"})
               => forced # "none" /\ record.exit = ExitForError(forced)
        /\ Exit({"failed"}) => told \in {"failed", "error"}
        /\ Exit({"cancelled"}) => clientGone
        /\ Exit({"stopped"}) => stopped
        /\ Exit({"timeout"}) => expired
        /\ Exit({"prepare_error", "connect_error"})
               => first = "not_run" /\ ~text /\ ~regen

\* The one record of an execution is true.  Of the attempts it tells what
\* README.md:64-81 says: the first and the last one's verdicts, the outcome of
\* the regeneration from the second one's own verdict, and a tool failure
\* exactly if the client was told invalid_tool_call, watchdogs aside.  Its exit
\* names how the request really ended, though stop, deadline, client and
\* upstream race (relay_summary.go:107-128): completed only if the whole
\* response was handed over, failed only if the client was told so, and a
\* reason only if it happened.
RecordIsTrue == record # NoRecord => TellsRound /\ TellsEnd

\* An execution that is over has left its generation, has released what its
\* attempts held, has closed its stream and has written its one record,
\* whichever of its ways out it took (service.go:285-319,452-635).
NothingHeld ==
    pc = "done" => /\ ~counted /\ ~held /\ session # "open" /\ record # NoRecord
=============================================================================
