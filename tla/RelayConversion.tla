--------------------------- MODULE RelayConversion ---------------------------
(***************************************************************************)
(* The relay's pure part (internal/basispoints/protocol.go): which client  *)
(* tools a request offers, how a native run_officejs call of the upstream  *)
(* becomes a client's tool call, and how the calls of a client's history   *)
(* become native ones again.                                               *)
(*                                                                         *)
(* A name is a sequence of its dotted parts, so that the tool c of the     *)
(* namespace n and a tool named "n.c" have the same key.  A payload is     *)
(* what parsing tells of it: "json" (the text of an object that fits a     *)
(* strict schema), "bad" (of one that does not), "quoted" (json encoded    *)
(* once more), "envelope" (the old {tool, args} form), "text" (anything    *)
(* else), "object" (no string but an object, in history and in old args).  *)
(*                                                                         *)
(* A source is a record: tools as iterToolValues yields them [ns, name,    *)
(* type, def], topLevel (tools, not additional_tools), choice [kind, tools,*)
(* required], parallel (not disabled), and history.  A native call is      *)
(* [outer, parsed, refs, code, id]: it is named run_officejs, its          *)
(* arguments parse, references [kind, name], code [text, tool, args].      *)
(***************************************************************************)
EXTENDS Naturals, Sequences, FiniteSets, FiniteSetsExt, SequencesExt

TransportNames == {<<"run_officejs">>, <<"functions", "run_officejs">>}
Texts == {"json", "bad", "quoted", "envelope", "text"}

clientToolCallName(item) == item.ns \o item.name

----------------------------------------------------------------------------
(* The catalog.                                                            *)

SameSpec(a, b) == a.name = b.name /\ a.type = b.type /\ a.def = b.def

\* Of two tools of a key the later one counts; in additional_tools neither does,
\* unless they are the same.
clientToolSpecs(source) ==
    LET Tool(i) == source.tools[i]
        Places == DOMAIN source.tools
    IN  {Tool(i) : i \in {j \in Places : \A k \in Places :
             clientToolCallName(Tool(k)) = clientToolCallName(Tool(j)) =>
                 IF source.topLevel THEN k <= j ELSE SameSpec(Tool(k), Tool(j))}}

callableClientToolSpecs(source) ==
    LET specs == clientToolSpecs(source)
    IN  CASE source.choice.kind = "none" -> {}
          [] source.choice.kind \in {"auto", "required"} -> specs
          [] OTHER -> {s \in specs : \E t \in ToSet(source.choice.tools) :
                           t.key = clientToolCallName(s) /\ t.type = s.type}

clientToolCallRequired(source) ==
    \/ source.choice.kind \in {"required", "tool"}
    \/ source.choice.kind = "allowed" /\ source.choice.required

\* The tools the instructions list for the model, by their place.
Advertised(source) ==
    LET Listed(i) == \E s \in callableClientToolSpecs(source) :
            /\ clientToolCallName(s) = clientToolCallName(source.tools[i])
            /\ SameSpec(s, source.tools[i])
    IN  {i \in DOMAIN source.tools :
            /\ Listed(i)
            /\ \A j \in 1..(i - 1) : Listed(j) =>
                   clientToolCallName(source.tools[j]) # clientToolCallName(source.tools[i])}

----------------------------------------------------------------------------
(* From a native call to the client's.                                     *)

NoCall == [type |-> "none", ns |-> <<>>, name |-> <<>>, id |-> "", payload |-> ""]
Route(tool, payload, legacy) ==
    [reason |-> "", tool |-> tool, payload |-> payload, legacy |-> legacy]
NoRoute(reason) == [Route(<<>>, "", FALSE) EXCEPT !.reason = reason]
Nameless(name) == name = <<>> \/ name \in TransportNames

transportEnvelope(native) ==
    LET refs == native.refs
        code == native.code
    IN  IF ~native.outer THEN NoRoute("outer_not_transport")
        ELSE IF ~native.parsed THEN NoRoute("outer_arguments")
        ELSE IF refs.kind \notin {"absent", "empty"}
        THEN IF refs.kind # "one" \/ Nameless(refs.name) THEN NoRoute("references_invalid")
             ELSE IF code.text \notin Texts THEN NoRoute("code_not_string")
             ELSE Route(refs.name, code.text, FALSE)
        ELSE IF code.text \notin Texts THEN NoRoute("code_not_string")
             ELSE IF code.text \in {"text", "quoted"} THEN NoRoute("code")
             ELSE IF code.text # "envelope" \/ Nameless(code.tool)
             THEN NoRoute("legacy_envelope_invalid")
             ELSE Route(code.tool, code.args, TRUE)

\* One layer of quotes too many is taken off.
decodeFunctionArguments(payload) ==
    CASE payload \in {"json", "quoted", "object"} -> "json"
      [] payload \in {"bad", "envelope"} -> payload
      [] OTHER -> "none"

schemaMatches(payload, spec) == payload = "json" \/ spec.def # "strict"

Extracted(reason, spec, type, id, payload, legacy) ==
    [reason |-> reason, legacy |-> legacy,
     call |-> IF reason # "" THEN NoCall
              ELSE [type |-> type, ns |-> spec.ns, name |-> spec.name, id |-> id,
                    payload |-> payload]]

extractNativeClientToolCallIn(native, callable, declared) ==
    LET relay == transportEnvelope(native)
        Named(specs) == {s \in specs : clientToolCallName(s) = relay.tool}
        Rejects(reason) == Extracted(reason, NoCall, "", "", "", FALSE)
    IN  IF relay.reason # "" THEN Rejects(relay.reason)
        ELSE IF Named(callable) = {}
        THEN Rejects(IF Named(declared) # {} THEN "tool_not_allowed_by_tool_choice"
                     ELSE "tool_not_in_catalog")
        ELSE IF native.id = "" THEN Rejects("missing_call_id")
        ELSE LET spec == CHOOSE s \in Named(callable) : TRUE
                 decoded == decodeFunctionArguments(relay.payload)
             IN  IF spec.type = "custom"
                 THEN IF relay.payload \notin Texts THEN Rejects("custom_args_not_string")
                      ELSE Extracted("", spec, "custom_tool_call", native.id,
                                     relay.payload, relay.legacy)
                 ELSE IF decoded = "none" THEN Rejects("undecodable")
                 ELSE IF ~schemaMatches(decoded, spec)
                 THEN Rejects("arguments_schema_mismatch")
                 ELSE Extracted("", spec, "function_call", native.id, decoded,
                                relay.legacy)

Batch == [reason |-> "", calls |-> <<>>, legacy |-> 0]

\* Mutant: two calls may share an id.
Repeats_never(x, i) == FALSE

Repeats(x, i) == \E j \in 1..(i - 1) : x[j].call.id = x[i].call.id

\* What rejects a response at its i-th call: the call itself, or its id.
Fault(x, i) ==
    IF x[i].reason # "" THEN x[i].reason
    ELSE IF Repeats(x, i) THEN "duplicate_call_id" ELSE ""

\* The calls of a response, in order, until one is rejected: all or none.
transformCalls(callable, declared, output) ==
    LET x == [i \in DOMAIN output |->
                 extractNativeClientToolCallIn(output[i], callable, declared)]
        Faulty == {i \in DOMAIN output : Fault(x, i) # ""}
    IN  IF Faulty # {} THEN [Batch EXCEPT !.reason = Fault(x, Min(Faulty))]
        ELSE [reason |-> "", calls |-> [i \in DOMAIN output |-> x[i].call],
              legacy |-> Cardinality({i \in DOMAIN output : x[i].legacy})]

Judged(source, output, b) ==
    IF b.reason # "" THEN b
    ELSE IF output = <<>> /\ clientToolCallRequired(source)
    THEN [Batch EXCEPT !.reason = "required_tool_choice_not_satisfied"]
    ELSE IF Len(output) > 1 /\ ~source.parallel
    THEN [Batch EXCEPT !.reason = "parallel_tool_calls_disabled"]
    ELSE b

transformResponseBodyStats(source, output) ==
    Judged(source, output, transformCalls(callableClientToolSpecs(source),
                                          clientToolSpecs(source), output))

relayResult(b) ==
    IF b.reason # "" THEN "invalid"
    ELSE IF b.calls = <<>> THEN "no_call"
    ELSE IF b.legacy > 0 THEN "legacy" ELSE "ok"

----------------------------------------------------------------------------
(* From a client's history to native calls.                                *)

CallTypes == {"function_call", "custom_tool_call"}
OutputTypes == {"function_call_output", "custom_tool_call_output"}

\* A history item is a call record; the other types use its type and id only.
Other(type, id) == [NoCall EXCEPT !.type = type, !.id = id]

NoNative == [outer |-> FALSE, parsed |-> FALSE, refs |-> [kind |-> "absent", name |-> <<>>],
             code |-> [text |-> "none", tool |-> <<>>, args |-> ""], id |-> ""]
Sent(type, id, native) == [type |-> type, id |-> id, native |-> native]

Lossless(item) ==
    \/ item.payload \in Texts
    \/ item.type = "function_call" /\ item.payload = "object"

\* Mutant: the namespace is lost, as with a native name.
Rebuilt_bare(item) == item.name

Rebuilt(item) == clientToolCallName(item)

fallbackTransportCall(item) ==
    [outer |-> TRUE, parsed |-> TRUE, refs |-> [kind |-> "one", name |-> Rebuilt(item)],
     code |-> [text |-> IF item.payload = "object" THEN "json" ELSE item.payload,
               tool |-> <<>>, args |-> ""],
     id |-> IF item.id = "" THEN "generated" ELSE item.id]

\* References and catalogs go no further, nor reasoning that is not encrypted.
Dropped(item) ==
    \/ item.type \in {"item_reference", "additional_tools"}
    \/ item.type = "reasoning" /\ item.payload = ""

\* What has been translated of a history: an item goes on, a call is known to
\* have come from the client.
NoHistory == [reason |-> "", items |-> <<>>, origins |-> {}]
Puts(h, x) == [h EXCEPT !.items = Append(@, x)]
PutsCall(h, item, native) ==
    [Puts(h, Sent("function_call", native.id, native))
        EXCEPT !.origins = IF item.id = "" THEN @ ELSE @ \cup {item.id}]

\* An output belongs to the call of its id before it; native calls stay as the
\* client sent them.
Translates(h, item) ==
    IF h.reason # "" \/ Dropped(item) THEN h
    ELSE IF item.type \in CallTypes
    THEN IF clientToolCallName(item) \in TransportNames
         THEN PutsCall(h, item, [NoNative EXCEPT !.outer = TRUE, !.id = item.id])
         ELSE IF ~Lossless(item)
         THEN [h EXCEPT !.reason = "unsupported_history_tool_input"]
         ELSE PutsCall(h, item, fallbackTransportCall(item))
    ELSE Puts(h, Sent(IF item.type \in OutputTypes /\ item.id \in h.origins
                      THEN "function_call_output" ELSE item.type, item.id, NoNative))

Translated(items) ==
    LET h[n \in 0..Len(items)] ==
            IF n = 0 THEN NoHistory ELSE Translates(h[n - 1], items[n])
    IN  h

translateInputItems(items) == Translated(items)[Len(items)]

appendBeforeCompaction(items, injected) ==
    IF items # <<>> /\ Last(items).type = "compaction_trigger"
    THEN Front(items) \o injected \o <<Last(items)>> ELSE items \o injected

Prologue == Sent("message", "", NoNative)

\* prepareResponsesBody's input; its refusals.
Input(source) == <<Prologue>> \o translateInputItems(source.history).items
Refused(source) ==
    \/ clientToolCallRequired(source) /\ callableClientToolSpecs(source) = {}
    \/ translateInputItems(source.history).reason # ""

\* relayRetryBody's.
RetryInput(source) == appendBeforeCompaction(Input(source), <<Prologue>>)
=============================================================================
