--------------------------- MODULE StreamDelivery ---------------------------
(***************************************************************************)
(* Incremental delivery of one http stream                                 *)
(* (internal/basispoints/stream_events.go, driven by the loop of           *)
(* executeStream): message text and reasoning summaries reach the client   *)
(* while the upstream still speaks, everything else waits for the complete *)
(* response, whose replay is filtered to what the client has not seen.     *)
(*                                                                         *)
(* The upstream plans a response and streams its events in order, but at   *)
(* most MaxAnomalies times it loses an event, sends a stray one, or ends   *)
(* with another response than the one it streamed.  Texts are sequences of *)
(* characters; logprobs, identity fields and tool payloads are left out.   *)
(***************************************************************************)
EXTENDS Naturals, Sequences, SequencesExt

CONSTANTS
    Responses,     \* the complete responses an upstream may plan or end with
    MaxAnomalies   \* bound: events lost, stray or contradicted per execution

HasText(kind) == kind \in {"output_text", "summary_text"}

\* A response has an id, a status and output items; an item has a family, an
\* id and parts of a kind with a text, empty for a kind that has none.
Item == [fam : {"message", "reasoning", "tool"}, id : STRING,
         parts : Seq([kind : STRING, text : Seq(STRING)])]

ASSUME DeliveryAssumption ==
    /\ MaxAnomalies \in Nat
    /\ \A r \in Responses :
          /\ r.output \in Seq(Item)
          /\ \A i \in 1 .. Len(r.output) : \A p \in 1 .. Len(r.output[i].parts) :
                LET kind == r.output[i].parts[p].kind
                IN  /\ r.output[i].fam = "reasoning" <=> kind = "summary_text"
                    /\ ~HasText(kind) => r.output[i].parts[p].text = <<>>

VARIABLES
    buffered,     \* bufferUntilValidated: no delivery before the response
    attempt,      \* 0, and 1 after the one regeneration
    planned, cursor, anomalies,   \* the upstream's plan and its progress
    d,            \* the streamDelivery of this attempt
    final,        \* the response of the upstream's terminal event
    out,          \* the item events the client received, oldest first
    outcome       \* "reading", or how the execution ended

upstream == <<planned, cursor, anomalies>>
vars == <<buffered, attempt, upstream, d, final, out, outcome>>

Indexes == UNION {1 .. Len(r.output) : r \in Responses}

----------------------------------------------------------------------------
(* Events, and the event sequence of a complete response.                  *)

Event(type, fam, index, part, id, kind, text, content) ==
    [type |-> type, fam |-> fam, index |-> index, part |-> part, id |-> id,
     kind |-> kind, text |-> text, content |-> content]

Created(id) == Event("created", "response", 0, 0, id, "", <<>>, <<>>)

\* The deltas of a text: one for the whole, or one per character.
Deltas(text, split) ==
    IF text = <<>> THEN <<>>
    ELSE IF split THEN [j \in 1 .. Len(text) |-> <<text[j]>>] ELSE <<text>>

PartEvents(i, item, p, split) ==
    LET part == item.parts[p]
        E(type, text) ==
            Event(type, item.fam, i, p, item.id, part.kind, text, <<>>)
        deltas == Deltas(part.text, split)
    IN  <<E("part.added", <<>>)>>
        \o (IF HasText(part.kind)
            THEN [j \in 1 .. Len(deltas) |-> E("delta", deltas[j])]
                 \o <<E("text.done", part.text)>>
            ELSE <<>>)
        \o <<E("part.done", part.text)>>

\* messageContentEvents and reasoningSummaryEvents; the legacy shape has no
\* summary events.
ItemEvents(i, item, summaries, split) ==
    LET E(type, content) ==
            Event(type, item.fam, i, 0, item.id, "", <<>>, content)
        parts == IF item.fam = "message" \/ (item.fam = "reasoning" /\ summaries)
                 THEN [p \in 1 .. Len(item.parts) |-> PartEvents(i, item, p, split)]
                 ELSE <<>>
    IN  <<E("item.added", <<>>)>> \o FlattenSeq(parts)
        \o <<E("item.done", item.parts)>>

\* syntheticEventsFor without prologue and terminal event.
SyntheticEvents(r, summaries, split) ==
    FlattenSeq([i \in 1 .. Len(r.output) |->
                   ItemEvents(i, r.output[i], summaries, split)])

\* What an upstream that plans r streams before its terminal event.
Scripts ==
    [r \in Responses |-> <<Created(r.id)>> \o SyntheticEvents(r, TRUE, TRUE)]

Alphabet == UNION {{Scripts[r][j] : j \in 1 .. Len(Scripts[r])} : r \in Responses}

----------------------------------------------------------------------------
(* The delivery's state.  An item entry stands for d.messages[i] or        *)
(* d.reasonings[i], never both: done is m.done or r.upstreamDone.          *)

NoItem == [fam |-> "none", id |-> "", parts |-> <<>>, done |-> FALSE,
           snapshot |-> <<>>]

NewDelivery ==
    [committed |-> FALSE, meta |-> "", pending |-> <<>>, broken |-> FALSE,
     terminal |-> FALSE, known |-> {}, knownParts |-> {},
     items |-> [i \in Indexes |-> NoItem]]

\* knownMessages, knownReasonings, knownParts, knownSummaryParts.
Note(dd, e) ==
    CASE e.type = "item.added" ->
            [dd EXCEPT !.known =
                {k \in @ : k[1] # e.fam \/ k[2] # e.index}
                    \cup {<<e.fam, e.index, e.id>>}]
      [] e.type = "part.added" ->
            [dd EXCEPT !.knownParts =
                IF HasText(e.kind) THEN @ \cup {<<e.fam, e.index, e.part>>}
                ELSE @ \ {<<e.fam, e.index, e.part>>}]
      [] OTHER -> dd

Sent(item, p) == item.parts[p].text

\* Mutant: a text cut short must already be the whole text.
PartAgrees_whole(part, finalPart) ==
    finalPart.kind = part.kind /\ (HasText(part.kind) => finalPart.text = part.text)

\* validateItem and validateFinal's loop: the item agrees with what was
\* streamed of it, exactly where a text is done, else as a prefix.
PartAgrees(part, finalPart) ==
    /\ finalPart.kind = part.kind
    /\ HasText(part.kind) =>
          /\ IsPrefix(part.text, finalPart.text)
          /\ part.textDone => finalPart.text = part.text

ItemAgrees(item, content) ==
    /\ Len(item.parts) <= Len(content)
    /\ \A p \in 1 .. Len(item.parts) : PartAgrees(item.parts[p], content[p])
    /\ item.done => IF item.fam = "reasoning" THEN content = item.snapshot
                    ELSE Len(content) = Len(item.parts)

\* A message's item.done: every part done, as many as it lists, same texts.
MessageComplete(item, content) ==
    /\ Len(content) = Len(item.parts)
    /\ \A p \in 1 .. Len(item.parts) :
          HasText(item.parts[p].kind) => content[p].text = item.parts[p].text

\* The frame guards of applyMessageEvent and applyReasoningEvent.
Accepts(item, e) ==
    LET open == e.part \in 1 .. Len(item.parts) /\ ~item.parts[e.part].done
        part == item.parts[e.part]
    IN  IF e.type = "item.added" THEN item = NoItem /\ e.id # ""
        ELSE /\ item.fam = e.fam /\ ~item.done /\ e.id = item.id
             /\ CASE e.type = "item.done" ->
                        /\ \A p \in 1 .. Len(item.parts) : item.parts[p].done
                        /\ IF e.fam = "message" THEN MessageComplete(item, e.content)
                           ELSE ItemAgrees(item, e.content)
                  [] e.type = "part.added" ->
                        /\ e.part = Len(item.parts) + 1
                        /\ e.part > 1 => item.parts[e.part - 1].done
                        /\ e.fam = "reasoning" => e.kind = "summary_text"
                  [] e.type = "delta" ->
                        open /\ HasText(part.kind) /\ ~part.textDone
                  [] e.type = "text.done" ->
                        /\ open /\ HasText(part.kind) /\ ~part.textDone
                        /\ e.text = part.text
                  [] OTHER ->
                        /\ open /\ e.kind = part.kind
                        /\ HasText(part.kind) => part.textDone /\ e.text = part.text

\* What is kept of an item once an event of it is accepted.
Recorded(item, e) ==
    CASE e.type = "item.added" -> [item EXCEPT !.fam = e.fam, !.id = e.id]
      [] e.type = "item.done" -> [item EXCEPT !.done = TRUE, !.snapshot = e.content]
      [] e.type = "part.added" ->
            [item EXCEPT !.parts =
                Append(@, [kind |-> e.kind, text |-> <<>>, textDone |-> FALSE,
                           done |-> FALSE])]
      [] e.type = "delta" -> [item EXCEPT !.parts[e.part].text = @ \o e.text]
      [] e.type = "text.done" -> [item EXCEPT !.parts[e.part].textDone = TRUE]
      [] OTHER -> [item EXCEPT !.parts[e.part].done = TRUE]

Record(dd, e) == [dd EXCEPT !.items[e.index] = Recorded(@, e)]

\* Mutant: a reasoning item.done is forwarded as it comes.
Frames_all(e) == <<e>>

\* A reasoning item.done is only checked: it goes out with the response.
Frames(e) ==
    IF e.type = "item.done" /\ e.fam = "reasoning" THEN <<>> ELSE <<e>>

\* replayPending: the whole batch on a fresh state, all of it or nothing.
Probe(state, e) ==
    IF state.ok /\ Accepts(state.items[e.index], e)
    THEN [Record(state, e) EXCEPT !.frames = @ \o Frames(e)]
    ELSE [state EXCEPT !.ok = FALSE]

Probed(batch) ==
    LET state[n \in 0 .. Len(batch)] ==
            IF n = 0
            THEN [ok |-> TRUE, frames |-> <<>>, items |-> NewDelivery.items]
            ELSE Probe(state[n - 1], batch[n])
    IN  state

ReplayPending(batch) == Probed(batch)[Len(batch)]

----------------------------------------------------------------------------
Init ==
    /\ buffered \in BOOLEAN /\ attempt = 0
    /\ planned \in Responses /\ cursor = 0 /\ anomalies = 0
    /\ d = NewDelivery /\ final = planned
    /\ out = <<>> /\ outcome = "reading"

\* The next event of the plan, or a stray one.
Receive(e) ==
    /\ outcome = "reading"
    /\ \/ /\ ~d.terminal /\ cursor < Len(Scripts[planned])
          /\ e = Scripts[planned][cursor + 1]
          /\ cursor' = cursor + 1 /\ UNCHANGED anomalies
       \/ /\ anomalies < MaxAnomalies /\ e \in Alphabet
          /\ anomalies' = anomalies + 1 /\ UNCHANGED cursor
    /\ UNCHANGED <<buffered, attempt, planned, final>>

LoseEvent ==
    /\ outcome = "reading" /\ ~d.terminal
    /\ cursor < Len(Scripts[planned]) /\ anomalies < MaxAnomalies
    /\ cursor' = cursor + 1 /\ anomalies' = anomalies + 1
    /\ UNCHANGED <<buffered, attempt, planned, d, final, out, outcome>>

FailWith(reason) == outcome' = reason /\ UNCHANGED out

\* forward: the session takes the frames or has lost its client.
Forward(frames) ==
    \/ out' = out \o frames /\ UNCHANGED outcome
    \/ FailWith("client_disconnected")

ConsumeAfterTerminal(e) ==
    /\ Receive(e) /\ d.terminal
    /\ FailWith("invalid_upstream_stream") /\ UNCHANGED d

ConsumeCreated(e) ==
    /\ Receive(e) /\ ~d.terminal /\ e.type = "created"
    /\ IF d.meta \notin {"", e.id}
       THEN FailWith("invalid_upstream_stream") /\ UNCHANGED d
       ELSE d' = [d EXCEPT !.meta = e.id] /\ UNCHANGED <<out, outcome>>

ConsumeTool(e) ==
    /\ Receive(e) /\ ~d.terminal /\ e.fam = "tool"
    /\ UNCHANGED <<d, out, outcome>>

Streamed(e) == ~d.terminal /\ e.fam \in {"message", "reasoning"}

\* delivery.bufferUntilValidated = buffered.
Holds == buffered

\* Buffered: checked against the same state, never delivered.
ConsumeBuffered(e) ==
    /\ Receive(e) /\ Streamed(e) /\ Holds
    /\ IF Accepts(d.items[e.index], e)
       THEN d' = Record(Note(d, e), e) /\ UNCHANGED <<out, outcome>>
       ELSE FailWith("invalid_upstream_stream") /\ UNCHANGED d

\* Committed: checked and forwarded at once.
ConsumeCommitted(e) ==
    /\ Receive(e) /\ Streamed(e) /\ ~Holds /\ d.committed
    /\ IF Accepts(d.items[e.index], e)
       THEN /\ d' = Record(Note(d, e), e)
            /\ IF Frames(e) = <<>> THEN UNCHANGED <<out, outcome>>
               ELSE Forward(Frames(e))
       ELSE FailWith("invalid_upstream_stream") /\ UNCHANGED d

\* Only a delta whose item and part were announced can commit the batch.
CommitsOn(dd, e) ==
    /\ e.type = "delta" /\ e.text # <<>> /\ dd.meta # "" /\ ~dd.broken
    /\ <<e.fam, e.index, e.id>> \in dd.known
    /\ <<e.fam, e.index, e.part>> \in dd.knownParts

Commit(dd, items) ==
    [dd EXCEPT !.committed = TRUE, !.pending = <<>>, !.items = items]

ConsumePending(e) ==
    /\ Receive(e) /\ Streamed(e) /\ ~Holds /\ ~d.committed
    /\ LET dd == [Note(d, e) EXCEPT !.pending = Append(@, e)]
           replay == ReplayPending(dd.pending)
       IN  IF ~CommitsOn(dd, e) THEN d' = dd /\ UNCHANGED <<out, outcome>>
           ELSE IF replay.ok
           THEN d' = Commit(dd, replay.items) /\ Forward(replay.frames)
           ELSE d' = [dd EXCEPT !.broken = TRUE] /\ UNCHANGED <<out, outcome>>

\* response.completed or response.incomplete; ending with another response
\* than the streamed one is an anomaly, ending early is not.
ConsumeTerminal(r) ==
    /\ outcome = "reading" /\ ~d.terminal
    /\ IF r = planned THEN UNCHANGED anomalies
       ELSE anomalies < MaxAnomalies /\ anomalies' = anomalies + 1
    /\ final' = r /\ d' = [d EXCEPT !.terminal = TRUE]
    /\ UNCHANGED <<buffered, attempt, planned, cursor, out, outcome>>

----------------------------------------------------------------------------
(* End of the upstream stream: validateFinal, the tool check of            *)
(* transformResponseBodyStats, then finish, fail or regenerate once.       *)

\* validateFinal looks at the response only if something may rest on it.
ValidFinal ==
    d.committed \/ buffered =>
        /\ d.meta \in {"", final.id}
        /\ \A i \in Indexes : d.items[i] # NoItem =>
              /\ i <= Len(final.output)
              /\ final.output[i].fam = d.items[i].fam
              /\ final.output[i].id = d.items[i].id
              /\ ItemAgrees(d.items[i], final.output[i].parts)

\* Mutant: a text is replayed whole although part of it went out.
Trimmed_whole(item, e) == e

\* keepFinal shortens a delta to the suffix the client has not seen.
Trimmed(item, e) ==
    IF e.type = "delta" /\ e.part \in 1 .. Len(item.parts)
    THEN [e EXCEPT !.text = SubSeq(@, Len(Sent(item, e.part)) + 1, Len(@))]
    ELSE e

\* keepFinal: what the client has not received yet.
Keep(item, e) ==
    LET part == item.parts[e.part]
    IN  \/ item = NoItem
        \/ e.type = "item.done" /\ (item.fam = "reasoning" \/ ~item.done)
        \/ /\ e.type \notin {"item.added", "item.done"}
           /\ \/ e.part \notin 1 .. Len(item.parts)
              \/ e.type = "delta" /\ Len(e.text) > Len(part.text)
              \/ e.type = "text.done" /\ ~part.textDone
              \/ e.type = "part.done" /\ ~part.done

Unseen(items, e) ==
    IF Keep(items[e.index], e) THEN <<Trimmed(items[e.index], e)>> ELSE <<>>

Kept(items, events) ==
    FlattenSeq([j \in 1 .. Len(events) |-> Unseen(items, events[j])])

Replay ==
    IF d.committed THEN Kept(d.items, SyntheticEvents(final, TRUE, FALSE))
    ELSE SyntheticEvents(final, FALSE, FALSE)

AtEnd == outcome = "reading" /\ d.terminal /\ UNCHANGED buffered

\* The upstream ended without a terminal event: parseResponse fails.
EndUnfinished ==
    /\ outcome = "reading" /\ ~d.terminal
    /\ FailWith("upstream_incomplete")
    /\ UNCHANGED <<buffered, attempt, upstream, d, final>>

EndInvalid ==
    /\ AtEnd /\ ~ValidFinal
    /\ FailWith("invalid_upstream_stream")
    /\ UNCHANGED <<attempt, upstream, d, final>>

\* finishIncremental if something was delivered, else the full replay.
EndFinish ==
    /\ AtEnd /\ ValidFinal
    /\ out' = out \o Replay /\ outcome' = "completed"
    /\ UNCHANGED <<attempt, upstream, d, final>>

\* Mutant: a delivery in progress does not forbid the regeneration.
MayRegenerate_delivered == attempt = 0 /\ final.status # "incomplete"

MayRegenerate ==
    ~d.committed /\ attempt = 0 /\ final.status # "incomplete"

\* The tool calls did not convert: fail, or ask the upstream once more.
EndToolInvalid ==
    /\ AtEnd /\ ValidFinal /\ ~MayRegenerate
    /\ FailWith("invalid_tool_call")
    /\ UNCHANGED <<attempt, upstream, d, final>>

EndRegenerate ==
    /\ AtEnd /\ ValidFinal /\ MayRegenerate
    /\ attempt' = 1 /\ d' = NewDelivery
    /\ planned' \in Responses /\ final' = planned' /\ cursor' = 0
    /\ UNCHANGED <<anomalies, out, outcome>>

Rest == outcome # "reading" /\ UNCHANGED vars

Next ==
    \/ \E e \in Alphabet :
          \/ ConsumeAfterTerminal(e) \/ ConsumeCreated(e) \/ ConsumeTool(e)
          \/ ConsumeBuffered(e) \/ ConsumeCommitted(e) \/ ConsumePending(e)
    \/ \E r \in Responses : ConsumeTerminal(r)
    \/ LoseEvent
    \/ EndUnfinished \/ EndInvalid \/ EndFinish \/ EndToolInvalid
    \/ EndRegenerate \/ Rest

Spec == Init /\ [][Next]_vars

----------------------------------------------------------------------------
(* Properties.                                                             *)

\* What the client received of item i, adjacent deltas of a part joined.
Join(seq, e) ==
    IF seq # <<>> /\ e.type = "delta" /\ Last(seq).type = "delta"
                  /\ Last(seq).part = e.part
    THEN [seq EXCEPT ![Len(seq)].text = @ \o e.text]
    ELSE Append(seq, e)

Joined(i, start, events) ==
    LET seq[n \in 0 .. Len(events)] ==
            IF n = 0 THEN start
            ELSE IF events[n].index = i THEN Join(seq[n - 1], events[n])
            ELSE seq[n - 1]
    IN  seq[Len(events)]

Received(i) == Joined(i, <<>>, out)

\* A completed stream shows the client exactly the final response: for every
\* item, what went out early and what was replayed add up to the event
\* sequence of that item, with nothing repeated, missing or out of order.  A
\* buffered round (CHANGELOG, stream_tool_mode) shows it whole or not at all.
ExactlyTheResponse ==
    /\ outcome = "completed" =>
           \A i \in Indexes :
               Received(i) = IF i <= Len(final.output)
                             THEN ItemEvents(i, final.output[i], d.committed, FALSE)
                             ELSE <<>>
    /\ buffered /\ outcome # "completed" => out = <<>>

\* At every moment, failed streams included, the client can follow: an item
\* opens once and first, its parts follow one another, each from its start to
\* its end, and a text.done tells the very text its deltas spelt.
Follows(a, b) ==
    \/ /\ a.type \in {"item.added", "part.done"}
       /\ b.type = "item.done" \/ (b.type = "part.added" /\ b.part = a.part + 1)
    \/ /\ a.part = b.part
       /\ <<a.type, b.type>> \in {<<"part.added", "delta">>, <<"part.added", "text.done">>,
                <<"part.added", "part.done">>, <<"delta", "text.done">>,
                <<"text.done", "part.done">>}

ClientCanFollow ==
    \A i \in Indexes :
        LET s == Received(i)
        IN  \A j \in DOMAIN s :
               /\ (j = 1) <=> (s[j].type = "item.added")
               /\ j > 1 => Follows(s[j - 1], s[j])
               /\ s[j].type = "text.done" /\ s[j].text # <<>> =>
                      s[j - 1].type = "delta" /\ s[j - 1].text = s[j].text

\* An upstream that streams its response in order and ends with it is never
\* refused, wherever it stops streaming and ends, and its first character of
\* text is with the client at once.
CleanStreamShown ==
    anomalies = 0 =>
        /\ outcome # "invalid_upstream_stream"
        /\ (~buffered /\ outcome = "reading"
              /\ \E j \in 1 .. cursor : Scripts[planned][j].type = "delta")
           => d.committed /\ \E j \in DOMAIN out : out[j].type = "delta"

\* The client of a regenerated round saw nothing of the rejected attempt.
RegenerationUnseen == [][attempt' # attempt => out = <<>>]_vars

=============================================================================
