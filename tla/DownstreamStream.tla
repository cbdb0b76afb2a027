-------------------------- MODULE DownstreamStream --------------------------
(***************************************************************************)
(* What the host and the client are promised of one downstream stream,     *)
(* whatever the session's goroutines do: payloads number their events      *)
(* without a gap, exactly the first one carries response.created, all      *)
(* carry one response id, nothing follows a terminal event or the close,   *)
(* and only errors that are the credential's or the link's are closed with *)
(* (isRequestScoped in stream_session.go).                                 *)
(***************************************************************************)
EXTENDS Naturals, Sequences

CONSTANT Blamed   \* the error kinds a stream may be closed with

VARIABLES frames,  \* the payloads the host accepted, oldest first
          close    \* "open", "none" (closed without error), or an error kind

vars == <<frames, close>>

Init == frames = <<>> /\ close = "open"

Terminal(b) == b.kind \in {"completed", "failed"}

Follows(b) ==
    IF frames = <<>>
    THEN b.opens /\ b.first = 0
    ELSE LET last == frames[Len(frames)]
         IN  /\ ~b.opens /\ ~Terminal(last)
             /\ b.first = last.first + last.n /\ b.id = last.id

Emit ==
    /\ close = "open"
    /\ Len(frames') = Len(frames) + 1
    /\ LET b == frames'[Len(frames')]
       IN  frames' = Append(frames, b) /\ Follows(b)
    /\ UNCHANGED close

Close ==
    /\ close = "open"
    /\ close' \in Blamed \cup {"none"}
    /\ UNCHANGED frames

Next == Emit \/ Close

Spec == Init /\ [][Next]_vars
=============================================================================
