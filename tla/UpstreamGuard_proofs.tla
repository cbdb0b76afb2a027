------------------------ MODULE UpstreamGuard_proofs ------------------------
(***************************************************************************)
(* What holds of one upstream round trip for every mode, every bound on    *)
(* the response and whether or not the connection has a grace: the stream  *)
(* is closed at most once and nothing is left in the host, no thread       *)
(* outlives release, a truncated read is never a complete response,        *)
(* headers in time are answered in time, and a stop is reported as one.    *)
(***************************************************************************)
EXTENDS UpstreamGuard, TLAPS

Waiting == {"await", "overdue", "overdue2", "awaitResult", "late"}
Reading == {"top", "reading", "read", "chunk"}
Releasing == {"release", "join", "close", "cancel", "released"}
BodyStages == {"bodyWait", "bodyClose", "bodyDrain"}

ControlOK ==
    /\ mode \in {"stream", "do"}
    /\ pc \in [main : Waiting \cup Reading \cup Releasing,
               conn : {"doing", "attach", "close", "mark", "check", "ended"} \cup BodyStages,
               body : {"idle", "ended"} \cup Reading,
               watch : {"select", "abort", "load", "close", "exited"}]
GuardOK ==
    /\ reason \in Reasons \cup {"none"} /\ attached \in BOOLEAN
    /\ closeOnce \in {"free", "main", "conn", "watch", "done"}
    /\ done \in BOOLEAN /\ headers \in BOOLEAN
ResultsOK ==
    /\ answer \in {"none", "ok", "refused", "no_id", "error"}
    /\ connected \in Verdicts /\ verdict \in Verdicts
ReadingOK ==
    /\ chunk \in [Readers -> Chunks] /\ size \in [Readers -> Nat]
    /\ readEnd \in [Readers -> Verdicts]
HostOK ==
    /\ operation \in {"none", "open", "finished", "cancelled"}
    /\ stream \in {"none", "open", "closed"}
    /\ closeCalls \in Nat /\ truncated \in BOOLEAN
SignalsOK ==
    /\ shutdownC \in BOOLEAN /\ stopC \in BOOLEAN /\ late \in BOOLEAN
    /\ graceOver \in BOOLEAN /\ headersInTime \in BOOLEAN

\* Every variable of the round trip keeps to its type.
TypeOK == ControlOK /\ GuardOK /\ ResultsOK /\ ReadingOK /\ HostOK /\ SignalsOK

\* The connecting goroutine: what it has by the time it is where it is.
ConnInv ==
    /\ (answer = "none") <=> pc["conn"] = "doing"
    /\ mode = "do" => answer \notin {"refused", "no_id"}
    /\ (connected = "none") <=> pc["conn"] # "ended"
    /\ connected = "ok" => answer = "ok"
    /\ pc["conn"] \in BodyStages => answer = "refused" /\ pc["body"] # "idle"

\* The reader of an error body runs only under the connecting goroutine.
BodyInv ==
    /\ pc["body"] # "idle" => answer = "refused" /\ pc["conn"] \in BodyStages \cup {"ended"}
    /\ pc["conn"] = "ended" => pc["body"] \in {"idle", "ended"}
    /\ (readEnd["body"] # "none") <=> pc["body"] = "ended"

\* The caller: it reads only what is connected, and releases after that.
MainInv ==
    /\ pc["main"] \notin Waiting => connected # "none"
    /\ pc["main"] \in Reading => connected = "ok" /\ mode = "stream"
    /\ verdict # "none" =>
           /\ connected # "none"
           /\ mode = "stream" /\ connected = "ok" => pc["main"] \in Releasing
    /\ pc["main"] \in {"close", "cancel", "released"} => pc["watch"] = "exited"

\* closeOnce: its owner is at the close, and a close leaves nothing open.
CloseInv ==
    /\ closeOnce = "main" => pc["main"] = "close"
    /\ closeOnce = "conn" => pc["conn"] \in {"close", "bodyClose"}
    /\ closeOnce = "watch" => pc["watch"] = "close"
    /\ closeCalls = IF closeOnce = "done" THEN 1 ELSE 0
    /\ closeOnce = "done" => stream = "closed" /\ operation # "open"

\* The guard knows of every stream there is, before anybody closes it.
StreamInv ==
    /\ (stream # "none") <=> (mode = "stream" /\ answer \in {"ok", "refused"})
    /\ attached <=> (stream # "none" /\ pc["conn"] # "attach")
    /\ pc["conn"] = "attach" => mode = "stream"
    /\ "close" \in {pc["conn"], pc["watch"], pc["main"]} => attached
    /\ pc["main"] = "cancel" => ~attached
    /\ pc["main"] = "released" => stream # "open" /\ operation # "open"

\* A stream that is closed while it is read was aborted: the reason is known
\* before the close, except for the body of a refused request.
CutInv ==
    /\ pc["watch"] \in {"abort", "load", "close"} => reason # "none"
    /\ pc["conn"] = "close" => reason # "none"
    /\ stream = "closed" =>
           reason # "none" \/ answer = "refused" \/ pc["main"] = "released"
    /\ truncated => reason # "none" \/ answer = "refused"
    /\ verdict = "ok" => ~truncated

\* The caller looks at the headers only when the grace is over.
GraceInv ==
    /\ pc["main"] \in {"overdue", "overdue2", "awaitResult", "late"} => graceOver
    /\ headersInTime => headers /\ pc["main"] # "late"

Inv == /\ TypeOK /\ ConnInv /\ BodyInv /\ MainInv /\ CloseInv /\ StreamInv /\ CutInv
       /\ GraceInv

----------------------------------------------------------------------------
(* The steps.                                                              *)

LEMMA InvInit == Init => Inv
<1> SUFFICES ASSUME Init PROVE Inv
  OBVIOUS
<1>1. TypeOK
  BY GuardAssumption
     DEF Init, GuardAssumption, TypeOK, ControlOK, GuardOK, ResultsOK, ReadingOK, HostOK,
         SignalsOK, Waiting, Reading, Releasing, BodyStages, Reasons, Verdicts, Chunks
<1>2. ConnInv /\ BodyInv /\ MainInv
  BY DEF Init, ConnInv, BodyInv, MainInv, Waiting, Reading, BodyStages, Readers
<1>3. CloseInv /\ StreamInv /\ CutInv /\ GraceInv
  BY DEF Init, CloseInv, StreamInv, CutInv, GraceInv
<1>4. QED
  BY <1>1, <1>2, <1>3 DEF Inv

\* A thread moves alone.
LEMMA Moves ==
    ASSUME ControlOK, NEW t \in Threads, NEW l, Goto(t, l)
    PROVE  pc'[t] = l /\ \A u \in Threads \ {t} : pc'[u] = pc[u]
BY DEF ControlOK, Goto, Threads

\* What resolveLocked returns is a reason, and once it is on record it stays.
LEMMA ResolvedIsSticky ==
    ASSUME GuardOK
    PROVE  /\ Resolved \in Reasons \cup {"none"}
           /\ reason # "none" => Resolved = reason
           /\ Signalled => Resolved # "none"
BY DEF GuardOK, Resolved, Signalled, Reasons

\* closeStream by a thread that may close: it knows of a stream, and if it is
\* not the end of the round trip, why that stream is to go.
LEMMA CloseStep ==
    ASSUME Inv, NEW t, NEW label, NEW next, CloseStream(t, label, next),
           \/ t = "watch" /\ label = "close" /\ next = "exited"
           \/ t = "conn" /\ label = "close" /\ next = "mark"
           \/ t = "conn" /\ label = "bodyClose" /\ next = "bodyDrain"
           \/ t = "main" /\ label = "close" /\ next = "released"
    PROVE  Inv'
<1> USE DEF Inv, TypeOK, ControlOK, GuardOK, ResultsOK, ReadingOK, HostOK, SignalsOK,
            Waiting, Reading, Releasing, BodyStages
<1>1. pc[t] = label /\ attached /\ pc["conn"] \notin {"doing", "attach"}
  BY DEF CloseStream, At, ConnInv, StreamInv, MainInv
<1>2. CASE CloseClaim(t)
  BY <1>1, <1>2 DEF CloseClaim, results, reading, host, signals,
                    ConnInv, BodyInv, MainInv, CloseInv, StreamInv, CutInv, GraceInv
<1>3. CASE CloseSkip(t, next)
  <2>1. closeOnce = "done" /\ Goto(t, next)
        /\ UNCHANGED <<mode, guard, results, reading, host, signals>>
    BY <1>3 DEF CloseSkip
  <2>2. TypeOK'
    BY <1>1, <2>1 DEF Goto, guard, results, reading, host, signals
  <2>3. (ConnInv /\ BodyInv /\ MainInv)'
    BY <1>1, <2>1 DEF Goto, guard, results, reading, host, signals,
                      ConnInv, BodyInv, MainInv
  <2>4. (CloseInv /\ StreamInv)'
    BY <1>1, <2>1 DEF Goto, guard, results, reading, host, signals,
                      ConnInv, CloseInv, StreamInv
  <2>5. (CutInv /\ GraceInv)'
    BY <1>1, <2>1 DEF Goto, guard, results, reading, host, signals,
                      ConnInv, CutInv, GraceInv
  <2>6. QED
    BY <2>2, <2>3, <2>4, <2>5
<1>4. CASE CloseHost(t, next)
  <2>1. /\ closeOnce = t /\ closeOnce' = "done" /\ stream' = "closed"
        /\ closeCalls' = closeCalls + 1 /\ Goto(t, next)
        /\ operation' = IF operation = "open" THEN "finished" ELSE operation
        /\ UNCHANGED <<mode, reason, attached, done, headers, results, reading,
                       truncated, signals>>
    BY <1>4 DEF CloseHost
  <2>2. TypeOK'
    BY <1>1, <2>1 DEF Goto, results, reading, signals
  <2>3. (ConnInv /\ BodyInv /\ MainInv)'
    BY <1>1, <2>1 DEF Goto, results, reading, ConnInv, BodyInv, MainInv
  <2>4. CloseInv'
    BY <1>1, <2>1 DEF Goto, CloseInv
  <2>5. StreamInv'
    BY <1>1, <2>1 DEF Goto, results, ConnInv, StreamInv
  <2>6. (CutInv /\ GraceInv)'
    BY <1>1, <2>1 DEF Goto, results, signals, ConnInv, CutInv, GraceInv
  <2>7. QED
    BY <2>2, <2>3, <2>4, <2>5, <2>6
<1>5. QED
  BY <1>2, <1>3, <1>4 DEF CloseStream

LEMMA WatchStep == Inv /\ Watch => Inv'
<1> SUFFICES ASSUME Inv, Watch PROVE Inv'
  OBVIOUS
<1> USE DEF Inv, TypeOK, ControlOK, GuardOK, ResultsOK, ReadingOK, HostOK, SignalsOK,
            ConnInv, BodyInv, MainInv, CloseInv, StreamInv, CutInv, GraceInv,
            Waiting, Reading, Releasing, BodyStages, At, Goto,
            guard, results, reading, host, signals
<1>1. CASE WatchDone
  BY <1>1 DEF WatchDone
<1>2. CASE WatchWakes
  BY <1>2, ResolvedIsSticky DEF WatchWakes
<1>3. CASE WatchCancels
  BY <1>3 DEF WatchCancels, CancelOperation
<1>4. CASE WatchLoads
  BY <1>4 DEF WatchLoads
<1>5. CASE WatchCloses
  BY <1>5, CloseStep DEF WatchCloses
<1>6. QED
  BY <1>1, <1>2, <1>3, <1>4, <1>5 DEF Watch

\* do_stream returns, or its operation was cancelled.
LEMMA HostStep == Inv /\ (HostAnswers \/ HostAborts) => Inv'
<1> SUFFICES ASSUME Inv, HostAnswers \/ HostAborts PROVE Inv'
  OBVIOUS
<1> USE DEF Inv, TypeOK, ControlOK, GuardOK, ResultsOK, ReadingOK, HostOK, SignalsOK,
            ConnInv, BodyInv, MainInv, CloseInv, StreamInv, CutInv, GraceInv,
            Waiting, Reading, Releasing, BodyStages, At, Goto,
            guard, results, reading, host, signals
<1>1. CASE HostAnswers
  BY <1>1 DEF HostAnswers
<1>2. CASE HostAborts
  BY <1>2 DEF HostAborts
<1>3. QED
  BY <1>1, <1>2

\* What the answer to a request amounts to.
LEMMA AnsweredTypes ==
    ASSUME GuardOK
    PROVE  /\ Answered \in Verdicts \ {"none"}
           /\ Answered = "ok" => reason = "none" /\ answer \notin {"error", "no_id"}
           /\ BodyVerdict \in Verdicts \ {"none", "ok"}
BY ResolvedIsSticky DEF Answered, BodyVerdict, Aborted, Verdicts, Reasons

LEMMA ConnectStep == Inv /\ Connect => Inv'
<1> SUFFICES ASSUME Inv, Connect PROVE Inv'
  OBVIOUS
<1> USE DEF Inv, TypeOK, ControlOK, GuardOK, ResultsOK, ReadingOK, HostOK, SignalsOK,
            ConnInv, BodyInv, MainInv, CloseInv, StreamInv, CutInv, GraceInv,
            Waiting, Reading, Releasing, BodyStages, At, Goto,
            guard, results, reading, host, signals
<1>1. CASE Attach
  <2>1. attached' = (answer \in {"ok", "refused"}) /\ pc["conn"] = "attach"
    BY <1>1 DEF Attach
  <2>2. PICK l \in {"close", "mark"} :
            pc' = [pc EXCEPT !["conn"] = l] /\ (l = "close" => attached' /\ reason # "none")
    BY <1>1 DEF Attach
  <2>3. UNCHANGED <<mode, reason, closeOnce, done, headers, results, reading, host, signals>>
    BY <1>1 DEF Attach
  <2>4. TypeOK'
    BY <2>1, <2>2, <2>3
  <2>5. (ConnInv /\ BodyInv /\ MainInv /\ CloseInv)'
    BY <2>1, <2>2, <2>3
  <2>6. StreamInv'
    BY <2>1, <2>2, <2>3
  <2>7. CutInv'
    BY <2>1, <2>2, <2>3
  <2>8. GraceInv'
    BY <2>1, <2>2, <2>3
  <2>9. QED
    BY <2>4, <2>5, <2>6, <2>7, <2>8
<1>2. CASE AttachCloses
  BY <1>2, CloseStep DEF AttachCloses
<1>3. CASE MarkHeaders
  BY <1>3 DEF MarkHeaders
<1>4. CASE CheckAnswer
  <2>1. /\ reason' = Resolved /\ Resolved \in Reasons \cup {"none"}
        /\ reason # "none" => Resolved = reason
    BY <1>4, ResolvedIsSticky DEF CheckAnswer
  <2>2. CASE Answered = "ok" /\ answer = "refused"
    <3>1. /\ pc' = [pc EXCEPT !["conn"] = "bodyWait", !["body"] = "top"]
          /\ UNCHANGED <<mode, attached, closeOnce, done, headers, answer, connected, verdict,
                         reading, host, signals>>
      BY <1>4, <2>2 DEF CheckAnswer
    <3>2. QED
      BY <1>4, <2>1, <3>1 DEF CheckAnswer
  <2>3. CASE ~(Answered = "ok" /\ answer = "refused")
    <3>1. /\ pc' = [pc EXCEPT !["conn"] = "ended"] /\ connected' = Answered
          /\ verdict' = IF Answered # "ok" THEN Answered
                        ELSE IF mode = "do" THEN "ok" ELSE verdict
          /\ UNCHANGED <<mode, attached, closeOnce, done, headers, answer, reading, host,
                         signals>>
      BY <1>4, <2>3, AnsweredTypes DEF CheckAnswer
    <3>2. QED
      BY <1>4, <2>1, <2>3, <3>1, AnsweredTypes DEF CheckAnswer
  <2>4. QED
    BY <2>2, <2>3
<1>5. CASE BodyEnds
  BY <1>5 DEF BodyEnds
<1>6. CASE BodyLimit
  BY <1>6 DEF BodyLimit
<1>7. CASE BodyCloses
  BY <1>7, CloseStep DEF BodyCloses
<1>8. CASE BodyReported
  BY <1>8, ResolvedIsSticky, AnsweredTypes DEF BodyReported
<1>9. QED
  BY <1>1, <1>2, <1>3, <1>4, <1>5, <1>6, <1>7, <1>8 DEF Connect

LEMMA MainStep == Inv /\ Main => Inv'
<1> SUFFICES ASSUME Inv, Main PROVE Inv'
  OBVIOUS
<1> USE DEF Inv, TypeOK, ControlOK, GuardOK, ResultsOK, ReadingOK, HostOK, SignalsOK,
            ConnInv, BodyInv, MainInv, CloseInv, StreamInv, CutInv, GraceInv,
            Waiting, Reading, Releasing, BodyStages, At, Goto,
            guard, results, reading, host, signals
<1>1. CASE TakeConnected
  BY <1>1 DEF TakeConnected
<1>2. CASE GraceTimer
  BY <1>2 DEF GraceTimer
<1>3. CASE GraceExpired
  BY <1>3 DEF GraceExpired
<1>4. CASE LookAtHeaders
  BY <1>4 DEF LookAtHeaders, AfterGrace
<1>5. CASE ReleaseDone
  BY <1>5 DEF ReleaseDone
<1>6. CASE ReleaseJoins
  BY <1>6 DEF ReleaseJoins, Joined, ReleaseStep
<1>7. CASE ReleaseCloses
  BY <1>7, CloseStep DEF ReleaseCloses
<1>8. CASE ReleaseCancels
  BY <1>8 DEF ReleaseCancels, CancelOperation
<1>9. QED
  BY <1>1, <1>2, <1>3, <1>4, <1>5, <1>6, <1>7, <1>8 DEF Main

LEMMA SignalStep == Inv /\ Signal => Inv'
<1> SUFFICES ASSUME Inv, Signal PROVE Inv'
  OBVIOUS
<1>1. UNCHANGED <<mode, pc, guard, results, reading, host>>
  BY DEF Signal
<1>2. SignalsOK' /\ GraceInv'
  <2>1. headers \in BOOLEAN /\ UNCHANGED <<pc, headers>>
    BY <1>1 DEF Inv, TypeOK, GuardOK, guard
  <2>2. CASE Shutdown \/ ClientLeaves \/ Deadline
    <3>1. UNCHANGED <<graceOver, headersInTime>>
      BY <2>2 DEF Shutdown, ClientLeaves, Deadline
    <3>2. shutdownC' \in {TRUE, shutdownC} /\ stopC' \in {TRUE, stopC} /\ late' \in {TRUE, late}
      BY <2>2 DEF Shutdown, ClientLeaves, Deadline
    <3>3. QED
      BY <2>1, <3>1, <3>2 DEF Inv, TypeOK, SignalsOK, GraceInv
  <2>3. CASE Grace
    <3>1. /\ ~graceOver /\ graceOver' = TRUE /\ headersInTime' = headers
          /\ UNCHANGED <<shutdownC, stopC, late>>
      BY <2>3 DEF Grace
    <3>2. QED
      BY <2>1, <3>1 DEF Inv, TypeOK, SignalsOK, GraceInv
  <2>4. QED
    BY <2>2, <2>3 DEF Signal
<1>3. (ControlOK /\ GuardOK /\ ResultsOK /\ ReadingOK /\ HostOK)'
  BY <1>1 DEF Inv, TypeOK, ControlOK, GuardOK, ResultsOK, ReadingOK, HostOK, guard, results,
              reading, host
<1>4. (ConnInv /\ BodyInv /\ MainInv /\ CloseInv /\ StreamInv /\ CutInv)'
  BY <1>1 DEF Inv, ConnInv, BodyInv, MainInv, CloseInv, StreamInv, CutInv, guard, results,
              reading, host
<1>5. QED
  BY <1>2, <1>3, <1>4 DEF Inv, TypeOK

\* A reader that goes on reading, and may have resolved the reason.
LEMMA ReadsOn ==
    ASSUME Inv, NEW t \in Readers, NEW l \in Reading, pc[t] \in Reading, Goto(t, l),
           reason' \in Reasons \cup {"none"}, reason # "none" => reason' = reason,
           chunk' \in [Readers -> Chunks], size' \in [Readers -> Nat],
           truncated' \in BOOLEAN, truncated' => truncated \/ stream = "closed",
           UNCHANGED <<mode, attached, closeOnce, done, headers, results, readEnd, operation,
                       stream, closeCalls, signals>>
    PROVE  Inv'
<1> USE DEF Inv, TypeOK, ControlOK, GuardOK, ResultsOK, ReadingOK, HostOK, SignalsOK,
            Waiting, Reading, Releasing, BodyStages, Goto, results, signals
<1>1. TypeOK'
  BY DEF Readers
<1>2. (ConnInv /\ BodyInv /\ MainInv)'
  BY DEF ConnInv, BodyInv, MainInv, Readers
<1>3. (CloseInv /\ StreamInv)'
  BY DEF CloseInv, StreamInv, Readers
<1>4. (CutInv /\ GraceInv)'
  BY DEF ConnInv, BodyInv, MainInv, CutInv, GraceInv, Readers
<1>5. QED
  BY <1>1, <1>2, <1>3, <1>4

\* A reader that ends its read with a verdict; "ok" only if nothing aborted.
LEMMA ReadEnds ==
    ASSUME Inv, NEW t \in Readers, NEW how \in Verdicts \ {"none"},
           pc[t] \in Reading, EndRead(t, how), how = "ok" => reason = "none",
           reason' \in Reasons \cup {"none"}, reason # "none" => reason' = reason,
           UNCHANGED <<mode, attached, closeOnce, done, headers, answer, connected,
                       chunk, size, host, signals>>
    PROVE  Inv'
<1> USE DEF Inv, TypeOK, ControlOK, GuardOK, ResultsOK, ReadingOK, HostOK, SignalsOK,
            Waiting, Reading, Releasing, BodyStages, Goto, EndRead, host, signals
<1>1. CASE t = "main"
  <2>1. TypeOK'
    BY <1>1 DEF Readers
  <2>2. (ConnInv /\ BodyInv /\ MainInv)'
    BY <1>1 DEF ConnInv, BodyInv, MainInv, Readers
  <2>3. (CloseInv /\ StreamInv)'
    BY <1>1 DEF CloseInv, StreamInv
  <2>4. (CutInv /\ GraceInv)'
    BY <1>1 DEF ConnInv, MainInv, CutInv, GraceInv
  <2>5. QED
    BY <2>1, <2>2, <2>3, <2>4
<1>2. CASE t = "body"
  <2>1. TypeOK'
    BY <1>2 DEF Readers
  <2>2. (ConnInv /\ BodyInv /\ MainInv)'
    BY <1>2 DEF ConnInv, BodyInv, MainInv, Readers
  <2>3. (CloseInv /\ StreamInv)'
    BY <1>2 DEF CloseInv, StreamInv
  <2>4. (CutInv /\ GraceInv)'
    BY <1>2 DEF CutInv, GraceInv
  <2>5. QED
    BY <2>1, <2>2, <2>3, <2>4
<1>3. QED
  BY <1>1, <1>2 DEF Readers

\* The verdicts of a read, before and after its chunk was handed on.
LEMMA ReadVerdicts ==
    ASSUME GuardOK, NEW t
    PROVE  /\ AfterRead(t) \in Verdicts
           /\ AfterRead(t) = "ok" => reason = "none"
           /\ \A said \in {"ok", "client_disconnected", "delivery"} :
                 /\ AfterChunk(t, said) \in Verdicts
                 /\ AfterChunk(t, said) = "ok" => reason = "none"
BY ResolvedIsSticky DEF AfterRead, AfterChunk, Aborted, Verdicts, Reasons

LEMMA ReadsStep == Inv /\ Reads => Inv'
<1> SUFFICES ASSUME Inv, NEW t \in Readers,
                    \/ ReadTop(t) \/ HostReads(t) \/ HostCutsRead(t)
                    \/ ReadReturns(t) \/ ChunkReturns(t)
             PROVE  Inv'
  BY DEF Reads
<1>0. GuardOK /\ HostOK /\ ReadingOK /\ reason \in Reasons \cup {"none"}
  BY DEF Inv, TypeOK, GuardOK
<1> USE DEF At, Reading
<1>1. CASE ReadTop(t)
  <2>1. CASE Aborted
    <3>1. Resolved \in Verdicts \ {"none", "ok"}
      BY <1>0, <2>1, ResolvedIsSticky DEF Aborted, Verdicts, Reasons
    <3>2. QED
      BY <1>0, <1>1, <2>1, <3>1, ResolvedIsSticky, ReadEnds DEF ReadTop
  <2>2. CASE ~Aborted
    BY <1>0, <1>1, <2>2, ResolvedIsSticky, ReadsOn DEF ReadTop, results, host, HostOK, ReadingOK
  <2>3. QED
    BY <2>1, <2>2
<1>2. CASE HostReads(t)
  <2>1. chunk' \in [Readers -> Chunks]
    BY <1>0, <1>2 DEF HostReads, ReadingOK
  <2>2. QED
    BY <1>0, <1>2, <2>1, ReadsOn DEF HostReads, guard, host, HostOK, ReadingOK
<1>3. CASE HostCutsRead(t)
  <2>1. chunk' \in [Readers -> Chunks]
    BY <1>0, <1>3 DEF HostCutsRead, ReadingOK, Chunks
  <2>2. QED
    BY <1>0, <1>3, <2>1, ReadsOn DEF HostCutsRead, guard, HostOK, ReadingOK
<1>4. CASE ReadReturns(t)
  <2>1. CASE AfterRead(t) = "none"
    <3>1. size' \in [Readers -> Nat]
      BY <1>0, <1>4, <2>1 DEF ReadReturns, ReadingOK
    <3>2. QED
      BY <1>0, <1>4, <2>1, <3>1, ResolvedIsSticky, ReadsOn
         DEF ReadReturns, results, host, HostOK, ReadingOK
  <2>2. CASE AfterRead(t) # "none"
    BY <1>0, <1>4, <2>2, ResolvedIsSticky, ReadVerdicts, ReadEnds DEF ReadReturns
  <2>3. QED
    BY <2>1, <2>2
<1>5. CASE ChunkReturns(t)
  <2>1. PICK said \in {"ok", "client_disconnected", "delivery"} :
          /\ reason' = IF said = "client_disconnected" THEN reason ELSE Resolved
          /\ IF AfterChunk(t, said) # "none" THEN EndRead(t, AfterChunk(t, said))
             ELSE Goto(t, "top") /\ UNCHANGED <<readEnd, verdict>>
    BY <1>5 DEF ChunkReturns
  <2>2. /\ pc[t] = "chunk"
        /\ UNCHANGED <<mode, attached, closeOnce, done, headers, answer, connected,
                       chunk, size, host, signals>>
    BY <1>5 DEF ChunkReturns
  <2>3. reason' \in Reasons \cup {"none"} /\ (reason # "none" => reason' = reason)
    BY <1>0, <2>1, ResolvedIsSticky
  <2>4. CASE AfterChunk(t, said) = "none"
    BY <1>0, <2>1, <2>2, <2>3, <2>4, ReadsOn DEF results, host, HostOK, ReadingOK
  <2>5. CASE AfterChunk(t, said) # "none"
    BY <1>0, <2>1, <2>2, <2>3, <2>5, ReadVerdicts, ReadEnds
  <2>6. QED
    BY <2>4, <2>5
<1>6. QED
  BY <1>1, <1>2, <1>3, <1>4, <1>5

LEMMA InvNext == Inv /\ [Next]_vars => Inv'
<1>1. ASSUME Inv, UNCHANGED vars PROVE Inv'
  BY <1>1 DEF vars, guard, results, reading, host, signals, Inv, TypeOK, ControlOK, GuardOK,
              ResultsOK, ReadingOK, HostOK, SignalsOK, ConnInv, BodyInv, MainInv, CloseInv,
              StreamInv, CutInv, GraceInv
<1>2. QED
  BY <1>1, WatchStep, HostStep, ConnectStep, ReadsStep, MainStep, SignalStep
     DEF Next, Released

LEMMA SpecInv == Spec => []Inv
  BY InvInit, InvNext, PTL DEF Spec

----------------------------------------------------------------------------
(* The properties.                                                         *)

\* Whichever of the four threads closes the upstream stream, it is closed at
\* most once, and release leaves neither a stream nor an operation behind in
\* the host (upstream_guard.go:124-128,184-199).
THEOREM LeaksNothing == Spec => []NothingLeaks
<1>1. Inv => NothingLeaks
  BY DEF Inv, CloseInv, StreamInv, NothingLeaks, At
<1>2. QED
  BY <1>1, SpecInv, PTL

\* When release returns, the watcher and the connecting and reading goroutines
\* are gone and nobody is closing the stream (upstream_guard.go:20-21).
THEOREM ReleaseIsQuiet == Spec => []QuietOnceReleased
<1>1. ASSUME Inv, pc["main"] = "released"
      PROVE  pc["watch"] = "exited" /\ pc["conn"] = "ended"
  BY <1>1 DEF Inv, ConnInv, MainInv, Waiting
<1>2. Inv => QuietOnceReleased
  BY <1>1 DEF Inv, TypeOK, GuardOK, BodyInv, CloseInv, QuietOnceReleased, At
<1>3. QED
  BY <1>2, SpecInv, PTL

\* A response whose stream was closed under the read is never returned as
\* complete (upstream.go:251-254).
THEOREM TruncatedIsNotComplete == Spec => []TruncatedNeverComplete
<1>1. Inv => TruncatedNeverComplete
  BY DEF Inv, CutInv, TruncatedNeverComplete
<1>2. QED
  BY <1>1, SpecInv, PTL

\* Headers that arrive within the grace keep the stream from being handed to
\* the host before their status is known (service.go:185-191,434-443).
THEOREM HeadersInTime == Spec => []HeadersInTimeAnswered
<1>1. Inv => HeadersInTimeAnswered
  BY DEF Inv, GraceInv, HeadersInTimeAnswered, At
<1>2. QED
  BY <1>1, SpecInv, PTL

\* An attempt that gets its verdict after a stop is reported as stopped, as a
\* client that left, or by the reason already on record
\* (upstream.go:182-189, upstream_guard.go:144-170).
THEOREM StopReported == Spec => StopIsReported
<1>1. ASSUME Inv, shutdownC
      PROVE  Aborted /\ Resolved \in {"plugin_stopped", reason}
  BY <1>1 DEF Aborted, Resolved, Inv, TypeOK, GuardOK, Reasons
<1>2. ASSUME Inv, Next, shutdownC, verdict' # verdict
      PROVE  verdict' \in {Resolved, "client_disconnected"}
  <2>0. Aborted
    BY <1>1, <1>2
  <2>1. CASE CheckAnswer
    <3>1. Answered = Resolved /\ Resolved \notin {"none", "ok"} /\ connected = "none"
      BY <1>2, <2>0, <2>1, ResolvedIsSticky
         DEF Answered, Aborted, CheckAnswer, At, Inv, TypeOK, ConnInv, Reasons
    <3>2. QED
      BY <2>1, <3>1 DEF CheckAnswer
  <2>2. CASE BodyReported
    BY <2>0, <2>2 DEF BodyReported, BodyVerdict
  <2>3. CASE Reads
    <3>1. PICK t \in Readers : ReadTop(t) \/ ReadReturns(t) \/ ChunkReturns(t)
      BY <1>2, <2>3 DEF Reads, HostReads, HostCutsRead, results
    <3>2. ASSUME NEW how, EndRead(t, how) PROVE verdict' \in {how, verdict}
      BY <3>2 DEF EndRead
    <3>3. AfterRead(t) = Resolved
      BY <2>0 DEF AfterRead
    <3>4. \A said : AfterChunk(t, said) \in {Resolved, "client_disconnected"}
      BY <2>0 DEF AfterChunk
    <3>5. QED
      BY <1>2, <3>1, <3>2, <3>3, <3>4 DEF ReadTop, ReadReturns, ChunkReturns
  <2>4. CASE Watch \/ HostAnswers \/ HostAborts \/ Main \/ Signal \/ Released
    BY <1>2, <2>4 DEF Watch, WatchDone, WatchWakes, WatchCancels, WatchLoads, WatchCloses,
       HostAnswers, HostAborts, Main, TakeConnected, GraceTimer, GraceExpired, LookAtHeaders,
       ReleaseDone, ReleaseJoins, ReleaseCloses, ReleaseCancels, CancelOperation, CloseStream,
       CloseClaim, CloseHost, CloseSkip, Signal, Released, vars, results
  <2>5. CASE Attach \/ AttachCloses \/ MarkHeaders \/ BodyEnds \/ BodyLimit \/ BodyCloses
    BY <1>2, <2>5 DEF Attach, AttachCloses, MarkHeaders, BodyEnds, BodyLimit, BodyCloses,
       CloseStream, CloseClaim, CloseHost, CloseSkip, results
  <2>6. QED
    BY <1>2, <2>1, <2>2, <2>3, <2>4, <2>5 DEF Next, Connect
<1>3. Inv /\ [Next]_vars
          => [verdict = "none" /\ verdict' # "none" /\ shutdownC
                 => verdict' \in {"plugin_stopped", "client_disconnected", reason}]_vars
  BY <1>1, <1>2
<1>4. QED
  BY <1>3, SpecInv, PTL DEF Spec, StopIsReported
=============================================================================
