---------------------------- MODULE WsTurn_proofs ----------------------------
(***************************************************************************)
(* What holds of a websocket request for every number of resume tokens and *)
(* whether or not the wait for the dial has an end: a turn that its        *)
(* context ends has sent its cancel frame, with a token as new as any the  *)
(* turn knew, and the request never holds two connections, nor one when it *)
(* is over.                                                                *)
(***************************************************************************)
EXTENDS WsTurn, TLAPS

OpenLabels == {"dial", "send", "sendCancel", "sendClose"}
ReadLabels == {"reading", "waiting", "leaving", "closing"}
EarlyLabels == {"connecting", "start", "await"}
LateLabels == {"returned", "finishing", "failing", "done"}
CtxVerdicts == {"upstream_timeout", "plugin_stopped", "client_disconnected"}

ThreadsOK ==
    /\ main \in EarlyLabels \cup ReadLabels \cup LateLabels \cup OpenLabels \cup {"opened"}
    /\ dialer \in OpenLabels \cup {"opened"} /\ turn \in Turns
    /\ listener \in [Turns -> {"none", "watch", "write", "ended"}]
ContextOK == ctx \in {"live"} \cup DOMAIN CtxErrors /\ stopped \in BOOLEAN
WireOK ==
    /\ conn \in [Turns -> {"none", "open", "broken", "closed"}]
    /\ created \in [Turns -> BOOLEAN] /\ token \in [Turns -> Nat] /\ known \in [Turns -> Nat]
    /\ cancel \in [Turns -> [frame : {"none", "written", "failed"}, token : Nat]]
SignalsOK ==
    /\ loopDone \in [Turns -> BOOLEAN] /\ readCancelled \in [Turns -> BOOLEAN]
    /\ cancelSent \in [Turns -> BOOLEAN]
DownstreamOK ==
    /\ session \in {"none", "open", "closed"} /\ blocked \in BOOLEAN
    /\ outcome \in Verdicts

\* Every variable of the request keeps to its type.
TypeOK ==
    /\ ThreadsOK /\ ContextOK /\ WireOK /\ SignalsOK /\ DownstreamOK
    /\ verdict \in [Turns -> Verdicts]

Holds(t) == conn[t] \in {"open", "broken"}

\* The turn is not open yet: nobody has begun it, or somebody is dialling.
Unopened(t) ==
    IF t = 1 THEN dialer # "opened" ELSE turn = 1 \/ main \in OpenLabels

\* The turn is not read yet.
Unread(t) ==
    IF t = 1 THEN main \in EarlyLabels ELSE turn = 1 \/ main \in OpenLabels \cup {"opened"}

\* Which thread is at which turn, and what a turn has before it is
\* opened and before it is read.
TurnInv ==
    /\ main \in OpenLabels \cup {"opened"} => turn = 2
    /\ main \in EarlyLabels => turn = 1
    /\ main \notin EarlyLabels => dialer = "opened"
    /\ \A t \in Turns : Unopened(t) =>
          ~created[t] /\ verdict[t] = "none"
    /\ \A t \in Turns : Unread(t) => listener[t] = "none"

\* A turn's connection: none before its dial, none held once it has failed
\* to open or has returned.
ConnInv ==
    /\ dialer = "dial" => conn[1] = "none"
    /\ turn = 1 \/ main = "dial" => conn[2] = "none"
    /\ turn = 2 \/ main \in LateLabels => ~Holds(1)
    /\ turn = 2 /\ main \in LateLabels => ~Holds(2)
    /\ main \in EarlyLabels /\ verdict[1] # "none" => ~Holds(1)
    /\ main = "opened" /\ verdict[2] # "none" => ~Holds(2)

\* The cancel frame: its token is read once the context has ended, and only
\* the listener says that it is out.
CancelInv ==
    \A t \in Turns :
        /\ known[t] <= token[t]
        /\ listener[t] = "write" => Ended /\ cancel[t].token >= known[t]
        /\ cancelSent[t] =>
               /\ listener[t] = "ended" /\ Ended
               /\ cancel[t].frame # "none" /\ cancel[t].token >= known[t]
        /\ created[t] /\ verdict[t] \in CtxVerdicts => cancelSent[t]

WaitInv == main = "waiting" => Ended

Inv == TypeOK /\ TurnInv /\ ConnInv /\ CancelInv /\ WaitInv

----------------------------------------------------------------------------
(* The steps.                                                              *)

LEMMA InvInit == Init => Inv
<1> SUFFICES ASSUME Init PROVE Inv
  OBVIOUS
<1> USE DEF Init, PerTurn, Turns
<1>1. ThreadsOK /\ ContextOK /\ SignalsOK /\ DownstreamOK
  BY DEF ThreadsOK, ContextOK, SignalsOK, DownstreamOK, OpenLabels, EarlyLabels, Verdicts
<1>2. WireOK /\ verdict \in [Turns -> Verdicts]
  BY DEF WireOK, Verdicts
<1>3. TurnInv /\ ConnInv /\ WaitInv
  BY DEF TurnInv, ConnInv, WaitInv, Unopened, Unread, Holds, OpenLabels, EarlyLabels, LateLabels
<1>4. CancelInv
  BY DEF CancelInv, Ended
<1>5. QED
  BY <1>1, <1>2, <1>3, <1>4 DEF Inv, TypeOK

LEMMA DialStep ==
    ASSUME Inv, NEW t \in Turns,
           Dials(t) \/ DialRefused(t) \/ DialImpossible(t)
    PROVE  Inv'
<1> USE DEF Inv, TypeOK, ThreadsOK, ContextOK, WireOK, SignalsOK, DownstreamOK,
            TurnInv, ConnInv, CancelInv, WaitInv, Turns, Holds, Unopened, Unread, Ended,
            OpenLabels, ReadLabels, EarlyLabels, LateLabels, CtxVerdicts, CtxErrors,
            Verdicts, Frames, threads, context, wire, signals, downstream
<1>1. CASE Dials(t)
  BY <1>1 DEF Dials, Opening, Goes
<1>2. CASE DialRefused(t)
  BY <1>2 DEF DialRefused, Opening, Goes, Gives, OpenError
<1>3. CASE DialImpossible(t)
  BY <1>3 DEF DialImpossible, Opening, Goes, Gives
<1>4. QED
  BY <1>1, <1>2, <1>3

LEMMA SendStep ==
    ASSUME Inv, NEW t \in Turns,
           Sends(t) \/ SendFails(t) \/ SendCancels(t) \/ SendCloses(t)
    PROVE  Inv'
<1> USE DEF Inv, TypeOK, ThreadsOK, ContextOK, WireOK, SignalsOK, DownstreamOK,
            TurnInv, ConnInv, CancelInv, WaitInv, Turns, Holds, Unopened, Unread, Ended,
            OpenLabels, ReadLabels, EarlyLabels, LateLabels, CtxVerdicts, CtxErrors,
            Verdicts, Frames, threads, context, wire, signals, downstream
<1>1. CASE Sends(t)
  BY <1>1 DEF Sends, Opening, Goes
<1>2. CASE SendFails(t)
  BY <1>2 DEF SendFails, Opening, Goes
<1>3. CASE SendCancels(t)
  BY <1>3 DEF SendCancels, Opening, Goes, WritesCancel
<1>4. CASE SendCloses(t)
  BY <1>4 DEF SendCloses, Opening, Goes, Gives, OpenError, CloseConn
<1>5. QED
  BY <1>1, <1>2, <1>3, <1>4

LEMMA ReadStep ==
    ASSUME Inv, NEW t \in Turns,
           TurnOpened(t) \/ ReadsToken(t) \/ ReadsLast(t) \/ ReadFails(t) \/ WaitsForCancel(t) \/ LeavesLoop(t) \/ Closes(t) \/ Breaks(t)
    PROVE  Inv'
<1> USE DEF Inv, TypeOK, ThreadsOK, ContextOK, WireOK, SignalsOK, DownstreamOK,
            TurnInv, ConnInv, CancelInv, WaitInv, Turns, Holds, Unopened, Unread, Ended,
            OpenLabels, ReadLabels, EarlyLabels, LateLabels, CtxVerdicts, CtxErrors,
            Verdicts, Frames, threads, context, wire, signals, downstream
<1>1. CASE TurnOpened(t)
  <2>1. /\ turn = t /\ dialer = "opened" /\ main = IF t = 1 THEN "await" ELSE "opened"
        /\ UNCHANGED <<dialer, turn, context, wire, signals, verdict, downstream>>
    BY <1>1 DEF TurnOpened
  <2>2. CASE verdict[t] = "none"
    <3>1. main' = "reading" /\ listener' = [listener EXCEPT ![t] = "watch"]
      BY <1>1, <2>2 DEF TurnOpened, StartsReading
    <3>2. QED
      BY <2>1, <2>2, <3>1
  <2>3. CASE verdict[t] # "none"
    <3>1. main' = "failing" /\ UNCHANGED listener
      BY <1>1, <2>3 DEF TurnOpened
    <3>2. QED
      BY <2>1, <2>3, <3>1
  <2>4. QED
    BY <2>2, <2>3
<1>2. CASE ReadsToken(t)
  BY <1>2 DEF ReadsToken, Reading, CanRead
<1>3. CASE ReadsLast(t)
  BY <1>3 DEF ReadsLast, Reading, CanRead, Gives
<1>4. CASE ReadFails(t)
  BY <1>4 DEF ReadFails, Reading, CanRead, Gives
<1>5. CASE WaitsForCancel(t)
  BY <1>5 DEF WaitsForCancel, FrameIsOut, CloseConn, Gives
<1>6. CASE LeavesLoop(t)
  BY <1>6 DEF LeavesLoop
<1>7. CASE Closes(t)
  BY <1>7 DEF Closes, CloseConn
<1>8. CASE Breaks(t)
  BY <1>8 DEF Breaks
<1>9. QED
  BY <1>1, <1>2, <1>3, <1>4, <1>5, <1>6, <1>7, <1>8

LEMMA ListenStep ==
    ASSUME Inv, NEW t \in Turns,
           ListenerWakes(t) \/ ListenerWrites(t) \/ ListenerLeaves(t)
    PROVE  Inv'
<1> USE DEF Inv, TypeOK, ThreadsOK, ContextOK, WireOK, SignalsOK, DownstreamOK,
            TurnInv, ConnInv, CancelInv, WaitInv, Turns, Holds, Unopened, Unread, Ended,
            OpenLabels, ReadLabels, EarlyLabels, LateLabels, CtxVerdicts, CtxErrors,
            Verdicts, Frames, threads, context, wire, signals, downstream
<1>1. CASE ListenerWakes(t)
  BY <1>1 DEF ListenerWakes
<1>2. CASE ListenerWrites(t)
  BY <1>2 DEF ListenerWrites, WritesCancel
<1>3. CASE ListenerLeaves(t)
  BY <1>3 DEF ListenerLeaves
<1>4. QED
  BY <1>1, <1>2, <1>3

LEMMA MainStep == Inv /\ (AnswersEarly \/ HandsOver \/ Starts \/ Regenerates \/ Returns \/ Finishes) => Inv'
<1> SUFFICES ASSUME Inv, AnswersEarly \/ HandsOver \/ Starts \/ Regenerates \/ Returns \/ Finishes PROVE Inv'
  OBVIOUS
<1> USE DEF Inv, TypeOK, ThreadsOK, ContextOK, WireOK, SignalsOK, DownstreamOK,
            TurnInv, ConnInv, CancelInv, WaitInv, Turns, Holds, Unopened, Unread, Ended,
            OpenLabels, ReadLabels, EarlyLabels, LateLabels, CtxVerdicts, CtxErrors,
            Verdicts, Frames, threads, context, wire, signals, downstream
<1>1. CASE AnswersEarly
  BY <1>1 DEF AnswersEarly
<1>2. CASE HandsOver
  BY <1>2 DEF HandsOver
<1>3. CASE Starts
  BY <1>3 DEF Starts
<1>4. CASE Regenerates
  BY <1>4 DEF Regenerates
<1>5. CASE Returns
  BY <1>5 DEF Returns
<1>6. CASE Finishes
  BY <1>6 DEF Finishes
<1>7. QED
  BY <1>1, <1>2, <1>3, <1>4, <1>5, <1>6

LEMMA ContextStep == Inv /\ (DeadlinePasses \/ Shutdown \/ EmitBlocks \/ EmitReturns \/ ForceClose) => Inv'
<1> SUFFICES ASSUME Inv, DeadlinePasses \/ Shutdown \/ EmitBlocks \/ EmitReturns \/ ForceClose PROVE Inv'
  OBVIOUS
<1> USE DEF Inv, TypeOK, ThreadsOK, ContextOK, WireOK, SignalsOK, DownstreamOK,
            TurnInv, ConnInv, CancelInv, WaitInv, Turns, Holds, Unopened, Unread, Ended,
            OpenLabels, ReadLabels, EarlyLabels, LateLabels, CtxVerdicts, CtxErrors,
            Verdicts, Frames, threads, context, wire, signals, downstream
<1>1. CASE DeadlinePasses
  BY <1>1 DEF DeadlinePasses, EndsCtx
<1>2. CASE Shutdown
  BY <1>2 DEF Shutdown, EndsCtx
<1>3. CASE EmitBlocks
  BY <1>3 DEF EmitBlocks
<1>4. CASE EmitReturns
  <2>1. /\ blocked' = FALSE
        /\ UNCHANGED <<threads, stopped, conn, created, token, cancel, signals, verdict,
                       session, outcome>>
    BY <1>4 DEF EmitReturns
  <2>0. blocked' \in BOOLEAN
    BY <2>1
  <2>2. CASE UNCHANGED <<ctx, known>>
    BY <2>0, <2>1, <2>2
  <2>3. CASE EndsCtx("client")
    BY <2>0, <2>1, <2>3 DEF EndsCtx
  <2>4. QED
    BY <1>4, <2>2, <2>3 DEF EmitReturns
<1>5. CASE ForceClose
  <2>1. session' = "closed" /\ blocked' = FALSE
        /\ UNCHANGED <<threads, context, wire, signals, verdict, outcome>>
    BY <1>5 DEF ForceClose
  <2>2. blocked' \in BOOLEAN
    BY <2>1
  <2>3. QED
    BY <2>1, <2>2
<1>6. QED
  BY <1>1, <1>2, <1>3, <1>4, <1>5

LEMMA InvNext == Inv /\ [Next]_vars => Inv'
<1>1. ASSUME Inv, UNCHANGED vars PROVE Inv'
  BY <1>1 DEF vars, threads, context, wire, signals, downstream, Inv, TypeOK, ThreadsOK,
              ContextOK, WireOK, SignalsOK, DownstreamOK, TurnInv, ConnInv, CancelInv,
              WaitInv, Unopened, Unread, Holds, Ended
<1>2. ASSUME Inv, Main PROVE Inv'
  BY <1>2, MainStep, ReadStep DEF Main
<1>3. ASSUME Inv, NEW t \in Turns, Open(t) \/ Upstream(t) \/ DialImpossible(t) \/ SendFails(t)
      PROVE  Inv'
  BY <1>3, DialStep, SendStep, ReadStep DEF Open, Upstream, DialAborted, SendAborted
<1>4. ASSUME Inv, NEW t \in Turns, Listen(t) PROVE Inv'
  BY <1>4, ListenStep DEF Listen
<1>5. QED
  BY <1>1, <1>2, <1>3, <1>4, ContextStep DEF Next, Rest

LEMMA SpecInv == Spec => []Inv
  BY InvInit, InvNext, PTL DEF Spec

----------------------------------------------------------------------------
(* The properties.                                                         *)

\* A turn that its context ends after response.create is out has written its
\* cancel frame, or failed to, before it reports the end, and with a token no
\* older than the newest the turn knew then (transport_ws.go:262-282,289-303).
THEOREM CancelIsSent == Spec => []CancelReachesUpstream
<1>1. \A c \in DOMAIN CtxErrors : CtxErrors[c] \in CtxVerdicts
  BY DEF CtxErrors, CtxVerdicts
<1>2. Inv => CancelReachesUpstream
  BY <1>1 DEF Inv, CancelInv, CancelReachesUpstream
<1>3. QED
  BY <1>2, SpecInv, PTL

\* However its dial, its send and its turns end, a request holds one connection
\* at most and none when it is over (CHANGELOG.md:177, transport_ws.go:19-21).
THEOREM HoldsOneConnection == Spec => []OneConnection
<1> DEFINE Held == {t \in Turns : conn[t] \in {"open", "broken"}}
<1>1. ASSUME Inv PROVE \A t, u \in Held : t = u
  <2>1. ~Holds(1) \/ ~Holds(2)
    BY <1>1 DEF Inv, TypeOK, ThreadsOK, ConnInv, Holds, Turns
  <2>2. QED
    BY <2>1 DEF Holds, Turns
<1>2. ASSUME Inv, main = "done" PROVE Held = {}
  <2>1. ~Holds(1) /\ ~Holds(2)
    BY <1>2 DEF Inv, TypeOK, ThreadsOK, ConnInv, Holds, Turns, LateLabels
  <2>2. QED
    BY <2>1 DEF Holds, Turns
<1>3. Inv => OneConnection
  BY <1>1, <1>2 DEF OneConnection
<1>4. QED
  BY <1>3, SpecInv, PTL
=============================================================================
