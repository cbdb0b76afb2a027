------------------------- MODULE RelayRound_proofs -------------------------
(***************************************************************************)
(* What holds of RelayRound for every set of requests and of responses, in *)
(* each of its forms: an execution that is over has left nothing behind,   *)
(* the one record it has written is true, the tool calls of a response are *)
(* handed over all or not at all, and come back in the next history as     *)
(* what they were.                                                         *)
(***************************************************************************)
EXTENDS RelayRound, SequenceTheorems, WellFoundedInduction, TLAPS

Open == {"begin", "prepare", "issue", "trip", "reading", "validating", "retry"}
Ending == {"finishing", "failing", "writing", "close"}
Leaving == {"leaveFirst", "log", "leave"}
Written == {"close", "leave", "done"}
Presets == {"unset", "prepare_error", "connect_error"}

FlowOK ==
    /\ mode \in {"once", "http", "ws"} /\ pc \in Open \cup Ending \cup Leaving \cup {"done"}
    /\ attempt \in {0, 1} /\ err \in Errors
    /\ session \in {"none", "open", "closed"}
    /\ forced \in {"none", "plugin_stopped", "upstream_timeout"}
    /\ told \in {"nothing", "silence", "failed", "error", "completed"}
SummaryOK ==
    /\ first \in Results /\ final \in Results /\ checks \in 0..2
    /\ regen \in BOOLEAN /\ text \in BOOLEAN /\ incomplete \in BOOLEAN /\ preset \in Presets
EndOK == end.exit \in {"unset", "cancelled", "completed"} /\ end.kind \in Errors
RoundsOK == rounds \in Seq(Results) /\ Len(rounds) <= 2

\* What an execution has at each place: the session of a stream is open from
\* its first answer on, the resources of an attempt are held while it is under
\* way, and its record is written between the last event and the end
\* (service.go:285-319,452-635).
PlaceInv ==
    /\ pc \in {"begin", "prepare"} \cup Leaving => session = "none"
    /\ ~Streams => session = "none"
    /\ Streams /\ (attempt = 1 \/ pc \in {"reading", "validating", "retry"} \cup Ending)
           => session # "none"
    /\ pc \in Ending => Streams
    /\ pc = "issue" => ~Streams
    /\ attempt = 1 => pc \notin {"begin", "prepare", "retry"}
    /\ held => pc \in {"trip", "reading"}
    /\ pc = "done" => session # "open" /\ ~counted
    /\ forced # "none" => session = "closed"
    /\ record # NoRecord <=> pc \in Written

Happened(e) ==
    /\ e = "plugin_stopped" => stopped
    /\ e = "upstream_timeout" => expired
    /\ e = "client_disconnected" => clientGone

\* A reason that is given has happened; a preset exit belongs to an execution
\* that got no answer to judge (relay_summary.go:107-128).
ReasonInv ==
    /\ pc \in Open \cup {"finishing"} => err = "none"
    /\ pc = "failing" => err # "none"
    /\ Happened(err) /\ Happened(forced) /\ Happened(end.kind)
    /\ err = "invalid_tool_call" => final = "invalid" /\ preset = "unset"
    /\ preset # "unset" => /\ err # "none" /\ first = "not_run" /\ ~text /\ ~regen
                      /\ pc \notin Open \cup {"finishing"}

\* The counters agree with the attempts, at each place and in sum
\* (relay_summary.go:130-258).
RoundInv ==
    /\ pc \in {"begin", "prepare"} => rounds = <<>> /\ checks = 0 /\ ~regen
    /\ pc \in {"begin", "prepare", "issue", "trip"} /\ attempt = 0 => ~text
    /\ pc \in {"issue", "trip", "reading", "validating"} =>
          /\ Len(rounds) = attempt + 1 /\ rounds[attempt + 1] = "not_run"
          /\ checks = attempt /\ (regen <=> attempt = 1)
    /\ pc = "retry" => Len(rounds) = 1 /\ rounds[1] = "invalid" /\ checks = 1 /\ regen

Sums ==
    /\ attempts = Len(rounds)
    /\ first = IF rounds = <<>> THEN "not_run" ELSE rounds[1]
    /\ final = IF rounds = <<>> THEN "not_run" ELSE rounds[Len(rounds)]
    /\ Regenerated = RegenOf
    /\ regen => rounds # <<>> /\ rounds[1] = "invalid"

\* What the client was told and what the record is going to say
\* (stream_session.go:238-330).
EndInv ==
    pc = "writing" =>
        /\ end.exit = "completed" <=> told = "completed"
        /\ end.exit = "completed" => end.kind = "none"
        /\ end.exit = "cancelled" => told = "silence" /\ (clientGone \/ forced # "none")
        /\ end.exit = "unset" =>
              /\ end.kind # "none" /\ end.kind \in {err, "plugin_stopped"}
              /\ told # "nothing"
              /\ told \in {"failed", "error"} /\ err # "none" => end.kind = err
              /\ end.kind \in RequestScoped => told = "failed"

\* A watchdog that comes after the record takes an error that is not a failure.
RecordInv ==
    /\ RecordIsTrue
    /\ record # NoRecord /\ session = "open" /\ told = "error" => record.exit # "failed"

Types == FlowOK /\ SummaryOK /\ EndOK /\ RoundsOK
Inv == Types /\ PlaceInv /\ ReasonInv /\ RoundInv /\ Sums /\ EndInv /\ RecordInv

----------------------------------------------------------------------------
(* The vocabulary: sets of labels and of errors, and tuples of variables.  *)
USE DEF Open, Ending, Leaving, Written, Presets, Streams, Goto, form, place, resources,
    summary, environment, Errors, RequestScoped, Upstreams, Aborts, Valid, Results, NoRecord

\* A new attempt has no result yet, the ones before keep theirs.
LEMMA AttemptAppends ==
    ASSUME Types, Len(rounds) <= 1, AttemptStarted
    PROVE  /\ rounds' \in Seq(Results) /\ Len(rounds') = Len(rounds) + 1 /\ rounds' # <<>>
           /\ rounds'[Len(rounds) + 1] = "not_run"
           /\ Len(rounds) = 1 => rounds'[1] = rounds[1]
BY DEF Types, RoundsOK, AttemptStarted

\* Nothing is counted before the first attempt.
LEMMA NoAttempt == ASSUME RoundsOK PROVE rounds = <<>> <=> Len(rounds) = 0
BY EmptySeq DEF RoundsOK

\* The result of the attempt under way takes the place of not_run.
LEMMA ResultTakesPlace ==
    ASSUME Types, NEW r \in Results, NEW n \in {1, 2}, Len(rounds) = n, Validated(r)
    PROVE  /\ rounds' \in Seq(Results) /\ Len(rounds') = n /\ rounds'[n] = r
           /\ n = 2 => rounds'[1] = rounds[1]
<1>1. rounds \in Seq(Results) /\ n \in 1..Len(rounds)
  BY DEF Types, RoundsOK
<1>2. rounds' = [rounds EXCEPT ![n] = r]
  BY DEF Validated
<1>3. rounds' \in Seq(Results) /\ Len(rounds') = Len(rounds)
      /\ \A i \in 1..Len(rounds) : rounds'[i] = IF i = n THEN r ELSE rounds[i]
  BY <1>1, <1>2
<1> QED
  BY <1>1, <1>3

\* An attempt that has no answer yet is the first one's or the regeneration's.
LEMMA Unjudged ==
    ASSUME Inv, pc \in {"issue", "trip"}, attempt = 0
    PROVE  first = "not_run" /\ ~text /\ ~regen
<1>1. Len(rounds) = 1 /\ rounds[1] = "not_run" /\ ~text /\ ~regen
  BY DEF Inv, Types, FlowOK, RoundInv
<1>2. rounds # <<>>
  BY <1>1
<1> QED
  BY <1>1, <1>2 DEF Inv, Sums

LEMMA BeginKeeps ==
    ASSUME Inv, Begin
    PROVE  Inv'
<1>1. Types'
  BY DEF Inv, Types, FlowOK, SummaryOK, EndOK, RoundsOK, Begin
<1>2. PlaceInv'
  BY DEF Inv, PlaceInv, Begin
<1>3. ReasonInv'
  BY DEF Inv, ReasonInv, Happened, Begin
<1>4. RoundInv'
  BY DEF Inv, RoundInv, Begin
<1>5. Sums'
  BY DEF Inv, Sums, Regenerated, RegenOf, Begin
<1>6. EndInv'
  BY DEF EndInv, Begin
<1>7. RecordInv'
  BY DEF Inv, PlaceInv, RecordInv, RecordIsTrue, Begin
<1> QED
  BY <1>1, <1>2, <1>3, <1>4, <1>5, <1>6, <1>7 DEF Inv

LEMMA PrepareFailsKeeps ==
    ASSUME Inv, PrepareFails
    PROVE  Inv'
<1>1. Types'
  BY DEF Inv, Types, FlowOK, SummaryOK, EndOK, RoundsOK, PrepareFails, AnswersError,
     SameCounters, Aborted
<1>2. PlaceInv'
  BY DEF Inv, PlaceInv, PrepareFails, AnswersError
<1>3. ReasonInv'
  <2>1. PICK e \in {"invalid_request", "upstream_transport"} \cup Aborted :
            AnswersError("prepare_error", e)
    BY DEF PrepareFails
  <2>2. Happened(e) /\ e \notin {"none", "invalid_tool_call"}
    BY DEF Aborted, Happened
  <2>3. first = "not_run" /\ ~text /\ ~regen
    BY DEF Inv, Types, FlowOK, RoundInv, Sums, PrepareFails, PlaceInv
  <2> QED
    BY <2>1, <2>2, <2>3 DEF Inv, Types, FlowOK, ReasonInv, Happened, PrepareFails, AnswersError,
       SameCounters
<1>4. RoundInv'
  BY DEF RoundInv, PrepareFails, AnswersError
<1>5. Sums'
  BY DEF Inv, Sums, Regenerated, RegenOf, PrepareFails, AnswersError, SameCounters
<1>6. EndInv'
  BY DEF EndInv, PrepareFails, AnswersError
<1>7. RecordInv'
  BY DEF Inv, PlaceInv, RecordInv, RecordIsTrue, PrepareFails, AnswersError
<1> QED
  BY <1>1, <1>2, <1>3, <1>4, <1>5, <1>6, <1>7 DEF Inv

LEMMA PreparesKeeps ==
    ASSUME Inv, Prepares
    PROVE  Inv'
<1>1. rounds = <<>> /\ Len(rounds) = 0 /\ attempt = 0 /\ checks = 0 /\ ~regen
  BY DEF Prepares, Inv, Types, FlowOK, RoundInv, PlaceInv
<1>2. /\ rounds' \in Seq(Results) /\ Len(rounds') = 1 /\ rounds'[1] = "not_run"
      /\ rounds' # <<>>
  BY <1>1, AttemptAppends DEF Prepares, Inv
<1>3. /\ first' = first /\ final' = Reset /\ attempts' = attempts + 1
      /\ UNCHANGED <<checks, regen>>
  BY DEF Prepares, AttemptStarted
<1>4. FlowOK'
  BY DEF Inv, Types, FlowOK, Prepares, AttemptStarted
<1>5. SummaryOK'
  BY DEF Inv, Types, SummaryOK, Prepares, AttemptStarted, Reset
<1>6. EndOK'
  BY DEF Inv, Types, EndOK, Prepares, AttemptStarted
<1>7. RoundsOK'
  BY <1>2 DEF RoundsOK
<1>8. PlaceInv'
  BY DEF Inv, PlaceInv, Prepares, AttemptStarted
<1>9. ReasonInv'
  BY DEF Inv, ReasonInv, Happened, Prepares, AttemptStarted
<1>10. RoundInv'
  BY <1>1, <1>2, <1>3 DEF Inv, RoundInv, Prepares, AttemptStarted
<1>11. Sums'
  <2>1. attempts = 0 /\ first = "not_run" /\ final = "not_run"
    BY <1>1 DEF Inv, Sums
  <2> QED
    BY <1>1, <1>2, <1>3, <2>1 DEF Sums, Reset, Regenerated, RegenOf
<1>12. EndInv'
  BY DEF EndInv, Prepares, AttemptStarted
<1>13. RecordInv'
  BY DEF Inv, PlaceInv, RecordInv, RecordIsTrue, Prepares, AttemptStarted
<1> QED
  BY <1>4, <1>5, <1>6, <1>7, <1>8, <1>9, <1>10, <1>11, <1>12, <1>13 DEF Inv, Types

LEMMA IssuesKeeps ==
    ASSUME Inv, Issues
    PROVE  Inv'
<1>1. Types'
  BY DEF Inv, Types, FlowOK, SummaryOK, EndOK, RoundsOK, Issues, FailsWith
<1>2. PlaceInv'
  BY DEF Inv, PlaceInv, Issues, FailsWith
<1>3. ReasonInv'
  BY DEF Inv, ReasonInv, Happened, Issues, FailsWith
<1>4. RoundInv'
  BY DEF Inv, RoundInv, Issues, FailsWith
<1>5. Sums'
  BY DEF Inv, Sums, Regenerated, RegenOf, Issues, FailsWith
<1>6. EndInv'
  BY DEF EndInv, Issues, FailsWith
<1>7. RecordInv'
  BY DEF Inv, PlaceInv, RecordInv, RecordIsTrue, Issues, FailsWith
<1> QED
  BY <1>1, <1>2, <1>3, <1>4, <1>5, <1>6, <1>7 DEF Inv

LEMMA GraceOverKeeps ==
    ASSUME Inv, GraceOver
    PROVE  Inv'
<1>1. Types'
  BY DEF Inv, Types, FlowOK, SummaryOK, EndOK, RoundsOK, GraceOver
<1>2. PlaceInv'
  BY DEF Inv, PlaceInv, GraceOver
<1>3. ReasonInv'
  BY DEF Inv, ReasonInv, Happened, GraceOver
<1>4. RoundInv'
  BY DEF Inv, RoundInv, GraceOver
<1>5. Sums'
  BY DEF Inv, Sums, Regenerated, RegenOf, GraceOver
<1>6. EndInv'
  BY DEF EndInv, GraceOver
<1>7. RecordInv'
  BY DEF Inv, PlaceInv, RecordInv, RecordIsTrue, GraceOver
<1> QED
  BY <1>1, <1>2, <1>3, <1>4, <1>5, <1>6, <1>7 DEF Inv

LEMMA ConnectsKeeps ==
    ASSUME Inv, Connects
    PROVE  Inv'
<1>1. Types'
  BY DEF Inv, Types, FlowOK, SummaryOK, EndOK, RoundsOK, Connects
<1>2. PlaceInv'
  BY DEF Inv, PlaceInv, Connects
<1>3. ReasonInv'
  BY DEF Inv, ReasonInv, Happened, Connects
<1>4. RoundInv'
  BY DEF Inv, RoundInv, Connects
<1>5. Sums'
  BY DEF Inv, Sums, Regenerated, RegenOf, Connects
<1>6. EndInv'
  BY DEF EndInv, Connects
<1>7. RecordInv'
  BY DEF Inv, PlaceInv, RecordInv, RecordIsTrue, Connects
<1> QED
  BY <1>1, <1>2, <1>3, <1>4, <1>5, <1>6, <1>7 DEF Inv

LEMMA TripFailsKeeps ==
    ASSUME Inv,
           NEW e \in Upstreams \cup {"invalid_upstream_response"} \cup Aborts,
           e \in Aborts => Happened(e), TripFails(e)
    PROVE  Inv'
<1>1. Types'
  BY DEF Inv, Types, FlowOK, SummaryOK, EndOK, RoundsOK, TripFails, AnswersError,
     FailsWith, SameCounters
<1>2. PlaceInv'
  BY DEF Inv, PlaceInv, TripFails, AnswersError, FailsWith, Released
<1>3. ReasonInv'
  <2>1. e \notin {"none", "invalid_tool_call"} /\ Happened(e)
    BY DEF Happened
  <2>2. Streams /\ session = "none" => attempt = 0
    BY DEF Inv, Types, FlowOK, PlaceInv
  <2>3. attempt = 0 => first = "not_run" /\ ~text /\ ~regen
    BY Unjudged DEF TripFails
  <2>4. err' = e /\ pc' \notin Open \cup {"finishing"}
        /\ UNCHANGED <<end, forced, stopped, expired, clientGone, first, text, regen>>
    BY DEF TripFails, AnswersError, FailsWith, SameCounters
  <2>5. preset' # "unset" => attempt = 0
    BY <2>2 DEF TripFails, AnswersError, FailsWith, Inv, ReasonInv
  <2> QED
    BY <2>1, <2>3, <2>4, <2>5 DEF Inv, ReasonInv, Happened
<1>4. RoundInv'
  BY DEF RoundInv, TripFails, AnswersError, FailsWith
<1>5. Sums'
  BY DEF Inv, Sums, Regenerated, RegenOf, TripFails, AnswersError, FailsWith, SameCounters
<1>6. EndInv'
  BY DEF EndInv, TripFails, AnswersError, FailsWith
<1>7. RecordInv'
  BY DEF Inv, PlaceInv, RecordInv, RecordIsTrue, TripFails, AnswersError, FailsWith
<1> QED
  BY <1>1, <1>2, <1>3, <1>4, <1>5, <1>6, <1>7 DEF Inv

LEMMA DeliversKeeps ==
    ASSUME Inv, Delivers
    PROVE  Inv'
<1>1. Types'
  BY DEF Inv, Types, FlowOK, SummaryOK, EndOK, RoundsOK, Delivers
<1>2. PlaceInv'
  BY DEF Inv, PlaceInv, Delivers
<1>3. ReasonInv'
  BY DEF Inv, ReasonInv, Happened, Delivers
<1>4. RoundInv'
  BY DEF Inv, RoundInv, Delivers
<1>5. Sums'
  BY DEF Inv, Sums, Regenerated, RegenOf, Delivers
<1>6. EndInv'
  BY DEF EndInv, Delivers
<1>7. RecordInv'
  BY DEF Inv, PlaceInv, RecordInv, RecordIsTrue, Delivers
<1> QED
  BY <1>1, <1>2, <1>3, <1>4, <1>5, <1>6, <1>7 DEF Inv

LEMMA ReadFailsKeeps ==
    ASSUME Inv,
           NEW e \in Upstreams \cup {"invalid_upstream_response"} \cup Aborts,
           e \in Aborts => Happened(e), ReadFails(e)
    PROVE  Inv'
<1>1. Types'
  BY DEF Inv, Types, FlowOK, SummaryOK, EndOK, RoundsOK, ReadFails, FailsWith, SameCounters
<1>2. PlaceInv'
  BY DEF Inv, PlaceInv, ReadFails, FailsWith, Released
<1>3. ReasonInv'
  BY DEF Inv, ReasonInv, Happened, ReadFails, FailsWith
<1>4. RoundInv'
  BY DEF RoundInv, ReadFails, FailsWith
<1>5. Sums'
  BY DEF Inv, Sums, Regenerated, RegenOf, ReadFails, FailsWith, SameCounters
<1>6. EndInv'
  BY DEF EndInv, ReadFails, FailsWith
<1>7. RecordInv'
  BY DEF Inv, PlaceInv, RecordInv, RecordIsTrue, ReadFails, FailsWith
<1> QED
  BY <1>1, <1>2, <1>3, <1>4, <1>5, <1>6, <1>7 DEF Inv

LEMMA ParsesKeeps ==
    ASSUME Inv, Parses
    PROVE  Inv'
<1>1. Types'
  BY DEF Inv, Types, FlowOK, SummaryOK, EndOK, RoundsOK, Parses
<1>2. PlaceInv'
  BY DEF Inv, PlaceInv, Parses, Released
<1>3. ReasonInv'
  BY DEF Inv, ReasonInv, Happened, Parses
<1>4. RoundInv'
  BY DEF Inv, RoundInv, Parses
<1>5. Sums'
  BY DEF Inv, Sums, Regenerated, RegenOf, Parses
<1>6. EndInv'
  BY DEF EndInv, Parses
<1>7. RecordInv'
  BY DEF Inv, RecordInv, RecordIsTrue, TellsRound, TellsEnd, ToolFailure, RegenOf, Parses
<1> QED
  BY <1>1, <1>2, <1>3, <1>4, <1>5, <1>6, <1>7 DEF Inv

LEMMA ValidatesKeeps ==
    ASSUME Inv, Validates
    PROVE  Inv'
<1>a. PICK r \in Valid \cup {"invalid"}, cut \in BOOLEAN :
          /\ Validated(r)
          /\ IF r \in Valid
             THEN /\ incomplete' = cut /\ UNCHANGED <<err, regen>>
                  /\ pc' = IF Streams THEN "finishing" ELSE "log"
             ELSE /\ UNCHANGED incomplete
                  /\ IF attempt = 0 /\ ~cut /\ ~text
                     THEN pc' = "retry" /\ regen' = TRUE /\ UNCHANGED err
                     ELSE /\ pc' = IF Streams THEN "failing" ELSE "log"
                          /\ err' = "invalid_tool_call" /\ UNCHANGED regen
  <2>1. relayResult(Transformed[source][answer]) \in Valid \cup {"invalid"}
    BY DEF relayResult
  <2> QED
    BY <2>1 DEF Validates
<1>b. /\ pc = "validating" /\ err = "none" /\ preset = "unset" /\ attempt \in {0, 1}
      /\ regen \in BOOLEAN
  BY DEF Validates, Inv, Types, FlowOK, SummaryOK, ReasonInv
<1>c. RoundsOK
  BY DEF Inv, Types
<1>d. /\ Len(rounds) = attempt + 1 /\ rounds[attempt + 1] = "not_run" /\ checks = attempt
      /\ (regen <=> attempt = 1)
  BY <1>b DEF Inv, RoundInv
<1>e. /\ attempts = attempt + 1 /\ final = "not_run" /\ first = rounds[1]
      /\ attempt = 1 => rounds[1] = "invalid"
      /\ attempt = 0 => rounds[1] = "not_run"
  <2>1. rounds # <<>>
    BY <1>b, <1>d, <1>c, NoAttempt
  <2> QED
    BY <1>b, <1>d, <2>1 DEF Inv, Sums
<1>f. /\ rounds' \in Seq(Results) /\ Len(rounds') = attempt + 1
      /\ rounds'[attempt + 1] = r /\ (attempt = 1 => rounds'[1] = "invalid")
  <2>1. attempt + 1 \in {1, 2} /\ r \in Results
    BY <1>a, <1>b
  <2> QED
    BY <1>a, <1>b, <1>d, <1>e, <2>1, ResultTakesPlace DEF Inv
<1>g. RoundsOK' /\ rounds' # <<>>
  <2>1. RoundsOK'
    BY <1>b, <1>f DEF RoundsOK
  <2>2. Len(rounds') # 0 /\ Len(<<>>) = 0
    BY <1>b, <1>f
  <2> QED
    BY <2>1, <2>2
<1>h. /\ checks' = attempt + 1 /\ final' = r
      /\ first' = IF first = "not_run" THEN r ELSE first
      /\ preset' = "unset" /\ UNCHANGED <<attempts, attempt, text, end, forced, session, mode,
                                     held, counted, record, told, stopped, expired, clientGone>>
  <2>1. Validated(r) /\ pc = "validating" /\ preset = "unset"
    BY <1>a, <1>b
  <2> QED
    BY <1>d, <2>1 DEF Validates, Validated
<1>i. /\ pc' \in {"finishing", "failing", "log", "retry"}
      /\ err' \in {"none", "invalid_tool_call"}
      /\ regen' \in BOOLEAN /\ incomplete' \in BOOLEAN
  BY <1>a, <1>b DEF Inv, Types, SummaryOK
<1>j. /\ pc' \in {"finishing", "failing"} => Streams
      /\ pc' = "log" => ~Streams
      /\ pc' \in {"finishing", "retry"} => err' = "none"
      /\ pc' = "failing" => err' # "none"
      /\ err' = "invalid_tool_call" => r = "invalid"
      /\ pc' = "retry" => attempt = 0 /\ r = "invalid"
  <2>1. CASE r \in Valid
    BY <1>a, <1>b, <1>d, <2>1
  <2>2. CASE r \notin Valid /\ attempt = 0 /\ ~cut /\ ~text
    BY <1>a, <1>b, <1>d, <2>2
  <2>3. CASE r \notin Valid /\ ~(attempt = 0 /\ ~cut /\ ~text)
    BY <1>a, <1>b, <1>d, <2>3
  <2> QED
    BY <2>1, <2>2, <2>3
<1>k. regen' <=> attempt = 1 \/ pc' = "retry"
  <2>1. CASE r \in Valid
    BY <1>a, <1>b, <1>d, <2>1
  <2>2. CASE r \notin Valid /\ attempt = 0 /\ ~cut /\ ~text
    BY <1>a, <1>b, <1>d, <2>2
  <2>3. CASE r \notin Valid /\ ~(attempt = 0 /\ ~cut /\ ~text)
    BY <1>a, <1>b, <1>d, <2>3
  <2> QED
    BY <2>1, <2>2, <2>3
<1>1. FlowOK'
  BY <1>b, <1>h, <1>i DEF Inv, Types, FlowOK
<1>2. SummaryOK'
  BY <1>a, <1>b, <1>h, <1>i DEF Inv, Types, SummaryOK
<1>3. EndOK'
  BY <1>h DEF Inv, Types, EndOK
<1>4. RoundsOK'
  BY <1>g
<1>5. PlaceInv'
  BY <1>b, <1>h, <1>i, <1>j DEF Inv, PlaceInv
<1>6. ReasonInv'
  BY <1>b, <1>h, <1>i, <1>j DEF Inv, ReasonInv, Happened
<1>7. RoundInv'
  <2>1. pc' = "retry" => Len(rounds') = 1 /\ rounds'[1] = "invalid" /\ checks' = 1 /\ regen'
    BY <1>b, <1>f, <1>h, <1>j, <1>k
  <2> QED
    BY <1>b, <1>h, <1>i, <2>1 DEF RoundInv
<1>8. Sums'
  <2>1. /\ attempts' = Len(rounds') /\ first' = rounds'[1] /\ final' = rounds'[Len(rounds')]
        /\ regen' => rounds'[1] = "invalid"
    BY <1>a, <1>b, <1>e, <1>f, <1>h, <1>j, <1>k
  <2>2. Regenerated' = RegenOf'
    <3>1. CASE attempt = 0
      BY <1>a, <1>b, <1>f, <1>h, <1>k, <3>1 DEF Regenerated, RegenOf
    <3>2. CASE attempt = 1
      BY <1>a, <1>b, <1>f, <1>h, <1>k, <3>2 DEF Regenerated, RegenOf
    <3> QED
      BY <1>b, <3>1, <3>2
  <2> QED
    BY <1>g, <2>1, <2>2 DEF Sums
<1>9. EndInv'
  BY <1>i DEF EndInv
<1>10. RecordInv'
  BY <1>b, <1>h DEF Inv, PlaceInv, RecordInv, RecordIsTrue
<1> QED
  BY <1>1, <1>2, <1>3, <1>4, <1>5, <1>6, <1>7, <1>8, <1>9, <1>10 DEF Inv, Types

LEMMA RetriesKeeps ==
    ASSUME Inv, Retries
    PROVE  Inv'
<1>1. /\ pc = "retry" /\ attempt = 0 /\ Len(rounds) = 1 /\ rounds[1] = "invalid" /\ checks = 1
      /\ regen /\ err = "none" /\ preset = "unset"
  BY DEF Retries, Inv, Types, FlowOK, RoundInv, PlaceInv, ReasonInv
<1>2. rounds # <<>> /\ attempts = 1 /\ first = "invalid"
  <2>1. rounds # <<>>
    BY <1>1, NoAttempt DEF Inv, Types
  <2> QED
    BY <1>1, <2>1 DEF Inv, Sums
<1>3. ASSUME mode = "http" /\ expired
      PROVE  RoundsOK' /\ Sums' /\ RoundInv'
  <2>1. /\ UNCHANGED <<attempts, first, final, checks, regen, rounds>>
        /\ pc' \in {"failing", "log"}
    BY <1>3 DEF Retries, SameCounters, FailsWith
  <2>2. RoundsOK' /\ Sums'
    BY <2>1 DEF Inv, Types, RoundsOK, Sums, Regenerated, RegenOf
  <2>3. RoundInv'
    BY <2>1 DEF RoundInv
  <2> QED
    BY <2>2, <2>3
<1>4. ASSUME ~(mode = "http" /\ expired)
      PROVE  RoundsOK' /\ Sums' /\ RoundInv'
  <2>1. AttemptStarted /\ attempt' = 1 /\ pc' \in {"issue", "trip"}
    BY <1>4 DEF Retries
  <2>2. /\ rounds' \in Seq(Results) /\ Len(rounds') = 2 /\ rounds' # <<>>
        /\ rounds'[1] = "invalid" /\ rounds'[2] = "not_run"
    <3>1. Len(rounds) = 1 /\ rounds[1] = "invalid"
      BY <1>1
    <3> QED
      BY <2>1, <3>1, AttemptAppends DEF Inv
  <2>3. /\ attempts' = 2 /\ final' = "not_run" /\ UNCHANGED <<first, checks, regen>>
    BY <1>2, <2>1 DEF AttemptStarted, Reset
  <2>4. RoundsOK' /\ Sums'
    BY <1>1, <1>2, <2>2, <2>3 DEF RoundsOK, Sums, Regenerated, RegenOf
  <2>5. RoundInv'
    BY <1>1, <2>1, <2>2, <2>3 DEF RoundInv
  <2> QED
    BY <2>4, <2>5
<1>5. FlowOK'
  BY DEF Inv, Types, FlowOK, Retries, FailsWith, AttemptStarted
<1>6. SummaryOK'
  BY DEF Inv, Types, SummaryOK, Retries, FailsWith, SameCounters, AttemptStarted, Reset
<1>7. EndOK'
  BY DEF Inv, Types, EndOK, Retries, FailsWith, AttemptStarted
<1>8. RoundsOK'
  BY <1>3, <1>4
<1>9. PlaceInv'
  BY DEF Inv, PlaceInv, Retries, FailsWith, AttemptStarted
<1>10. ReasonInv'
  BY DEF Inv, ReasonInv, Happened, Retries, FailsWith, AttemptStarted
<1>11. RoundInv'
  BY <1>3, <1>4
<1>12. Sums'
  BY <1>3, <1>4
<1>13. EndInv'
  BY DEF EndInv, Retries, FailsWith, AttemptStarted
<1>14. RecordInv'
  BY DEF Inv, PlaceInv, RecordInv, RecordIsTrue, Retries, FailsWith, AttemptStarted
<1> QED
  BY <1>5, <1>6, <1>7, <1>8, <1>9, <1>10, <1>11, <1>12, <1>13, <1>14 DEF Inv, Types

LEMMA FinishesKeeps ==
    ASSUME Inv, Finishes
    PROVE  Inv'
<1>1. PICK exit \in {"unset", "cancelled", "completed"}, kind \in {"none", "plugin_stopped"},
           what \in {"silence", "failed", "completed"} :
          /\ Ends(exit, kind, what)
          /\ exit = "completed" <=> what = "completed"
          /\ exit = "completed" => kind = "none"
          /\ exit = "cancelled" => what = "silence" /\ (clientGone \/ forced # "none")
          /\ exit = "unset" => kind = "plugin_stopped" /\ what = "failed"
          /\ kind = "plugin_stopped" => stopped
  BY DEF Finishes
<1>2. /\ end' = [exit |-> exit, kind |-> kind] /\ told' = what /\ pc' = "writing"
      /\ UNCHANGED <<attempt, err, forced, stopped, expired, clientGone, first, final, text,
                     regen, preset, mode, rounds, checks, attempts, session, held, counted,
                     record, incomplete>>
  BY <1>1 DEF Ends
<1>3. pc = "finishing" /\ err = "none"
  BY DEF Finishes, Inv, ReasonInv
<1>4. FlowOK'
  BY <1>2, <1>3 DEF Inv, Types, FlowOK
<1>5. SummaryOK'
  BY <1>2 DEF Inv, Types, SummaryOK
<1>6. EndOK'
  BY <1>2 DEF EndOK
<1>7. RoundsOK'
  BY <1>2 DEF Inv, Types, RoundsOK
<1>8. PlaceInv'
  BY <1>2, <1>3 DEF Inv, PlaceInv
<1>9. ReasonInv'
  BY <1>1, <1>2, <1>3 DEF Inv, ReasonInv, Happened
<1>10. RoundInv'
  BY <1>2 DEF RoundInv
<1>11. Sums'
  BY <1>2 DEF Inv, Sums, Regenerated, RegenOf
<1>12. EndInv'
  BY <1>1, <1>2, <1>3 DEF EndInv
<1>13. RecordInv'
  BY <1>2, <1>3 DEF Inv, PlaceInv, RecordInv, RecordIsTrue
<1> QED
  BY <1>4, <1>5, <1>6, <1>7, <1>8, <1>9, <1>10, <1>11, <1>12, <1>13 DEF Inv, Types

LEMMA FailsKeeps ==
    ASSUME Inv, Fails
    PROVE  Inv'
<1>1. pc = "failing" /\ err # "none" /\ err \in Errors
  BY DEF Fails, Inv, Types, FlowOK, ReasonInv
<1>2. PICK exit \in {"unset", "cancelled"}, what \in {"silence", "failed", "error"} :
          /\ Ends(exit, err, what)
          /\ exit = "cancelled" => what = "silence" /\ (clientGone \/ forced # "none")
          /\ exit = "unset" =>
                what = IF err \in RequestScoped \cup {"plugin_stopped"} THEN "failed" ELSE "error"
  <2>1. err = "client_disconnected" => clientGone
    BY DEF Inv, ReasonInv, Happened
  <2> QED
    BY <2>1 DEF Fails
<1>3. /\ end' = [exit |-> exit, kind |-> err] /\ told' = what /\ pc' = "writing"
      /\ UNCHANGED <<attempt, err, forced, stopped, expired, clientGone, first, final, text,
                     regen, preset, mode, rounds, checks, attempts, session, held, counted,
                     record, incomplete>>
  BY <1>2 DEF Ends
<1>4. FlowOK'
  BY <1>3, <1>1 DEF Inv, Types, FlowOK
<1>5. SummaryOK'
  BY <1>3 DEF Inv, Types, SummaryOK
<1>6. EndOK'
  BY <1>2, <1>3, <1>1 DEF EndOK
<1>7. RoundsOK'
  BY <1>3 DEF Inv, Types, RoundsOK
<1>8. PlaceInv'
  BY <1>3, <1>1 DEF Inv, PlaceInv
<1>9. ReasonInv'
  BY <1>2, <1>3, <1>1 DEF Inv, ReasonInv, Happened
<1>10. RoundInv'
  BY <1>3 DEF RoundInv
<1>11. Sums'
  BY <1>3 DEF Inv, Sums, Regenerated, RegenOf
<1>12. EndInv'
  BY <1>2, <1>3, <1>1 DEF EndInv
<1>13. RecordInv'
  BY <1>3, <1>1 DEF Inv, PlaceInv, RecordInv, RecordIsTrue
<1> QED
  BY <1>4, <1>5, <1>6, <1>7, <1>8, <1>9, <1>10, <1>11, <1>12, <1>13 DEF Inv, Types

LEMMA WritesKeeps ==
    ASSUME Inv, Writes
    PROVE  Inv'
<1>1. PICK exit, regenerated :
          /\ record' = [exit |-> exit, kind |-> IF forced # "none" THEN forced ELSE end.kind,
                        regen |-> regenerated]
          /\ regenerated = Regenerated
          /\ LET named == IF forced # "none" THEN ExitForError(forced)
                          ELSE IF end.exit # "unset" THEN end.exit
                          ELSE IF preset # "unset" THEN preset ELSE ExitForError(end.kind)
             IN  exit = IF named = "completed" /\ incomplete THEN "incomplete" ELSE named
  BY DEF Writes, Write
<1>2. /\ pc = "writing" /\ pc' = "close"
      /\ UNCHANGED <<mode, attempt, err, end, held, counted, session, forced, told, attempts,
                     first, final, checks, regen, text, incomplete, preset, rounds, stopped,
                     expired, clientGone>>
  BY DEF Writes
<1>3. /\ exit # "none"
      /\ forced # "none" => exit = ExitForError(forced) /\ exit \in {"stopped", "timeout"}
      /\ forced = "none" /\ end.exit = "completed" => exit \in {"completed", "incomplete"}
      /\ forced = "none" /\ end.exit = "cancelled" => exit = "cancelled"
      /\ forced = "none" /\ end.exit = "unset" /\ preset # "unset" => exit = preset
      /\ forced = "none" /\ end.exit = "unset" /\ preset = "unset"
            => exit = ExitForError(end.kind)
  BY <1>1, <1>2 DEF Inv, Types, FlowOK, EndOK, SummaryOK, EndInv, ExitForError
<1>4. Types'
  BY DEF Inv, Types, FlowOK, SummaryOK, EndOK, RoundsOK, Writes, Write
<1>5. PlaceInv'
  BY <1>1, <1>2, <1>3 DEF Inv, PlaceInv
<1>6. ReasonInv'
  BY DEF Inv, ReasonInv, Happened, Writes, Write
<1>7. RoundInv'
  BY DEF RoundInv, Writes, Write
<1>8. Sums'
  BY DEF Inv, Sums, Regenerated, RegenOf, Writes, Write
<1>9. EndInv'
  BY DEF EndInv, Writes, Write
<1>10. RecordInv'
  <2>1. TellsRound'
    <3>1. /\ record'.exit = exit /\ record'.regen = RegenOf
          /\ record'.kind = IF forced # "none" THEN forced ELSE end.kind
      BY <1>1 DEF Inv, Sums
    <3>2. RegenOf' = RegenOf
      BY <1>2 DEF RegenOf
    <3>3. ToolFailure' => told \in {"failed", "error"} /\ err = "invalid_tool_call"
      BY <1>2, <1>3, <3>1 DEF Inv, Types, FlowOK, EndOK, EndInv, ToolFailure
    <3>4. told \in {"failed", "error"} /\ err = "invalid_tool_call" /\ forced = "none"
              => ToolFailure'
      BY <1>2, <1>3, <3>1 DEF Inv, Types, FlowOK, EndOK, EndInv, ReasonInv, ToolFailure,
         ExitForError
    <3> QED
      BY <1>2, <3>1, <3>2, <3>3, <3>4 DEF Inv, Sums, TellsRound
  <2>2. TellsEnd'
    <3>1. record'.exit = exit
      BY <1>1
    <3>2. CASE forced # "none"
      BY <1>2, <1>3, <3>1, <3>2 DEF Inv, Types, FlowOK, EndInv, ReasonInv, Happened, TellsEnd,
         ExitForError
    <3>3. CASE forced = "none" /\ end.exit = "completed"
      BY <1>2, <1>3, <3>1, <3>3 DEF Inv, EndInv, TellsEnd
    <3>4. CASE forced = "none" /\ end.exit = "cancelled"
      BY <1>2, <1>3, <3>1, <3>4 DEF Inv, EndInv, TellsEnd
    <3>5. CASE forced = "none" /\ end.exit = "unset" /\ preset # "unset"
      BY <1>2, <1>3, <3>1, <3>5 DEF Inv, Types, SummaryOK, EndInv, ReasonInv, TellsEnd
    <3>6. CASE forced = "none" /\ end.exit = "unset" /\ preset = "unset"
      BY <1>2, <1>3, <3>1, <3>6 DEF Inv, Types, EndOK, EndInv, ReasonInv, Happened, TellsEnd,
         ExitForError
    <3> QED
      BY <3>2, <3>3, <3>4, <3>5, <3>6 DEF Inv, Types, EndOK
  <2>3. session' = "open" /\ told' = "error" => record'.exit # "failed"
    BY <1>1, <1>2, <1>3 DEF Inv, Types, FlowOK, SummaryOK, EndOK, PlaceInv, EndInv, ExitForError
  <2> QED
    BY <2>1, <2>2, <2>3 DEF RecordInv, RecordIsTrue
<1> QED
  BY <1>4, <1>5, <1>6, <1>7, <1>8, <1>9, <1>10 DEF Inv

LEMMA ClosesKeeps ==
    ASSUME Inv, Closes
    PROVE  Inv'
<1>1. Types'
  BY DEF Inv, Types, FlowOK, SummaryOK, EndOK, RoundsOK, Closes
<1>2. PlaceInv'
  BY DEF Inv, PlaceInv, Closes
<1>3. ReasonInv'
  BY DEF Inv, ReasonInv, Happened, Closes
<1>4. RoundInv'
  BY DEF RoundInv, Closes
<1>5. Sums'
  BY DEF Inv, Sums, Regenerated, RegenOf, Closes
<1>6. EndInv'
  BY DEF EndInv, Closes
<1>7. RecordInv'
  <2>1. UNCHANGED <<told, err, forced, record, attempts, first, final, text, regen, rounds,
                    stopped, expired, clientGone>>
    BY DEF Closes
  <2>2. record # NoRecord => TellsRound' /\ TellsEnd'
    BY <2>1 DEF Inv, RecordInv, RecordIsTrue, TellsRound, TellsEnd, ToolFailure, RegenOf
  <2> QED
    BY <2>1, <2>2 DEF Inv, RecordInv, RecordIsTrue, Closes
<1> QED
  BY <1>1, <1>2, <1>3, <1>4, <1>5, <1>6, <1>7 DEF Inv

LEMMA LeavesFirstKeeps ==
    ASSUME Inv, LeavesFirst
    PROVE  Inv'
<1>1. Types'
  BY DEF Inv, Types, FlowOK, SummaryOK, EndOK, RoundsOK, LeavesFirst
<1>2. PlaceInv'
  BY DEF Inv, PlaceInv, LeavesFirst
<1>3. ReasonInv'
  BY DEF Inv, ReasonInv, Happened, LeavesFirst
<1>4. RoundInv'
  BY DEF RoundInv, LeavesFirst
<1>5. Sums'
  BY DEF Inv, Sums, Regenerated, RegenOf, LeavesFirst
<1>6. EndInv'
  BY DEF EndInv, LeavesFirst
<1>7. RecordInv'
  BY DEF Inv, RecordInv, RecordIsTrue, TellsRound, TellsEnd, ToolFailure, RegenOf,
     LeavesFirst
<1> QED
  BY <1>1, <1>2, <1>3, <1>4, <1>5, <1>6, <1>7 DEF Inv

LEMMA LogsKeeps ==
    ASSUME Inv, Logs
    PROVE  Inv'
<1>1. PICK exit, regenerated :
          /\ record' = [exit |-> exit, kind |-> err, regen |-> regenerated]
          /\ regenerated = Regenerated
          /\ LET named == IF preset # "unset" THEN preset ELSE ExitForError(err)
             IN  exit = IF named = "completed" /\ incomplete THEN "incomplete" ELSE named
  BY DEF Logs, Write, Inv, PlaceInv
<1>2. /\ pc = "log" /\ pc' = "leave" /\ session = "none" /\ forced = "none"
      /\ told' = IF err = "none" THEN "completed" ELSE "error"
      /\ UNCHANGED <<mode, attempt, err, end, held, counted, session, forced, attempts,
                     first, final, checks, regen, text, incomplete, preset, rounds, stopped,
                     expired, clientGone>>
  BY DEF Logs, Inv, PlaceInv
<1>3. /\ exit # "none"
      /\ preset # "unset" => exit = preset
      /\ preset = "unset" /\ err = "none" => exit \in {"completed", "incomplete"}
      /\ preset = "unset" /\ err # "none" => exit = ExitForError(err)
  BY <1>1 DEF Inv, Types, FlowOK, SummaryOK, ExitForError
<1>4. Types'
  BY DEF Inv, Types, FlowOK, SummaryOK, EndOK, RoundsOK, Logs, Write
<1>5. PlaceInv'
  BY <1>1, <1>2, <1>3 DEF Inv, PlaceInv
<1>6. ReasonInv'
  BY DEF Inv, ReasonInv, Happened, Logs, Write
<1>7. RoundInv'
  BY DEF RoundInv, Logs, Write
<1>8. Sums'
  BY DEF Inv, Sums, Regenerated, RegenOf, Logs, Write
<1>9. EndInv'
  BY DEF EndInv, Logs, Write
<1>10. RecordInv'
  <2>1. TellsRound'
    <3>1. record'.exit = exit /\ record'.regen = RegenOf /\ record'.kind = err
      BY <1>1 DEF Inv, Sums
    <3>2. RegenOf' = RegenOf
      BY <1>2 DEF RegenOf
    <3>3. ToolFailure' <=> told' \in {"failed", "error"} /\ err = "invalid_tool_call"
      BY <1>2, <1>3, <3>1 DEF Inv, ReasonInv, ToolFailure,
         ExitForError
    <3> QED
      BY <1>2, <3>1, <3>2, <3>3 DEF Inv, Sums, TellsRound
  <2>2. TellsEnd'
    <3>1. record'.exit = exit
      BY <1>1
    <3>2. CASE preset # "unset"
      BY <1>2, <1>3, <3>1, <3>2 DEF Inv, Types, SummaryOK, ReasonInv, TellsEnd
    <3>3. CASE preset = "unset"
      BY <1>2, <1>3, <3>1, <3>3 DEF Inv, Types, FlowOK, ReasonInv, Happened, TellsEnd,
         ExitForError
    <3> QED
      BY <3>2, <3>3
  <2> QED
    BY <1>2, <2>1, <2>2 DEF RecordInv, RecordIsTrue
<1> QED
  BY <1>4, <1>5, <1>6, <1>7, <1>8, <1>9, <1>10 DEF Inv

LEMMA LeavesKeeps ==
    ASSUME Inv, Leaves
    PROVE  Inv'
<1>1. Types'
  BY DEF Inv, Types, FlowOK, SummaryOK, EndOK, RoundsOK, Leaves
<1>2. PlaceInv'
  BY DEF Inv, PlaceInv, Leaves
<1>3. ReasonInv'
  BY DEF Inv, ReasonInv, Happened, Leaves
<1>4. RoundInv'
  BY DEF RoundInv, Leaves
<1>5. Sums'
  BY DEF Inv, Sums, Regenerated, RegenOf, Leaves
<1>6. EndInv'
  BY DEF EndInv, Leaves
<1>7. RecordInv'
  BY DEF Inv, RecordInv, RecordIsTrue, TellsRound, TellsEnd, ToolFailure, RegenOf, Leaves
<1> QED
  BY <1>1, <1>2, <1>3, <1>4, <1>5, <1>6, <1>7 DEF Inv

LEMMA ForcesKeeps ==
    ASSUME Inv, Forces
    PROVE  Inv'
<1>1. Types'
  BY DEF Inv, Types, FlowOK, SummaryOK, EndOK, RoundsOK, Forces
<1>2. PlaceInv'
  BY DEF Inv, PlaceInv, Forces
<1>3. ReasonInv'
  BY DEF Inv, ReasonInv, Happened, Forces
<1>4. RoundInv'
  BY DEF Inv, RoundInv, Forces
<1>5. Sums'
  BY DEF Inv, Sums, Regenerated, RegenOf, Forces
<1>6. EndInv'
  BY DEF Inv, EndInv, Forces
<1>7. RecordInv'
  BY DEF Inv, RecordInv, RecordIsTrue, TellsRound, TellsEnd, ToolFailure, RegenOf, Forces
<1> QED
  BY <1>1, <1>2, <1>3, <1>4, <1>5, <1>6, <1>7 DEF Inv

LEMMA EnvironmentKeeps ==
    ASSUME Inv, Environment
    PROVE  Inv'
<1>1. Types'
  BY DEF Inv, Types, FlowOK, SummaryOK, EndOK, RoundsOK, Environment, PluginStops,
     DeadlinePasses, ClientLeaves
<1>2. PlaceInv'
  BY DEF Inv, PlaceInv, Environment, PluginStops, DeadlinePasses, ClientLeaves
<1>3. ReasonInv'
  BY DEF Inv, ReasonInv, Happened, Environment, PluginStops, DeadlinePasses, ClientLeaves
<1>4. RoundInv'
  BY DEF Inv, RoundInv, Environment, PluginStops, DeadlinePasses, ClientLeaves
<1>5. Sums'
  BY DEF Inv, Sums, Regenerated, RegenOf, Environment, PluginStops, DeadlinePasses,
     ClientLeaves
<1>6. EndInv'
  BY DEF Inv, EndInv, Environment, PluginStops, DeadlinePasses, ClientLeaves
<1>7. RecordInv'
  <2>1. /\ UNCHANGED <<told, err, forced, record, session, attempts,
                       first, final, text, regen, rounds>>
        /\ (stopped => stopped') /\ (expired => expired') /\ (clientGone => clientGone')
    BY DEF Environment, PluginStops, DeadlinePasses, ClientLeaves
  <2>2. record # NoRecord => TellsRound'
    BY <2>1 DEF Inv, RecordInv, RecordIsTrue, TellsRound, ToolFailure, RegenOf
  <2>3. record # NoRecord => TellsEnd'
    BY <2>1 DEF Inv, RecordInv, RecordIsTrue, TellsEnd
  <2> QED
    BY <2>1, <2>2, <2>3 DEF Inv, RecordInv, RecordIsTrue
<1> QED
  BY <1>1, <1>2, <1>3, <1>4, <1>5, <1>6, <1>7 DEF Inv

----------------------------------------------------------------------------
LEMMA Starts == Init => Inv
<1> SUFFICES ASSUME Init PROVE Inv
  OBVIOUS
<1>1. Types
  <2>1. FlowOK
    BY RelayAssumption DEF Init, FlowOK
  <2>2. SummaryOK
    <3>1. first \in Results /\ final \in Results /\ checks \in 0..2 /\ preset \in Presets
      BY DEF Init
    <3>2. regen \in BOOLEAN /\ text \in BOOLEAN /\ incomplete \in BOOLEAN
      BY DEF Init
    <3> QED
      BY <3>1, <3>2 DEF SummaryOK
  <2>3. RoundsOK
    <3>1. Init => rounds = <<>>
      BY DEF Init
    <3>2. <<>> \in Seq(Results) /\ Len(<<>>) = 0
      OBVIOUS
    <3> QED
      BY <3>1, <3>2 DEF RoundsOK
  <2>4. EndOK
    BY DEF Init, EndOK
  <2> QED
    BY <2>1, <2>2, <2>3, <2>4 DEF Types
<1>2. PlaceInv /\ ReasonInv /\ EndInv /\ RecordInv
  BY DEF Init, PlaceInv, ReasonInv, Happened, EndInv, RecordInv, RecordIsTrue
<1>3. RoundInv /\ Sums
  BY DEF Init, RoundInv, Sums, Regenerated, RegenOf
<1> QED
  BY <1>1, <1>2, <1>3 DEF Inv

LEMMA StepKeeps == Inv /\ [Next]_vars => Inv'
<1> SUFFICES ASSUME Inv, [Next]_vars PROVE Inv'
  OBVIOUS
<1>1. CASE Run
  BY <1>1, BeginKeeps, PreparesKeeps, IssuesKeeps, ValidatesKeeps, RetriesKeeps, FinishesKeeps,
     FailsKeeps, WritesKeeps, ClosesKeeps, LeavesFirstKeeps, LogsKeeps, LeavesKeeps DEF Run
<1>2. CASE Abort
  <2>1. PICK e \in Aborted : TripFails(e) \/ ReadFails(e)
    BY <1>2 DEF Abort
  <2>2. e \in Aborts /\ Happened(e)
    BY DEF Aborted, Happened
  <2> QED
    BY <2>1, <2>2, TripFailsKeeps, ReadFailsKeeps
<1>3. CASE Upstream
  <2>1. CASE PrepareFails \/ Connects \/ Delivers \/ Parses
    BY <2>1, PrepareFailsKeeps, ConnectsKeeps, DeliversKeeps, ParsesKeeps
  <2>2. CASE \E e \in Upstreams \cup {"invalid_upstream_response"} : TripFails(e) \/ ReadFails(e)
    <3>1. PICK e \in Upstreams \cup {"invalid_upstream_response"} : TripFails(e) \/ ReadFails(e)
      BY <2>2
    <3> QED
      BY <3>1, TripFailsKeeps, ReadFailsKeeps
  <2> QED
    BY <1>3, <2>1, <2>2 DEF Upstream
<1>4. CASE GraceOver \/ Forces \/ Environment
  BY <1>4, GraceOverKeeps, ForcesKeeps, EnvironmentKeeps
<1>5. CASE UNCHANGED vars
  <2>1. Types'
    BY <1>5 DEF vars, Inv, Types, FlowOK, SummaryOK, EndOK, RoundsOK
  <2>2. PlaceInv' /\ ReasonInv' /\ EndInv'
    BY <1>5 DEF vars, Inv, PlaceInv, ReasonInv, Happened, EndInv
  <2>3. RoundInv' /\ Sums'
    BY <1>5 DEF vars, Inv, RoundInv, Sums, Regenerated, RegenOf
  <2>4. RecordInv'
    <3>1. RecordIsTrue'
      BY <1>5 DEF vars, Inv, RecordInv, RecordIsTrue, TellsRound, TellsEnd, ToolFailure, RegenOf
    <3> QED
      BY <1>5, <3>1 DEF vars, Inv, RecordInv
  <2> QED
    BY <2>1, <2>2, <2>3, <2>4 DEF Inv
<1> QED
  BY <1>1, <1>2, <1>3, <1>4, <1>5 DEF Next

\* An execution that is over has left its generation, has released what its
\* attempts held, has closed its stream and has written its record
\* (service.go:285-319,452-635).
THEOREM NothingStaysHeld == Spec => []NothingHeld
<1>1. Inv => NothingHeld
  BY DEF Inv, PlaceInv, NothingHeld
<1> QED
  BY <1>1, Starts, StepKeeps, PTL DEF Spec

\* Of every execution the record tells the attempts' verdicts, the outcome of
\* the regeneration and how the request ended as they were
\* (relay_summary.go:107-128,226-258).
THEOREM RecordTellsTheTruth == Spec => []RecordIsTrue
<1>1. Inv => RecordIsTrue
  BY DEF Inv, RecordInv
<1> QED
  BY <1>1, Starts, StepKeeps, PTL DEF Spec

----------------------------------------------------------------------------
(* The pure part: which responses are handed over, and what the model was *)
(* told of.                                                                *)

\* A set of numbers has a smallest one.
LEMMA Smallest ==
    ASSUME NEW S \in SUBSET Nat, S # {}
    PROVE  \E m \in S : \A k \in S : m <= k
<1>1. PICK m \in S : \A k \in S : ~(<<k, m>> \in OpToRel(<, Nat))
  BY NatLessThanWellFounded, WFMin
<1>2. ASSUME NEW k \in S PROVE m <= k
  <2>1. ~(k < m)
    BY <1>1 DEF OpToRel
  <2>2. QED
    BY <2>1
<1>3. QED
  BY <1>2

\* The tools that count have one key each.
LEMMA OneOfAKey ==
    ASSUME NEW s \in Sources, NEW t \in clientToolSpecs(s), NEW u \in clientToolSpecs(s),
           clientToolCallName(t) = clientToolCallName(u)
    PROVE  t = u
<1> DEFINE Named(i) == clientToolCallName(s.tools[i])
<1>1. PICK i \in DOMAIN s.tools :
         /\ t = s.tools[i]
         /\ \A k \in DOMAIN s.tools : Named(k) = Named(i) =>
                IF s.topLevel THEN k <= i ELSE SameSpec(s.tools[k], s.tools[i])
  BY DEF clientToolSpecs
<1>2. PICK j \in DOMAIN s.tools :
         /\ u = s.tools[j]
         /\ \A k \in DOMAIN s.tools : Named(k) = Named(j) =>
                IF s.topLevel THEN k <= j ELSE SameSpec(s.tools[k], s.tools[j])
  BY DEF clientToolSpecs
<1>3. Named(i) = Named(j)
  BY <1>1, <1>2
<1>4. s.tools \in Seq(ToolSpec)
  BY RelayAssumption DEF RelayAssumption
<1>5. DOMAIN s.tools = 1 .. Len(s.tools) /\ Len(s.tools) \in Nat
  BY <1>4, LenProperties
<1>6. t \in ToolSpec /\ u \in ToolSpec
  BY <1>1, <1>2, <1>4, <1>5, ElementOfSeq
<1>7. CASE s.topLevel
  BY <1>1, <1>2, <1>3, <1>5, <1>7
<1>8. CASE ~s.topLevel
  <2>1. t.name = u.name /\ t.type = u.type /\ t.def = u.def
    BY <1>1, <1>2, <1>3, <1>8 DEF SameSpec
  <2>2. t.ns \in Seq(STRING) /\ u.ns \in Seq(STRING) /\ t.name \in Seq(STRING)
    BY <1>6 DEF ToolSpec, Key
  <2>3. t.ns \o t.name = u.ns \o t.name
    BY <2>1 DEF clientToolCallName
  <2>4. t.ns = u.ns
    BY <2>2, <2>3, ConcatSimplifications
  <2>5. QED
    BY <1>6, <2>1, <2>4 DEF ToolSpec
<1>9. QED
  BY <1>7, <1>8

LEMMA Callable ==
    ASSUME NEW s \in Sources
    PROVE  /\ callableClientToolSpecs(s) \subseteq clientToolSpecs(s)
           /\ clientToolSpecs(s) \subseteq ToolSpec
           /\ \A t \in clientToolSpecs(s) : \E i \in DOMAIN s.tools : t = s.tools[i]
<1>1. s.tools \in Seq(ToolSpec)
  BY RelayAssumption DEF RelayAssumption
<1>2. \A i \in DOMAIN s.tools : s.tools[i] \in ToolSpec
  BY <1>1, LenProperties, ElementOfSeq
<1>3. QED
  BY <1>2 DEF callableClientToolSpecs, clientToolSpecs

LEMMA Rejection == ASSUME NEW r PROVE Extracted(r, NoCall, "", "", "", FALSE).reason = r
BY DEF Extracted

LEMMA NamedAfter ==
    ASSUME NEW c, NEW t, c.ns = t.ns, c.name = t.name
    PROVE  clientToolCallName(c) = clientToolCallName(t)
BY DEF clientToolCallName

\* A call of a tool as it is handed to the client.
CallOf(c, t) ==
    /\ c \in Item /\ c.ns = t.ns /\ c.name = t.name /\ c.id # ""
    /\ clientToolCallName(t) \notin TransportNames
    /\ IF t.type = "custom" THEN c.type = "custom_tool_call" /\ c.payload \in Texts
       ELSE /\ c.type = "function_call" /\ c.payload \in {"json", "bad", "envelope"}
            /\ schemaMatches(c.payload, t)
Offered(callable, c) == \E t \in callable : CallOf(c, t)

\* A native call is taken exactly if it is sound, and under its id and its tool.
LEMMA Judgement ==
    ASSUME NEW s \in Sources, NEW n \in Native, NEW declared
    PROVE  LET callable == callableClientToolSpecs(s)
               x == extractNativeClientToolCallIn(n, callable, declared)
           IN  /\ x.reason = "" <=> Sound(callable, n)
               /\ x.reason = "" =>
                     /\ x.call.id = n.id /\ clientToolCallName(x.call) = Tool(n)
                     /\ Offered(callable, x.call)
<1> DEFINE callable == callableClientToolSpecs(s)
           x == extractNativeClientToolCallIn(n, callable, declared)
           relay == transportEnvelope(n)
           Named == {t \in callable : clientToolCallName(t) = relay.tool}
<1> HIDE DEF x, callable
<1> SUFFICES /\ x.reason = "" <=> Sound(callable, n)
             /\ x.reason = "" =>
                   /\ x.call.id = n.id /\ clientToolCallName(x.call) = Tool(n)
                   /\ Offered(callable, x.call)
  BY DEF x, callable
<1>1. /\ relay.reason = "" =>
            /\ n.outer /\ n.parsed /\ Tool(n) \notin TransportNames /\ Tool(n) # <<>>
            /\ relay.tool = Tool(n) /\ relay.payload = Carries(n)
            /\ n.code.text \in Texts
            /\ n.refs.kind = "one" \/ (n.refs.kind \in {"absent", "empty"} /\ n.code.text = "envelope")
      /\ /\ n.outer /\ n.parsed /\ Tool(n) \notin TransportNames /\ Tool(n) # <<>>
         /\ n.code.text \in Texts
         => relay.reason = ""
  BY DEF transportEnvelope, Route, NoRoute, Nameless, Tool, Carries, Texts, TransportNames, Native
<1>2. \A t \in callable : clientToolCallName(t) # <<>>
  <2>1. \A t \in callable : t.ns \in Seq(STRING) /\ t.name \in Seq(STRING) /\ t.name # <<>>
    BY Callable DEF ToolSpec, Key, callable
  <2>2. QED
    BY <2>1, ConcatSimplifications DEF clientToolCallName
<1>3. Named # {} => \E t \in Named : Named = {t} /\ t \in callable /\ t = CHOOSE u \in Named : TRUE
  <2>1. \A t, u \in Named : t = u
    BY Callable, OneOfAKey DEF callable
  <2>2. QED
    BY <2>1
<1>4. Sound(callable, n) =>
          /\ n.outer /\ n.parsed /\ n.id # "" /\ Tool(n) \notin TransportNames
          /\ Tool(n) # <<>> /\ n.code.text \in Texts
  <2>1. ASSUME NEW t \in callable, Fits(n, t) PROVE Tool(n) # <<>> /\ n.code.text \in Texts
    <3>1. Tool(n) # <<>>
      BY <1>2, <2>1 DEF Fits
    <3>2. Carries(n) \in Texts \cup {"object"}
      BY <2>1 DEF Fits, Texts
    <3>3. QED
      BY <3>1, <3>2 DEF Tool, Carries, Texts, Native
  <2>2. QED
    BY <2>1 DEF Sound
<1>5. CASE relay.reason # ""
  <2>1. x.reason # ""
    BY <1>5 DEF extractNativeClientToolCallIn, Extracted, x
  <2>2. QED
    BY <1>1, <1>4, <1>5, <2>1
<1>6. CASE relay.reason = "" /\ Named = {}
  <2>1. x.reason # ""
    BY <1>6 DEF extractNativeClientToolCallIn, Extracted, x
  <2>2. ~Sound(callable, n)
    BY <1>1, <1>6 DEF Sound, Fits
  <2>3. QED
    BY <2>1, <2>2
<1>7. CASE relay.reason = "" /\ Named # {}
  <2>1. PICK t \in Named : Named = {t} /\ t \in callable /\ t = CHOOSE u \in Named : TRUE
    BY <1>3, <1>7
  <2>2. t \in callable /\ clientToolCallName(t) = Tool(n)
    BY <1>1, <1>7, <2>1
  <2> DEFINE decoded == decodeFunctionArguments(relay.payload)
  <2>3. x = IF n.id = "" THEN Extracted("missing_call_id", NoCall, "", "", "", FALSE)
            ELSE IF t.type = "custom"
            THEN IF relay.payload \notin Texts
                 THEN Extracted("custom_args_not_string", NoCall, "", "", "", FALSE)
                 ELSE Extracted("", t, "custom_tool_call", n.id, relay.payload, relay.legacy)
            ELSE IF decoded = "none" THEN Extracted("undecodable", NoCall, "", "", "", FALSE)
            ELSE IF ~schemaMatches(decoded, t)
            THEN Extracted("arguments_schema_mismatch", NoCall, "", "", "", FALSE)
            ELSE Extracted("", t, "function_call", n.id, decoded, relay.legacy)
    BY <1>7, <2>1 DEF extractNativeClientToolCallIn, x
  <2>4. Sound(callable, n) <=> n.id # "" /\ Fits(n, t)
    <3>1. \A u \in callable : Fits(n, u) => u = t
      BY <1>1, <1>7, <2>1 DEF Fits
    <3>2. QED
      BY <1>1, <1>4, <1>7, <2>2, <3>1 DEF Sound
  <2>5. Fits(n, t) <=> IF t.type = "custom" THEN relay.payload \in Texts
                       ELSE decoded # "none" /\ schemaMatches(decoded, t)
    BY <1>1, <1>7, <2>2 DEF Fits, decodeFunctionArguments, schemaMatches
  <2> HIDE DEF decoded, relay, Named
  <2>6. CASE n.id = "" \/ ~Fits(n, t)
    <3>1. x.reason # ""
      BY <2>3, <2>5, <2>6, Rejection
    <3>2. QED
      BY <2>4, <2>6, <3>1
  <2>7. CASE n.id # "" /\ Fits(n, t)
    <3> DEFINE custom == t.type = "custom"
               type == IF custom THEN "custom_tool_call" ELSE "function_call"
               payload == IF custom THEN relay.payload ELSE decoded
    <3>1. x.reason = ""
      BY <2>3, <2>5, <2>7 DEF Extracted
    <3>2. x.call = [type |-> type, ns |-> t.ns, name |-> t.name, id |-> n.id,
                    payload |-> payload]
      BY <2>3, <2>5, <2>7 DEF Extracted
    <3>3. IF t.type = "custom" THEN type = "custom_tool_call" /\ payload \in Texts
          ELSE /\ type = "function_call" /\ payload \in {"json", "bad", "envelope"}
               /\ schemaMatches(payload, t)
      BY <2>5, <2>7 DEF decoded, decodeFunctionArguments
    <3>4. t \in ToolSpec
      BY <2>2, Callable DEF callable
    <3>5. t.ns \in Key /\ t.name \in Key /\ n.id \in STRING /\ n.id # ""
          /\ clientToolCallName(t) \notin TransportNames
      BY <1>1, <1>7, <2>2, <2>7, <3>4 DEF ToolSpec, Native
    <3> HIDE DEF custom, type, payload
    <3>6. type \in ItemTypes /\ payload \in Payloads
      BY <3>3 DEF Texts, ItemTypes, CallTypes, Payloads
    <3>7. x.call.id = n.id /\ x.call.ns = t.ns /\ x.call.name = t.name
      BY <3>2
    <3>8. x.call.type = type /\ x.call.payload = payload
      BY <3>2
    <3>9. clientToolCallName(x.call) = clientToolCallName(t)
      BY <3>7, NamedAfter
    <3>10. x.call \in Item
      <4>1. [type |-> type, ns |-> t.ns, name |-> t.name, id |-> n.id, payload |-> payload] \in Item
        BY <3>5, <3>6 DEF Item
      <4>2. QED
        BY <3>2, <4>1
    <3>11. CallOf(x.call, t)
      BY <3>3, <3>5, <3>7, <3>8, <3>10 DEF CallOf
    <3>12. QED
      BY <2>2, <2>4, <2>7, <3>1, <3>7, <3>9, <3>11 DEF Offered
  <2>8. QED
    BY <2>6, <2>7
<1>8. QED
  BY <1>5, <1>6, <1>7

\* A response is taken exactly if each of its calls is, their ids differ, and
\* their number is what the request allows.
LEMMA Transformation ==
    ASSUME NEW s \in Sources, NEW a \in Seq(Native)
    PROVE  LET callable == callableClientToolSpecs(s)
               b == transformResponseBodyStats(s, a)
           IN  /\ b.reason = "" <=>
                     /\ \A i \in DOMAIN a : Sound(callable, a[i])
                     /\ \A i, j \in DOMAIN a : a[i].id = a[j].id => i = j
                     /\ ~s.parallel => Len(a) <= 1
                     /\ clientToolCallRequired(s) => a # <<>>
               /\ b.reason = "" =>
                     /\ Len(b.calls) = Len(a)
                     /\ \A i \in DOMAIN a :
                           /\ b.calls[i].id = a[i].id
                           /\ clientToolCallName(b.calls[i]) = Tool(a[i])
                           /\ Offered(callable, b.calls[i])
               /\ b.reason # "" => b.calls = <<>>
               /\ b.calls \in Seq(Item)
<1> DEFINE callable == callableClientToolSpecs(s)
           b == transformResponseBodyStats(s, a)
<1> SUFFICES /\ b.reason = "" <=>
                     /\ \A i \in DOMAIN a : Sound(callable, a[i])
                     /\ \A i, j \in DOMAIN a : a[i].id = a[j].id => i = j
                     /\ ~s.parallel => Len(a) <= 1
                     /\ clientToolCallRequired(s) => a # <<>>
             /\ b.reason = "" =>
                     /\ Len(b.calls) = Len(a)
                     /\ \A i \in DOMAIN a : b.calls[i].id = a[i].id
                     /\ \A i \in DOMAIN a : clientToolCallName(b.calls[i]) = Tool(a[i])
                     /\ \A i \in DOMAIN a : Offered(callable, b.calls[i])
             /\ b.reason # "" => b.calls = <<>>
             /\ b.calls \in Seq(Item)
  OBVIOUS
<1> HIDE DEF callable, b
<1> DEFINE x == [i \in DOMAIN a |->
                   extractNativeClientToolCallIn(a[i], callable, clientToolSpecs(s))]
           Faulty == {i \in DOMAIN a : Fault(x, i) # ""}
           t == transformCalls(callable, clientToolSpecs(s), a)
<1>1. DOMAIN a = 1 .. Len(a) /\ Len(a) \in Nat
  BY LenProperties
<1>2. ASSUME NEW i \in DOMAIN a
      PROVE  /\ x[i].reason = "" <=> Sound(callable, a[i])
             /\ x[i].reason = "" =>
                   /\ x[i].call.id = a[i].id /\ clientToolCallName(x[i].call) = Tool(a[i])
                   /\ Offered(callable, x[i].call)
  <2>1. a[i] \in Native
    BY <1>1, ElementOfSeq
  <2> DEFINE e == extractNativeClientToolCallIn(a[i], callable, clientToolSpecs(s))
  <2>2. /\ e.reason = "" <=> Sound(callable, a[i])
        /\ e.reason = "" =>
              /\ e.call.id = a[i].id /\ clientToolCallName(e.call) = Tool(a[i])
              /\ Offered(callable, e.call)
    BY <2>1, Judgement DEF callable
  <2>3. x[i] = e
    OBVIOUS
  <2> HIDE DEF e, x
  <2>4. QED
    BY <2>2, <2>3
<1>3. IF Faulty = {} THEN t.reason = "" /\ t.calls = [i \in DOMAIN a |-> x[i].call]
      ELSE t.reason # "" /\ t.calls = <<>>
  <2>1. CASE Faulty = {}
    BY <2>1 DEF transformCalls
  <2>2. CASE Faulty # {}
    <3>1. Faulty \subseteq Nat
      <4>1. Faulty \subseteq DOMAIN a
        OBVIOUS
      <4> HIDE DEF Faulty
      <4>2. QED
        BY <1>1, <4>1
    <3>2. Min(Faulty) \in Faulty
      BY <2>2, <3>1, Smallest DEF Min
    <3>3. t = [reason |-> Fault(x, Min(Faulty)), calls |-> <<>>, legacy |-> 0]
      BY <2>2 DEF transformCalls, Batch
    <3>4. Fault(x, Min(Faulty)) # ""
      BY <3>2
    <3> HIDE DEF x, t, Faulty
    <3>5. t.reason = Fault(x, Min(Faulty)) /\ t.calls = <<>>
      BY <3>3
    <3>6. QED
      BY <2>2, <3>4, <3>5
  <2>3. QED
    BY <2>1, <2>2
<1> HIDE DEF x, t
<1>4. Faulty = {} <=> /\ \A i \in DOMAIN a : Sound(callable, a[i])
                      /\ \A i, j \in DOMAIN a : a[i].id = a[j].id => i = j
  <2>1. ASSUME Faulty = {}
        PROVE  /\ \A i \in DOMAIN a : Sound(callable, a[i])
               /\ \A i, j \in DOMAIN a : a[i].id = a[j].id => i = j
    <3>1. \A i \in DOMAIN a : x[i].reason = "" /\ ~Repeats(x, i)
      BY <2>1 DEF Fault
    <3>2. \A i \in DOMAIN a : Sound(callable, a[i]) /\ x[i].call.id = a[i].id
      BY <1>2, <3>1
    <3>3. ASSUME NEW i \in DOMAIN a, NEW j \in DOMAIN a, j < i PROVE a[i].id # a[j].id
      <4>1. j \in 1 .. (i - 1)
        BY <1>1, <3>3
      <4>2. x[j].call.id # x[i].call.id
        BY <3>1, <4>1 DEF Repeats
      <4>3. QED
        BY <3>2, <4>2
    <3>4. ASSUME NEW i \in DOMAIN a, NEW j \in DOMAIN a, a[i].id = a[j].id PROVE i = j
      <4>1. i < j \/ j < i \/ i = j
        BY <1>1
      <4>2. QED
        BY <3>3, <3>4, <4>1
    <3>5. QED
      BY <3>2, <3>4
  <2>2. ASSUME \A i \in DOMAIN a : Sound(callable, a[i]),
               \A i, j \in DOMAIN a : a[i].id = a[j].id => i = j
        PROVE  Faulty = {}
    <3>1. \A i \in DOMAIN a : x[i].reason = "" /\ x[i].call.id = a[i].id
      BY <1>2, <2>2
    <3>2. ASSUME NEW i \in DOMAIN a PROVE ~Repeats(x, i)
      <4>1. ASSUME NEW j \in 1 .. (i - 1) PROVE x[j].call.id # x[i].call.id
        <5>1. j \in DOMAIN a /\ j # i
          BY <1>1
        <5>2. QED
          BY <2>2, <3>1, <5>1
      <4>2. QED
        BY <4>1 DEF Repeats
    <3>3. QED
      BY <3>1, <3>2 DEF Fault
  <2>3. QED
    BY <2>1, <2>2
<1>5. Faulty = {} => \A i \in DOMAIN a : x[i].reason = ""
  BY DEF Fault
<1> HIDE DEF Faulty
<1>6. b = Judged(s, a, t)
  BY DEF transformResponseBodyStats, t, b, callable
<1>7. s.parallel \in BOOLEAN
  BY RelayAssumption DEF RelayAssumption
<1> DEFINE Many == ~s.parallel => Len(a) <= 1
           Some == clientToolCallRequired(s) => a # <<>>
<1>8. CASE Faulty # {}
  <2>1. t.reason # "" /\ t.calls = <<>>
    BY <1>3, <1>8
  <2>2. b = t
    BY <1>6, <2>1 DEF Judged
  <2>3. b.reason # "" /\ b.calls = <<>>
    BY <2>1, <2>2
  <2>4. b.calls \in Seq(Item)
    BY <2>3, EmptySeq
  <2>5. QED
    BY <1>4, <1>8, <2>3, <2>4
<1>9. CASE Faulty = {} /\ ~(Some /\ Many)
  <2>1. (a = <<>> /\ clientToolCallRequired(s)) \/ (Len(a) > 1 /\ ~s.parallel)
    BY <1>1, <1>7, <1>9
  <2>2. \E r : r # "" /\ b = [Batch EXCEPT !.reason = r]
    BY <1>3, <1>6, <1>9, <2>1 DEF Judged
  <2>3. b.reason # "" /\ b.calls = <<>>
    BY <2>2 DEF Batch
  <2>4. b.calls \in Seq(Item)
    BY <2>3, EmptySeq
  <2>5. QED
    BY <1>9, <2>3, <2>4
<1>10. CASE Faulty = {} /\ Some /\ Many
  <2>1. ~(a = <<>> /\ clientToolCallRequired(s)) /\ ~(Len(a) > 1 /\ ~s.parallel)
    BY <1>1, <1>7, <1>10
  <2>2. b = t
    BY <1>3, <1>6, <1>10, <2>1 DEF Judged
  <2>3. b.reason = "" /\ b.calls = [i \in DOMAIN a |-> x[i].call]
    BY <1>3, <1>10, <2>2
  <2>4. ASSUME NEW i \in DOMAIN a
        PROVE  /\ b.calls[i].id = a[i].id /\ clientToolCallName(b.calls[i]) = Tool(a[i])
               /\ Offered(callable, b.calls[i])
    <3>1. b.calls[i] = x[i].call
      BY <2>3
    <3>2. QED
      BY <1>2, <1>5, <1>10, <3>1
  <2>5. Len(b.calls) = Len(a) /\ b.calls \in Seq(Item)
    <3>1. ASSUME NEW i \in 1 .. Len(a) PROVE x[i].call \in Item
      <4>1. b.calls[i] \in Item
        BY <1>1, <2>4 DEF Offered, CallOf
      <4>2. b.calls[i] = x[i].call
        BY <1>1, <2>3
      <4>3. QED
        BY <4>1, <4>2
    <3> DEFINE calls == [i \in 1 .. Len(a) |-> x[i].call]
    <3>2. calls \in [1 .. Len(a) -> Item] /\ DOMAIN calls = 1 .. Len(a)
      BY <3>1
    <3>3. b.calls = calls
      BY <1>1, <2>3
    <3> HIDE DEF calls
    <3>4. calls \in Seq(Item)
      BY <1>1, <3>2, SeqDef
    <3>5. QED
      BY <1>1, <3>2, <3>3, <3>4, LenProperties
  <2>6. QED
    BY <1>4, <1>10, <2>3, <2>4, <2>5
<1>11. QED
  BY <1>8, <1>9, <1>10

\* Of a tool that counts, exactly one place is listed for the model.
LEMMA Listing ==
    ASSUME NEW s \in Sources, NEW t \in callableClientToolSpecs(s)
    PROVE  \E i \in Advertised(s) :
              /\ SameSpec(t, s.tools[i])
              /\ \A j \in Advertised(s) :
                    clientToolCallName(s.tools[j]) = clientToolCallName(t) => j = i
<1> DEFINE callable == callableClientToolSpecs(s)
           Named(i) == clientToolCallName(s.tools[i])
           Listed(i) == \E u \in callable :
                           clientToolCallName(u) = Named(i) /\ SameSpec(u, s.tools[i])
           Places == {i \in DOMAIN s.tools : Listed(i) /\ Named(i) = clientToolCallName(t)}
<1>1. DOMAIN s.tools \subseteq Nat /\ \A i \in DOMAIN s.tools : 1 .. (i - 1) \subseteq DOMAIN s.tools
  <2>1. s.tools \in Seq(ToolSpec)
    BY RelayAssumption DEF RelayAssumption
  <2>2. DOMAIN s.tools = 1 .. Len(s.tools) /\ Len(s.tools) \in Nat
    BY <2>1, LenProperties
  <2>3. QED
    BY <2>2
<1>2. \A i \in DOMAIN s.tools :
         i \in Advertised(s) <=> Listed(i) /\ \A j \in 1 .. (i - 1) : Listed(j) => Named(j) # Named(i)
  BY DEF Advertised
<1>3. Advertised(s) \subseteq DOMAIN s.tools
  BY DEF Advertised
<1>4. PICK m \in Places : \A k \in Places : m <= k
  <2>1. PICK k \in DOMAIN s.tools : t = s.tools[k]
    BY Callable
  <2>2. k \in Places
    BY <2>1 DEF SameSpec
  <2>3. Places \subseteq Nat
    BY <1>1
  <2> HIDE DEF Places
  <2>4. QED
    BY <2>2, <2>3, Smallest
<1>5. SameSpec(t, s.tools[m])
  <2>1. PICK u \in callable : clientToolCallName(u) = Named(m) /\ SameSpec(u, s.tools[m])
    BY <1>4
  <2>2. clientToolCallName(u) = clientToolCallName(t)
    BY <1>4, <2>1
  <2>3. u = t
    BY <2>2, Callable, OneOfAKey
  <2>4. QED
    BY <2>1, <2>3
<1>6. m \in DOMAIN s.tools /\ Listed(m) /\ Named(m) = clientToolCallName(t) /\ m \in Nat
  BY <1>1, <1>4
<1>7. \A k \in DOMAIN s.tools : Listed(k) /\ Named(k) = clientToolCallName(t) => m <= k
  BY <1>4
<1> HIDE DEF Listed, Named, Places
<1>8. m \in Advertised(s)
  <2>1. ASSUME NEW j \in 1 .. (m - 1), Listed(j) PROVE Named(j) # Named(m)
    <3>1. j \in DOMAIN s.tools /\ ~(m <= j)
      BY <1>1, <1>6
    <3>2. QED
      BY <1>6, <1>7, <2>1, <3>1
  <2>2. QED
    BY <1>2, <1>6, <2>1
<1>9. ASSUME NEW j \in Advertised(s), Named(j) = clientToolCallName(t) PROVE j = m
  <2>1. j \in DOMAIN s.tools /\ j \in Nat /\ Listed(j)
    BY <1>1, <1>2, <1>3
  <2>2. m <= j
    BY <1>7, <1>9, <2>1
  <2>3. ~(m \in 1 .. (j - 1))
    BY <1>2, <1>6, <1>9, <2>1
  <2>4. m >= 1
    BY <1>6, RelayAssumption, LenProperties DEF RelayAssumption
  <2>5. QED
    BY <1>6, <2>1, <2>2, <2>3, <2>4
<1>10. QED
  BY <1>5, <1>8, <1>9 DEF Named

\* What is checked is a request the client may send and a response that may come.
DataInv == source \in Sources /\ (pc = "validating" => answer \in Answers)

LEMMA DataKept == Spec => []DataInv
<1>1. Init => DataInv
  BY DEF Init, DataInv
<1>2. ASSUME DataInv, [Next]_vars PROVE DataInv'
  <2>1. source' = source
    BY <1>2 DEF Next, vars, place, form, resources, summary, environment, Run, Abort, Upstream,
       Begin, PrepareFails, Prepares, Issues, Validates, Retries, Finishes, Fails, Writes, Closes,
       LeavesFirst, Logs, Leaves, TripFails, ReadFails, Connects, Delivers, Parses, GraceOver,
       Forces, Environment, Goto, AnswersError, FailsWith, Ends
  <2>2. pc' = "validating" => answer' \in Answers
    BY <1>2 DEF DataInv, Next, vars, place, form, resources, summary, environment, Run, Abort, Upstream,
       Begin, PrepareFails, Prepares, Issues, Validates, Retries, Finishes, Fails, Writes, Closes,
       LeavesFirst, Logs, Leaves, TripFails, ReadFails, Connects, Delivers, Parses, GraceOver,
       Forces, Environment, Goto, AnswersError, FailsWith, Ends
  <2>3. QED
    BY <1>2, <2>1, <2>2 DEF DataInv
<1>3. QED
  BY <1>1, <1>2, PTL DEF Spec

\* Whatever the client offers and the upstream answers, the calls of a response
\* are handed over all or not at all, exactly if each is sound and all together
\* are what the request allows, and the model was told of every tool that
\* counts, once (protocol.go:153-185,865-977).
THEOREM BatchesAreWhole == Spec => []BatchAllOrNothing
<1>1. ASSUME NEW s \in Sources, NEW a \in Answers
      PROVE  AllOrNothing(s, a, transformResponseBodyStats(s, a), callableClientToolSpecs(s),
                          Advertised(s))
  <2> DEFINE b == transformResponseBodyStats(s, a)
             callable == callableClientToolSpecs(s)
  <2>1. a \in Seq(Native)
    BY RelayAssumption DEF RelayAssumption
  <2>2. /\ b.reason = "" <=>
              /\ \A i \in DOMAIN a : Sound(callable, a[i])
              /\ \A i, j \in DOMAIN a : a[i].id = a[j].id => i = j
              /\ ~s.parallel => Len(a) <= 1
              /\ clientToolCallRequired(s) => a # <<>>
        /\ b.reason = "" =>
              /\ Len(b.calls) = Len(a)
              /\ \A i \in DOMAIN a :
                    /\ b.calls[i].id = a[i].id
                    /\ clientToolCallName(b.calls[i]) = Tool(a[i])
        /\ b.reason # "" => b.calls = <<>>
    BY <2>1, Transformation
  <2>3. \A t \in callable : \E i \in Advertised(s) :
              /\ SameSpec(t, s.tools[i])
              /\ \A j \in Advertised(s) :
                    clientToolCallName(s.tools[j]) = clientToolCallName(t) => j = i
    BY Listing
  <2> HIDE DEF b, callable
  <2>4. AllOrNothing(s, a, b, callable, Advertised(s))
    BY <2>2, <2>3 DEF AllOrNothing
  <2>5. QED
    BY <2>4 DEF b, callable
<1>2. ASSUME NEW s \in Sources, NEW a \in Answers PROVE Checked[s][a].all
  BY <1>1 DEF Checked, Transformed
<1>3. DataInv => BatchAllOrNothing
  BY <1>2 DEF DataInv, BatchAllOrNothing
<1>4. QED
  BY <1>3, DataKept, PTL

----------------------------------------------------------------------------
\* What becomes of a history.

\* What is wrong with some number is wrong with a smallest one: a translation of
\* the first items exists, and extends to the next.
LEMMA TranslatedRecurs ==
    ASSUME NEW items \in Seq(Item)
    PROVE  /\ Translated(items)[0] = NoHistory
           /\ \A n \in 1 .. Len(items) :
                 Translated(items)[n] = Translates(Translated(items)[n - 1], items[n])
<1> DEFINE Is(f, n) == f = [i \in 0 .. n |-> IF i = 0 THEN NoHistory
                                             ELSE Translates(f[i - 1], items[i])]
           Without == {n \in Nat : \A f : ~Is(f, n)}
<1>1. Without = {}
  <2> SUFFICES ASSUME Without # {} PROVE FALSE
    OBVIOUS
  <2>1. PICK n \in Without : \A k \in Without : n <= k
    <3> HIDE DEF Is
    <3>1. QED
      BY Smallest
  <2>2. n # 0
    <3>1. Is([i \in 0 .. 0 |-> NoHistory], 0)
      OBVIOUS
    <3>2. 0 \notin Without
      BY <3>1
    <3>3. QED
      BY <3>2, <2>1
  <2>3. n - 1 \in Nat /\ n - 1 \notin Without
    <3>1. n \in Nat /\ n # 0
      BY <2>1, <2>2
    <3> HIDE DEF Without
    <3>2. QED
      BY <2>1, <3>1
  <2>4. PICK g : Is(g, n - 1)
    BY <2>3
  <2> DEFINE f == [i \in 0 .. n |-> IF i = n THEN Translates(g[n - 1], items[n]) ELSE g[i]]
  <2>5. \A i \in 0 .. (n - 1) : g[i] = IF i = 0 THEN NoHistory ELSE Translates(g[i - 1], items[i])
    BY <2>4
  <2>6. \A i \in 0 .. n : f[i] = IF i = n THEN Translates(g[n - 1], items[n]) ELSE g[i]
    OBVIOUS
  <2> HIDE DEF f
  <2>7. ASSUME NEW i \in 0 .. n
        PROVE  f[i] = IF i = 0 THEN NoHistory ELSE Translates(f[i - 1], items[i])
    <3>1. CASE i = n
      <4>1. f[i - 1] = g[n - 1]
        BY <2>2, <2>3, <2>6, <3>1
      <4>2. QED
        BY <2>2, <2>6, <3>1, <4>1
    <3>2. CASE i # n
      <4>1. i \in 0 .. (n - 1) /\ f[i] = g[i]
        BY <2>6, <3>2
      <4>2. i # 0 => f[i - 1] = g[i - 1]
        BY <2>6, <4>1
      <4>3. QED
        BY <2>5, <4>1, <4>2
    <3>3. QED
      BY <3>1, <3>2
  <2>8. Is(f, n)
    <3>1. f = [i \in 0 .. n |-> f[i]]
      BY DEF f
    <3>2. QED
      BY <2>7, <3>1
  <2>9. QED
    BY <2>1, <2>8
<1> DEFINE t == Translated(items)
<1>2. Is(t, Len(items))
  <2>1. \E f : Is(f, Len(items))
    BY <1>1, LenProperties
  <2>2. t = CHOOSE f : Is(f, Len(items))
    BY DEF Translated
  <2>3. QED
    BY <2>1, <2>2
<1> HIDE DEF t
<1>3. Len(items) \in Nat
  BY LenProperties
<1>4. QED
  BY <1>2, <1>3 DEF t

\* Induction up to N over a set of numbers.
LEMMA UpTo ==
    ASSUME NEW N \in Nat, NEW S, 0 \in S,
           \A n \in 1 .. N : n - 1 \in S => n \in S
    PROVE  0 .. N \subseteq S
<1> DEFINE Out == (0 .. N) \ S
<1> SUFFICES ASSUME Out # {} PROVE FALSE
  OBVIOUS
<1>1. Out \subseteq Nat
  OBVIOUS
<1>2. PICK m \in Out : \A k \in Out : m <= k
  <2> HIDE DEF Out
  <2>1. QED
    BY <1>1, Smallest
<1>3. m \in 0 .. N /\ m \notin S /\ m # 0
  BY <1>2
<1>4. m - 1 \in 0 .. N /\ ~(m <= m - 1)
  BY <1>3
<1>5. m - 1 \notin Out
  BY <1>2, <1>4
<1>6. m \in 1 .. N /\ m - 1 \in S
  BY <1>3, <1>4, <1>5
<1>7. QED
  BY <1>3, <1>6

IsSeq(s) == \E T : s \in Seq(T)

\* An element appended to a sequence of anything.
LEMMA Appending ==
    ASSUME NEW s, IsSeq(s), NEW x
    PROVE  /\ IsSeq(Append(s, x)) /\ Len(s) \in Nat /\ DOMAIN s = 1 .. Len(s)
           /\ Len(Append(s, x)) = Len(s) + 1 /\ DOMAIN Append(s, x) = 1 .. (Len(s) + 1)
           /\ Append(s, x)[Len(s) + 1] = x
           /\ \A i \in 1 .. Len(s) : Append(s, x)[i] = s[i]
<1>1. PICK T : s \in Seq(T)
  BY DEF IsSeq
<1> DEFINE U == T \cup {x}
<1>2. s \in Seq(U)
  <2>1. Len(s) \in Nat /\ s \in [1 .. Len(s) -> T]
    BY <1>1, LenProperties
  <2>2. s \in [1 .. Len(s) -> U]
    BY <2>1
  <2>3. QED
    BY <2>1, <2>2, SeqDef
<1>3. x \in U
  OBVIOUS
<1> HIDE DEF U
<1>4. /\ Append(s, x) \in Seq(U) /\ Append(s, x) # <<>>
      /\ Len(Append(s, x)) = Len(s) + 1
      /\ \A i \in 1 .. Len(s) : Append(s, x)[i] = s[i]
      /\ Append(s, x)[Len(s) + 1] = x
  BY <1>2, <1>3, AppendProperties
<1>5. QED
  BY <1>2, <1>4, LenProperties DEF IsSeq

Kind(h) == IsSeq(h.items) /\ h = [reason |-> h.reason, items |-> h.items, origins |-> h.origins]
Clean(x) ==
    /\ x.type = "function_call" => x.native.outer
    /\ x.type \notin {"custom_tool_call", "additional_tools", "item_reference"}

\* An item put at the end of what has been translated.
LEMMA Putting ==
    ASSUME NEW h, Kind(h), NEW x
    PROVE  /\ Kind(Puts(h, x)) /\ Puts(h, x).items = Append(h.items, x)
           /\ Puts(h, x).reason = h.reason /\ Puts(h, x).origins = h.origins
<1>1. Puts(h, x) = [reason |-> h.reason, items |-> Append(h.items, x), origins |-> h.origins]
  BY DEF Puts, Kind
<1> DEFINE p == Puts(h, x)
<1>2. p.reason = h.reason /\ p.items = Append(h.items, x) /\ p.origins = h.origins
      /\ p = [reason |-> p.reason, items |-> p.items, origins |-> p.origins]
  BY <1>1
<1>3. QED
  BY <1>2, Appending DEF Kind

\* Likewise a call, which its outputs then know.
LEMMA PuttingCall ==
    ASSUME NEW h, Kind(h), NEW item, NEW native
    PROVE  LET p == PutsCall(h, item, native) IN
           /\ Kind(p) /\ p.items = Append(h.items, Sent("function_call", native.id, native))
           /\ p.reason = h.reason /\ (item.id # "" => item.id \in p.origins)
<1> DEFINE x == Sent("function_call", native.id, native)
           q == Puts(h, x)
           p == PutsCall(h, item, native)
<1> HIDE DEF x
<1>1. Kind(q) /\ q.items = Append(h.items, x) /\ q.reason = h.reason
  BY Putting
<1>2. p = [q EXCEPT !.origins = IF item.id = "" THEN @ ELSE @ \cup {item.id}]
  BY DEF PutsCall, x
<1> HIDE DEF q, p
<1>3. p = [reason |-> q.reason, items |-> q.items,
           origins |-> IF item.id = "" THEN q.origins ELSE q.origins \cup {item.id}]
  BY <1>1, <1>2 DEF Kind
<1>4. p.reason = q.reason /\ p.items = q.items
      /\ p.origins = (IF item.id = "" THEN q.origins ELSE q.origins \cup {item.id})
  BY <1>3
<1>5. Kind(p)
  BY <1>1, <1>3, <1>4 DEF Kind
<1>6. QED
  BY <1>1, <1>4, <1>5 DEF p, x

\* An item of a history adds nothing, or one item that the upstream may see.
LEMMA Translating ==
    ASSUME NEW h, Kind(h), NEW item \in Item
    PROVE  LET k == Translates(h, item) IN
           /\ Kind(k)
           /\ \/ k.items = h.items
              \/ \E x : Clean(x) /\ k.items = Append(h.items, x)
<1> DEFINE k == Translates(h, item)
<1> SUFFICES /\ Kind(k)
             /\ \/ k.items = h.items
                \/ \E x : Clean(x) /\ k.items = Append(h.items, x)
  OBVIOUS
<1>1. CASE h.reason # "" \/ Dropped(item)
  BY <1>1 DEF Translates
<1>2. CASE ~(h.reason # "" \/ Dropped(item)) /\ item.type \in CallTypes
  <2> DEFINE own == [NoNative EXCEPT !.outer = TRUE, !.id = item.id]
             new == fallbackTransportCall(item)
  <2>1. own.outer /\ new.outer
    BY DEF NoNative, fallbackTransportCall
  <2> HIDE DEF own, new
  <2>2. \A n : n.outer => Clean(Sent("function_call", n.id, n))
    BY DEF Clean, Sent
  <2>3. CASE k = PutsCall(h, item, own) \/ k = PutsCall(h, item, new)
    <3> HIDE DEF k
    <3>1. QED
      BY <2>1, <2>2, <2>3, PuttingCall
  <2>4. CASE k = [h EXCEPT !.reason = "unsupported_history_tool_input"]
    <3> HIDE DEF k
    <3>1. k = [reason |-> "unsupported_history_tool_input", items |-> h.items, origins |-> h.origins]
      BY <2>4 DEF Kind
    <3>2. k.items = h.items /\ k = [reason |-> k.reason, items |-> k.items, origins |-> k.origins]
      BY <3>1
    <3>3. QED
      BY <3>2 DEF Kind
  <2>5. QED
    BY <1>2, <2>3, <2>4 DEF Translates, own, new
<1>3. CASE ~(h.reason # "" \/ Dropped(item)) /\ item.type \notin CallTypes
  <2> DEFINE type == IF item.type \in OutputTypes /\ item.id \in h.origins
                     THEN "function_call_output" ELSE item.type
  <2>1. k = Puts(h, Sent(type, item.id, NoNative))
    BY <1>3 DEF Translates
  <2>2. type \notin {"function_call", "custom_tool_call", "additional_tools", "item_reference"}
    BY <1>3 DEF Dropped, CallTypes
  <2> HIDE DEF type, k
  <2>3. Clean(Sent(type, item.id, NoNative))
    BY <2>2 DEF Clean, Sent
  <2>4. QED
    BY <2>1, <2>3, Putting
<1>4. QED
  BY <1>1, <1>2, <1>3

\* No client's own tool, catalog or reference is left.
LEMMA AllClean ==
    ASSUME NEW items \in Seq(Item)
    PROVE  \A n \in 0 .. Len(items) :
              /\ Kind(Translated(items)[n])
              /\ \A i \in DOMAIN Translated(items)[n].items : Clean(Translated(items)[n].items[i])
<1> DEFINE t == Translated(items)
           Good == {n \in Nat : Kind(t[n]) /\ \A i \in DOMAIN t[n].items : Clean(t[n].items[i])}
<1>1. /\ t[0] = NoHistory /\ \A n \in 1 .. Len(items) : t[n] = Translates(t[n - 1], items[n])
      /\ Len(items) \in Nat
  BY TranslatedRecurs, LenProperties
<1> HIDE DEF t
<1>2. 0 \in Good
  <2> DEFINE h == NoHistory
  <2>1. h.items = <<>> /\ h = [reason |-> h.reason, items |-> h.items, origins |-> h.origins]
    BY DEF NoHistory
  <2>2. IsSeq(<<>>)
    BY EmptySeq DEF IsSeq
  <2> HIDE DEF h
  <2>3. Kind(h) /\ DOMAIN h.items = {}
    BY <2>1, <2>2 DEF Kind
  <2>4. QED
    BY <1>1, <2>3 DEF h
<1>3. ASSUME NEW n \in 1 .. Len(items), n - 1 \in Good PROVE n \in Good
  <2> DEFINE h == t[n - 1]
             k == t[n]
  <2>1. Kind(h) /\ \A i \in DOMAIN h.items : Clean(h.items[i])
    BY <1>3
  <2>2. k = Translates(h, items[n]) /\ items[n] \in Item
    BY <1>1, ElementOfSeq
  <2>3. n \in Nat
    BY <1>1
  <2> HIDE DEF h, k
  <2>4. Kind(k) /\ (k.items = h.items \/ \E x : Clean(x) /\ k.items = Append(h.items, x))
    BY <2>1, <2>2, Translating
  <2>5. CASE k.items = h.items
    BY <2>1, <2>3, <2>4, <2>5 DEF k
  <2>6. CASE \E x : Clean(x) /\ k.items = Append(h.items, x)
    <3>1. PICK x : Clean(x) /\ k.items = Append(h.items, x)
      BY <2>6
    <3>2. IsSeq(h.items)
      BY <2>1 DEF Kind
    <3>3. /\ DOMAIN h.items = 1 .. Len(h.items) /\ Len(h.items) \in Nat
          /\ DOMAIN k.items = 1 .. (Len(h.items) + 1) /\ k.items[Len(h.items) + 1] = x
          /\ \A i \in 1 .. Len(h.items) : k.items[i] = h.items[i]
      BY <3>1, <3>2, Appending
    <3>4. \A i \in DOMAIN k.items : Clean(k.items[i])
      BY <2>1, <3>1, <3>3
    <3>5. QED
      BY <2>3, <2>4, <3>4 DEF k
  <2>7. QED
    BY <2>4, <2>5, <2>6
<1> HIDE DEF Good
<1>4. 0 .. Len(items) \subseteq Good
  BY <1>1, <1>2, <1>3, UpTo
<1>5. QED
  BY <1>4 DEF Good, t

\* What comes later in a history does not change what came before.
LEMMA Prefix ==
    ASSUME NEW a \in Seq(Item), NEW b \in Seq(Item)
    PROVE  \A n \in 0 .. Len(a) : Translated(a \o b)[n] = Translated(a)[n]
<1> DEFINE t == Translated(a)
           u == Translated(a \o b)
           Same == {n \in Nat : u[n] = t[n]}
<1>1. Len(a) \in Nat /\ t[0] = NoHistory
      /\ \A n \in 1 .. Len(a) : t[n] = Translates(t[n - 1], a[n])
  BY TranslatedRecurs, LenProperties
<1>2. /\ a \o b \in Seq(Item) /\ Len(a \o b) = Len(a) + Len(b) /\ Len(b) \in Nat
      /\ \A n \in 1 .. Len(a) : (a \o b)[n] = a[n]
  BY ConcatProperties, LenProperties
<1>3. u[0] = NoHistory /\ \A n \in 1 .. Len(a \o b) : u[n] = Translates(u[n - 1], (a \o b)[n])
  BY <1>2, TranslatedRecurs
<1> HIDE DEF t, u
<1>4. 0 \in Same
  BY <1>1, <1>3
<1>5. ASSUME NEW n \in 1 .. Len(a), n - 1 \in Same PROVE n \in Same
  <2>1. n \in 1 .. Len(a \o b) /\ (a \o b)[n] = a[n] /\ n \in Nat
    BY <1>1, <1>2
  <2>2. u[n] = Translates(u[n - 1], a[n]) /\ t[n] = Translates(t[n - 1], a[n])
    BY <1>1, <1>3, <2>1
  <2>3. QED
    BY <1>5, <2>1, <2>2
<1> HIDE DEF Same
<1>6. 0 .. Len(a) \subseteq Same
  BY <1>1, <1>4, <1>5, UpTo
<1>7. QED
  BY <1>6 DEF Same, t, u

\* A handed call, sent back with its output, becomes a native call that is
\* extracted as that call, and an output that belongs to it.
Native1(c) == Sent("function_call", c.id, fallbackTransportCall(c))
Output1(c) == Sent("function_call_output", c.id, NoNative)

LEMMA CallComesBack ==
    ASSUME NEW h, Kind(h), h.reason = "", NEW s \in Sources, NEW c,
           Offered(callableClientToolSpecs(s), c)
    PROVE  LET k == Translates(h, c)
               l == Translates(k, Other("custom_tool_call_output", c.id))
           IN  /\ Kind(k) /\ k.reason = "" /\ Kind(l) /\ l.reason = ""
               /\ k.items = Append(h.items, Native1(c))
               /\ l.items = Append(k.items, Output1(c))
<1>1. PICK t \in callableClientToolSpecs(s) : CallOf(c, t)
  BY DEF Offered
<1>2. c.id # "" /\ c.type \in CallTypes /\ c.payload \in Texts
  BY <1>1 DEF CallOf, CallTypes, Texts
<1>3. clientToolCallName(c) \notin TransportNames
  BY <1>1, NamedAfter DEF CallOf
<1> DEFINE k == Translates(h, c)
           o == Other("custom_tool_call_output", c.id)
           l == Translates(k, o)
<1>4. k = PutsCall(h, c, fallbackTransportCall(c))
  BY <1>2, <1>3 DEF Translates, Dropped, Lossless, CallTypes
<1>5. fallbackTransportCall(c).id = c.id
  BY <1>2 DEF fallbackTransportCall
<1> HIDE DEF k
<1>6. Kind(k) /\ k.items = Append(h.items, Native1(c)) /\ k.reason = "" /\ c.id \in k.origins
  <2> DEFINE native == fallbackTransportCall(c)
             p == PutsCall(h, c, native)
  <2>1. k = p /\ Native1(c) = Sent("function_call", native.id, native)
    BY <1>4, <1>5 DEF Native1
  <2> HIDE DEF native
  <2>2. /\ Kind(p) /\ p.items = Append(h.items, Sent("function_call", native.id, native))
        /\ p.reason = h.reason /\ (c.id # "" => c.id \in p.origins)
    BY PuttingCall
  <2> HIDE DEF p
  <2>3. QED
    BY <1>2, <2>1, <2>2
<1>7. o.type = "custom_tool_call_output" /\ o.id = c.id
  BY DEF Other, NoCall
<1> HIDE DEF o
<1>8. l = Puts(k, Output1(c))
  BY <1>6, <1>7 DEF Translates, Dropped, CallTypes, OutputTypes, Output1
<1> HIDE DEF l
<1>9. Kind(l) /\ l.items = Append(k.items, Output1(c)) /\ l.reason = ""
  BY <1>6, <1>8, Putting
<1>10. QED
  BY <1>6, <1>9 DEF k, l, o

\* A call that was handed over, made native, is extracted as that call again.
LEMMA RoundTrip ==
    ASSUME NEW s \in Sources, NEW c, Offered(callableClientToolSpecs(s), c)
    PROVE  LET callable == callableClientToolSpecs(s) IN
           extractNativeClientToolCallIn(fallbackTransportCall(c), callable, callable)
               = Extracted("", c, c.type, c.id, c.payload, FALSE)
<1> DEFINE callable == callableClientToolSpecs(s)
           n == fallbackTransportCall(c)
           relay == transportEnvelope(n)
           x == extractNativeClientToolCallIn(n, callable, callable)
           Named == {u \in callable : clientToolCallName(u) = relay.tool}
<1>1. PICK t \in callable : CallOf(c, t)
  BY DEF Offered
<1>2. c.id # "" /\ c.payload \in Texts
  BY <1>1 DEF CallOf, Texts
<1>3. clientToolCallName(c) = clientToolCallName(t)
  BY <1>1, NamedAfter DEF CallOf
<1>4. clientToolCallName(t) # <<>> /\ clientToolCallName(t) \notin TransportNames
  <2>1. t.ns \in Seq(STRING) /\ t.name \in Seq(STRING) /\ t.name # <<>>
    BY Callable DEF ToolSpec, Key
  <2>2. QED
    BY <1>1, <2>1, ConcatSimplifications DEF clientToolCallName, CallOf
<1>5. /\ n.outer /\ n.parsed /\ n.refs.kind = "one" /\ n.refs.name = clientToolCallName(t)
      /\ n.code.text = c.payload /\ n.id = c.id
  BY <1>2, <1>3 DEF fallbackTransportCall, Rebuilt, Texts
<1> HIDE DEF n
<1>6. relay = [reason |-> "", tool |-> clientToolCallName(t), payload |-> c.payload, legacy |-> FALSE]
  <2>1. relay = Route(n.refs.name, n.code.text, FALSE)
    BY <1>2, <1>4, <1>5 DEF transportEnvelope, Nameless
  <2>2. QED
    BY <1>5, <2>1 DEF Route
<1> HIDE DEF relay
<1>7. relay.reason = "" /\ relay.tool = clientToolCallName(t) /\ relay.payload = c.payload
      /\ relay.legacy = FALSE
  BY <1>6
<1>8. Named # {} /\ t = CHOOSE u \in Named : TRUE
  <2>1. t \in Named
    BY <1>1, <1>7
  <2>2. ASSUME NEW u \in Named PROVE u = t
    <3>1. u \in clientToolSpecs(s) /\ t \in clientToolSpecs(s)
      BY <1>1, Callable
    <3>2. clientToolCallName(u) = clientToolCallName(t)
      BY <1>7
    <3>3. QED
      BY <3>1, <3>2, OneOfAKey
  <2> HIDE DEF Named
  <2>3. QED
    BY <2>1, <2>2
<1> DEFINE decoded == decodeFunctionArguments(c.payload)
<1>9. x = IF t.type = "custom"
          THEN IF c.payload \notin Texts
               THEN Extracted("custom_args_not_string", NoCall, "", "", "", FALSE)
               ELSE Extracted("", t, "custom_tool_call", c.id, c.payload, FALSE)
          ELSE IF decoded = "none" THEN Extracted("undecodable", NoCall, "", "", "", FALSE)
          ELSE IF ~schemaMatches(decoded, t)
          THEN Extracted("arguments_schema_mismatch", NoCall, "", "", "", FALSE)
          ELSE Extracted("", t, "function_call", c.id, decoded, FALSE)
  BY <1>2, <1>5, <1>7, <1>8 DEF extractNativeClientToolCallIn, relay
<1> HIDE DEF x, Named
<1>10. c.payload \in {"json", "bad", "envelope"} => decoded = c.payload /\ decoded # "none"
  BY DEF decodeFunctionArguments
<1> HIDE DEF decoded
<1>11. x = Extracted("", t, c.type, c.id, c.payload, FALSE)
  <2>1. CASE t.type = "custom"
    BY <1>1, <1>2, <1>9, <2>1 DEF CallOf
  <2>2. CASE t.type # "custom"
    BY <1>1, <1>9, <1>10, <2>2 DEF CallOf
  <2>3. QED
    BY <2>1, <2>2
<1>12. Extracted("", t, c.type, c.id, c.payload, FALSE) = Extracted("", c, c.type, c.id, c.payload, FALSE)
  BY <1>1 DEF Extracted, CallOf
<1>13. QED
  BY <1>11, <1>12 DEF x, n

\* The place in the batch of a place in its echo.
LEMMA Halves ==
    /\ \A k \in Nat \ {0} : (2 * k + 1) \div 2 = k /\ (2 * k - 1 + 1) \div 2 = k
    /\ \A j \in Nat \ {0} : (j + 1) \div 2 \in Nat \ {0} /\ 2 * ((j + 1) \div 2) <= j + 1
OBVIOUS

\* An echo is a history: each call, followed by its output.
LEMMA Echoing ==
    ASSUME NEW calls \in Seq(Item)
    PROVE  /\ Echo(calls) \in Seq(Item) /\ Len(Echo(calls)) = 2 * Len(calls)
           /\ \A k \in 1 .. Len(calls) :
                 /\ Echo(calls)[2 * k - 1] = calls[k]
                 /\ Echo(calls)[2 * k] = Other("custom_tool_call_output", calls[k].id)
<1> DEFINE m == Len(calls)
           e == Echo(calls)
           Half(j) == (j + 1) \div 2
<1>1. m \in Nat /\ \A k \in 1 .. m : calls[k] \in Item
  BY LenProperties, ElementOfSeq
<1>2. \A k \in 1 .. m : Other("custom_tool_call_output", calls[k].id) \in Item
  <2>1. ASSUME NEW id \in STRING PROVE Other("custom_tool_call_output", id) \in Item
    BY EmptySeq DEF Other, NoCall, Item, ItemTypes, OutputTypes, Payloads, Key
  <2>2. \A k \in 1 .. m : calls[k].id \in STRING
    BY <1>1 DEF Item
  <2>3. QED
    BY <2>1, <2>2
<1>3. e = [j \in 1 .. (2 * m) |->
              IF j = 2 * Half(j) THEN Other("custom_tool_call_output", calls[Half(j)].id)
              ELSE calls[Half(j)]]
  BY DEF Echo
<1> HIDE DEF e, m
<1>4. \A j \in 1 .. (2 * m) : Half(j) \in 1 .. m
  BY <1>1, Halves
<1>5. e \in [1 .. (2 * m) -> Item]
  <2> HIDE DEF Half
  <2>1. QED
    BY <1>1, <1>2, <1>3, <1>4
<1>6. e \in Seq(Item) /\ Len(e) = 2 * m
  <2>1. 2 * m \in Nat
    BY <1>1
  <2>2. e \in Seq(Item)
    BY <1>5, <2>1, SeqDef
  <2>3. QED
    BY <1>5, <2>1, <2>2, LenProperties
<1>7. ASSUME NEW k \in 1 .. m
      PROVE  e[2 * k - 1] = calls[k] /\ e[2 * k] = Other("custom_tool_call_output", calls[k].id)
  <2>1. 2 * k - 1 \in 1 .. (2 * m) /\ 2 * k \in 1 .. (2 * m) /\ 2 * k - 1 # 2 * k
    BY <1>1
  <2>2. Half(2 * k - 1) = k /\ Half(2 * k) = k
    BY <1>1, Halves
  <2> HIDE DEF Half
  <2>3. QED
    BY <1>3, <2>1, <2>2
<1>8. QED
  BY <1>6, <1>7 DEF e, m

\* After any history, the echo of a batch becomes, pair by pair, what its calls were.
LEMMA EchoComesBack ==
    ASSUME NEW s \in Sources, NEW calls \in Seq(Item)
    PROVE  LET before == translateInputItems(s.history)
               after == translateInputItems(s.history \o Echo(calls))
           IN  /\ \A i \in 1 .. Len(calls) : Offered(callableClientToolSpecs(s), calls[i])
               /\ before.reason = ""
               =>
               /\ after.reason = ""
               /\ \A i \in 1 .. Len(calls) :
                     /\ after.items[Len(before.items) + 2 * i - 1] = Native1(calls[i])
                     /\ after.items[Len(before.items) + 2 * i] = Output1(calls[i])
<1> DEFINE m == Len(calls)
           N == Len(s.history)
           items == s.history \o Echo(calls)
           t == Translated(items)
           b == Len(Translated(s.history)[N].items)
           Back(h, k) == \A i \in 1 .. k : /\ h.items[b + 2 * i - 1] = Native1(calls[i])
                                          /\ h.items[b + 2 * i] = Output1(calls[i])
           Good == {k \in Nat : /\ Kind(t[N + 2 * k]) /\ t[N + 2 * k].reason = ""
                                /\ Len(t[N + 2 * k].items) = b + 2 * k
                                /\ Back(t[N + 2 * k], k)}
<1>a. SUFFICES ASSUME \A i \in 1 .. Len(calls) : Offered(callableClientToolSpecs(s), calls[i]),
                      translateInputItems(s.history).reason = ""
               PROVE  t[N + 2 * m].reason = "" /\ Back(t[N + 2 * m], m)
  <2>1. Len(items) = N + 2 * m
    <3>1. Echo(calls) \in Seq(Item) /\ Len(Echo(calls)) = 2 * m /\ s.history \in Seq(Item)
      BY Echoing, RelayAssumption DEF RelayAssumption
    <3>2. Len(s.history \o Echo(calls)) = Len(s.history) + Len(Echo(calls))
      BY <3>1, ConcatProperties
    <3>3. QED
      BY <3>1, <3>2
  <2>2. QED
    BY <2>1 DEF translateInputItems
<1>0. s.history \in Seq(Item)
  BY RelayAssumption DEF RelayAssumption
<1>1. N \in Nat /\ m \in Nat
  BY <1>0, LenProperties
<1>2. /\ items \in Seq(Item) /\ Len(items) = N + 2 * m
      /\ \A j \in 1 .. (2 * m) : items[N + j] = Echo(calls)[j]
  <2>1. Echo(calls) \in Seq(Item) /\ Len(Echo(calls)) = 2 * m
    BY Echoing
  <2>2. /\ items \in Seq(Item) /\ Len(items) = N + Len(Echo(calls))
        /\ \A j \in 1 .. (N + Len(Echo(calls))) :
              items[j] = IF j <= N THEN s.history[j] ELSE Echo(calls)[j - N]
    BY <1>0, <2>1, ConcatProperties
  <2> HIDE DEF items, N, m
  <2>a. \A j \in 1 .. (N + 2 * m) : items[j] = IF j <= N THEN s.history[j] ELSE Echo(calls)[j - N]
    BY <2>1, <2>2
  <2>3. ASSUME NEW j \in 1 .. (2 * m) PROVE items[N + j] = Echo(calls)[j]
    <3> DEFINE p == N + j
    <3>1. p \in 1 .. (N + 2 * m) /\ ~(p <= N) /\ p - N = j
      BY <1>1
    <3> HIDE DEF p
    <3>2. items[p] = Echo(calls)[p - N]
      BY <2>a, <3>1
    <3>3. QED
      BY <3>1, <3>2 DEF p
  <2>4. QED
    BY <2>1, <2>2, <2>3
<1>3. \A n \in 1 .. (N + 2 * m) : t[n] = Translates(t[n - 1], items[n])
  BY <1>2, TranslatedRecurs
<1>4. t[N].reason = "" /\ Kind(t[N]) /\ Len(t[N].items) = b /\ b \in Nat
  <2>1. t[N] = Translated(s.history)[N]
    <3>1. N \in 0 .. N
      BY <1>1
    <3>2. QED
      BY <1>0, <3>1, Echoing, Prefix
  <2>2. Kind(Translated(s.history)[N])
    <3>1. N \in 0 .. N
      BY <1>1
    <3>2. QED
      BY <1>0, <3>1, AllClean
  <2>3. Translated(s.history)[N].reason = ""
    BY <1>a DEF translateInputItems
  <2> HIDE DEF t
  <2>4. b \in Nat
    BY <2>2, Appending DEF Kind
  <2>5. QED
    BY <2>1, <2>2, <2>3, <2>4
<1> HIDE DEF t, items, N, m, b
<1>B. b \in Nat
  BY <1>4
<1>5. 0 \in Good
  <2>1. N + 2 * 0 = N /\ b + 2 * 0 = b
    BY <1>1, <1>B
  <2> DEFINE h == t[N + 2 * 0]
  <2>2. h = t[N]
    BY <2>1
  <2>3. Back(h, 0)
    OBVIOUS
  <2> HIDE DEF h
  <2>4. Kind(h) /\ h.reason = "" /\ Len(h.items) = b + 2 * 0
    BY <1>4, <2>1, <2>2
  <2>5. QED
    BY <2>3, <2>4 DEF h
<1>6. ASSUME NEW k \in 1 .. m, k - 1 \in Good PROVE k \in Good
  <2> DEFINE h == t[N + 2 * (k - 1)]
             g == t[N + 2 * k - 1]
             l == t[N + 2 * k]
             c == calls[k]
  <2>1. k \in Nat /\ k - 1 \in Nat
    BY <1>1
  <2>2. Kind(h) /\ h.reason = "" /\ Len(h.items) = b + 2 * (k - 1) /\ Back(h, k - 1)
    BY <1>6
  <2>3. items[N + 2 * k - 1] = c /\ items[N + 2 * k] = Other("custom_tool_call_output", c.id)
    <3>1. 2 * k - 1 \in 1 .. (2 * m) /\ 2 * k \in 1 .. (2 * m)
          /\ N + (2 * k - 1) = N + 2 * k - 1
      BY <1>1
    <3>2. Echo(calls)[2 * k - 1] = c /\ Echo(calls)[2 * k] = Other("custom_tool_call_output", c.id)
      BY Echoing DEF m
    <3>3. items[N + (2 * k - 1)] = c /\ items[N + 2 * k] = Other("custom_tool_call_output", c.id)
      BY <1>2, <3>1, <3>2
    <3>4. QED
      BY <3>1, <3>3
  <2>4. g = Translates(h, c) /\ l = Translates(g, Other("custom_tool_call_output", c.id))
    <3> DEFINE p == N + 2 * k - 1
               q == N + 2 * k
    <3>1. p \in 1 .. (N + 2 * m) /\ q \in 1 .. (N + 2 * m)
          /\ p - 1 = N + 2 * (k - 1) /\ q - 1 = p
      BY <1>1
    <3> HIDE DEF p, q
    <3>2. t[p] = Translates(t[p - 1], items[p]) /\ t[q] = Translates(t[q - 1], items[q])
      BY <1>3, <3>1
    <3>3. t[p - 1] = h /\ t[q - 1] = t[p]
      BY <3>1
    <3>4. items[p] = c /\ items[q] = Other("custom_tool_call_output", c.id)
      BY <2>3 DEF p, q
    <3> HIDE DEF c, h
    <3>5. t[p] = Translates(h, c) /\ t[q] = Translates(t[p], Other("custom_tool_call_output", c.id))
      BY <3>2, <3>3, <3>4
    <3>6. QED
      BY <3>5 DEF p, q
  <2>5. Offered(callableClientToolSpecs(s), c)
    BY <1>a DEF m
  <2> HIDE DEF h, g, l, c
  <2>6. /\ Kind(g) /\ g.reason = "" /\ Kind(l) /\ l.reason = ""
        /\ g.items = Append(h.items, Native1(c)) /\ l.items = Append(g.items, Output1(c))
    BY <2>2, <2>4, <2>5, CallComesBack
  <2> DEFINE n == Len(h.items)
  <2>7. /\ n \in Nat /\ Len(g.items) = n + 1 /\ g.items[n + 1] = Native1(c)
        /\ \A i \in 1 .. n : g.items[i] = h.items[i]
    <3>1. IsSeq(h.items)
      BY <2>2 DEF Kind
    <3>2. g.items = Append(h.items, Native1(c))
      BY <2>6
    <3>3. QED
      BY <3>1, <3>2, Appending
  <2>8. /\ Len(l.items) = n + 1 + 1 /\ l.items[n + 1 + 1] = Output1(c)
        /\ \A i \in 1 .. (n + 1) : l.items[i] = g.items[i]
    <3>1. IsSeq(g.items) /\ Len(g.items) = n + 1
      BY <2>6, <2>7 DEF Kind
    <3> HIDE DEF n
    <3>2. l.items = Append(g.items, Output1(c))
      BY <2>6
    <3>3. QED
      BY <3>1, <3>2, Appending
  <2> HIDE DEF n
  <2>9. n = b + 2 * k - 2
    <3>1. n = b + 2 * (k - 1)
      BY <2>2 DEF n
    <3>2. QED
      BY <1>B, <2>1, <3>1
  <2>10. Len(l.items) = b + 2 * k
    BY <1>B, <2>1, <2>8, <2>9
  <2>11. l.items[b + 2 * k - 1] = Native1(c) /\ l.items[b + 2 * k] = Output1(c)
    <3>1. n + 1 = b + 2 * k - 1 /\ n + 1 + 1 = b + 2 * k /\ n + 1 \in 1 .. (n + 1)
      BY <1>B, <2>1, <2>7, <2>9
    <3>2. l.items[n + 1] = Native1(c) /\ l.items[n + 1 + 1] = Output1(c)
      BY <2>7, <2>8, <3>1
    <3>3. QED
      BY <3>1, <3>2
  <2>12. ASSUME NEW i \in 1 .. k
         PROVE  l.items[b + 2 * i - 1] = Native1(calls[i]) /\ l.items[b + 2 * i] = Output1(calls[i])
    <3>1. CASE i = k
      BY <2>11, <3>1 DEF c
    <3>2. CASE i # k
      <4>1. i \in 1 .. (k - 1) /\ b + 2 * i - 1 \in 1 .. n /\ b + 2 * i \in 1 .. n
        BY <1>B, <2>1, <2>9, <3>2
      <4>2. b + 2 * i - 1 \in 1 .. (n + 1) /\ b + 2 * i \in 1 .. (n + 1)
        BY <2>7, <4>1
      <4>3. l.items[b + 2 * i - 1] = h.items[b + 2 * i - 1] /\ l.items[b + 2 * i] = h.items[b + 2 * i]
        BY <2>7, <2>8, <4>1, <4>2
      <4>4. QED
        BY <2>2, <4>1, <4>3
    <3>3. QED
      BY <3>1, <3>2
  <2>13. Kind(t[N + 2 * k]) /\ t[N + 2 * k].reason = ""
         /\ Len(t[N + 2 * k].items) = b + 2 * k /\ Back(t[N + 2 * k], k)
    BY <2>6, <2>10, <2>12 DEF l
  <2>14. QED
    BY <2>1, <2>13
<1> HIDE DEF Good
<1>7. 0 .. m \subseteq Good
  BY <1>1, <1>5, <1>6, UpTo
<1>8. m \in Good
  BY <1>1, <1>7
<1>9. QED
  BY <1>8 DEF Good

\* What a sequence ends with, when something is put behind another.
LEMMA LastOf ==
    ASSUME NEW a, NEW b
    PROVE  IsSeq(a) /\ IsSeq(b) /\ b # <<>> =>
               /\ IsSeq(a \o b) /\ a \o b # <<>> /\ Last(a \o b) = Last(b) /\ IsSeq(Front(b))
<1>1. SUFFICES ASSUME IsSeq(a), IsSeq(b), b # <<>>
               PROVE  /\ IsSeq(a \o b) /\ a \o b # <<>> /\ Last(a \o b) = Last(b)
                      /\ IsSeq(Front(b))
  OBVIOUS
<1>2. PICK S, T : a \in Seq(S) /\ b \in Seq(T)
  BY <1>1 DEF IsSeq
<1> DEFINE U == S \cup T
           c == a \o b
<1>3. a \in Seq(U) /\ b \in Seq(U)
  <2>1. /\ Len(a) \in Nat /\ a \in [1 .. Len(a) -> S] /\ Len(b) \in Nat /\ b \in [1 .. Len(b) -> T]
    BY <1>2, LenProperties
  <2>2. a \in [1 .. Len(a) -> U] /\ b \in [1 .. Len(b) -> U]
    BY <2>1
  <2>3. QED
    BY <2>1, <2>2, SeqDef
<1> HIDE DEF U
<1>4. Len(a) \in Nat /\ Len(b) \in Nat /\ Len(b) # 0
  BY <1>1, <1>3, LenProperties, EmptySeq
<1>5. /\ c \in Seq(U) /\ Len(c) = Len(a) + Len(b)
      /\ \A i \in 1 .. Len(c) : c[i] = IF i <= Len(a) THEN a[i] ELSE b[i - Len(a)]
  BY <1>3, ConcatProperties
<1> HIDE DEF c
<1>6. c # <<>> /\ Last(c) = Last(b)
  <2> DEFINE p == Len(a) + Len(b)
  <2>1. p \in 1 .. p /\ ~(p <= Len(a)) /\ p - Len(a) = Len(b) /\ p # 0
    BY <1>4
  <2>2. Len(c) = p
    BY <1>5
  <2> HIDE DEF p
  <2>3. c[p] = b[p - Len(a)]
    BY <1>5, <2>1, <2>2
  <2>4. c[Len(c)] = b[Len(b)]
    BY <2>1, <2>2, <2>3
  <2>5. Len(<<>>) = 0
    BY EmptySeq
  <2>6. QED
    BY <2>1, <2>2, <2>4, <2>5 DEF Last
<1>7. IsSeq(Front(b))
  <2> DEFINE n == Len(b) - 1
  <2>1. 1 \in Int /\ n \in Int /\ \A i \in 1 .. n : i \in 1 .. Len(b)
    BY <1>4
  <2>2. \A i \in 1 .. n : b[i] \in U
    BY <1>3, <2>1, ElementOfSeq
  <2> HIDE DEF n
  <2>3. SubSeq(b, 1, n) \in Seq(U)
    BY <2>1, <2>2, SubSeqProperties
  <2>4. QED
    BY <2>3 DEF Front, IsSeq, n
<1>8. QED
  BY <1>5, <1>6, <1>7 DEF IsSeq, c

\* A sequence of one.
LEMMA Single == ASSUME NEW x PROVE IsSeq(<<x>>) /\ <<x>> # <<>> /\ Last(<<x>>) = x
<1>1. <<x>> \in Seq({x}) /\ Len(<<x>>) = 1 /\ <<x>>[1] = x
  OBVIOUS
<1>2. <<x>> # <<>>
  BY <1>1, EmptySeq
<1>3. QED
  BY <1>1, <1>2 DEF IsSeq, Last

\* A trigger that ends a history ends what becomes of it, and of the retry's.
LEMMA TriggerStays ==
    ASSUME NEW s \in Sources
    PROVE  Triggered(s.history) /\ ~Refused(s) => Triggered(RetryInput(s))
<1>1. SUFFICES ASSUME Triggered(s.history), ~Refused(s) PROVE Triggered(RetryInput(s))
  OBVIOUS
<1> DEFINE items == s.history
           t == Translated(items)
           N == Len(items)
           h == t[N - 1]
           k == t[N]
           item == items[N]
<1>2. items \in Seq(Item) /\ items # <<>>
  BY <1>1, RelayAssumption DEF RelayAssumption, Triggered
<1>3. N \in Nat /\ N # 0 /\ N \in 1 .. N /\ N - 1 \in 0 .. N
  <2>1. N \in Nat /\ N # 0
    BY <1>2, LenProperties, EmptySeq
  <2> HIDE DEF N
  <2>2. QED
    BY <2>1
<1>4. k = Translates(h, item) /\ Kind(h)
  <2> HIDE DEF items
  <2>1. \A n \in 1 .. N : t[n] = Translates(t[n - 1], items[n])
    BY <1>2, TranslatedRecurs
  <2>2. \A n \in 0 .. N : Kind(t[n])
    BY <1>2, AllClean
  <2> HIDE DEF t, N
  <2>3. QED
    BY <1>3, <2>1, <2>2
<1>5. item.type = "compaction_trigger" /\ item \in Item
  BY <1>1, <1>2, <1>3, ElementOfSeq DEF Triggered, Last
<1>6. k.reason = ""
  BY <1>1 DEF Refused, translateInputItems
<1>7. translateInputItems(items) = k
  BY DEF translateInputItems
<1> HIDE DEF k, h, item, t, N, items
<1>8. h.reason = ""
  BY <1>4, <1>6 DEF Translates
<1>9. k = Puts(h, Sent("compaction_trigger", item.id, NoNative))
  BY <1>4, <1>5, <1>8 DEF Translates, Dropped, CallTypes, OutputTypes
<1> DEFINE x == Sent("compaction_trigger", item.id, NoNative)
           in == <<Prologue>> \o k.items
<1>10. x.type = "compaction_trigger"
  BY DEF Sent
<1>11. IsSeq(k.items) /\ k.items # <<>> /\ Last(k.items) = x
  <2>1. k.items = Append(h.items, x)
    BY <1>4, <1>9, Putting
  <2> HIDE DEF x
  <2>2. IsSeq(h.items)
    BY <1>4 DEF Kind
  <2>3. IsSeq(k.items) /\ Len(k.items) = Len(h.items) + 1 /\ Len(h.items) \in Nat
        /\ k.items[Len(h.items) + 1] = x
    BY <2>1, <2>2, Appending
  <2>4. Len(k.items) # 0 /\ k.items[Len(k.items)] = x
    BY <2>3
  <2>5. QED
    BY <2>3, <2>4, EmptySeq DEF Last
<1> HIDE DEF x
<1>12. IsSeq(in) /\ in # <<>> /\ Last(in) = x
  BY <1>11, Single, LastOf
<1>13. IsSeq(Front(in))
  BY <1>12, LastOf
<1>14. Input(s) = in
  BY <1>7 DEF Input, items
<1> HIDE DEF in
<1> DEFINE out == Front(in) \o <<Prologue>> \o <<Last(in)>>
<1>15. RetryInput(s) = out
  BY <1>10, <1>12, <1>14 DEF RetryInput, appendBeforeCompaction
<1>16. IsSeq(Front(in) \o <<Prologue>>)
  BY <1>13, Single, LastOf
<1>17. out # <<>> /\ Last(out) = x
  BY <1>12, <1>16, Single, LastOf
<1> HIDE DEF out
<1>18. QED
  BY <1>10, <1>15, <1>17 DEF Triggered

\* Whatever the client's tools and history are, the calls it was handed come
\* back in its next request as native calls that name the same tool, carry the
\* same payload and own their outputs, nothing of the client's own goes to the
\* upstream, and a compaction trigger stays last (protocol.go:312-314,360-364,
\* 424-427,533-542).
THEOREM HistoryComesBack == Spec => []HistoryKeepsCalls
<1>1. ASSUME NEW s \in Sources, NEW a \in Answers
      PROVE  LET calls == transformResponseBodyStats(s, a).calls IN
             Returned(calls, translateInputItems(s.history),
                      translateInputItems(s.history \o Echo(calls)), callableClientToolSpecs(s))
  <2> DEFINE calls == transformResponseBodyStats(s, a).calls
             callable == callableClientToolSpecs(s)
             items == s.history \o Echo(calls)
             before == translateInputItems(s.history)
             after == translateInputItems(items)
  <2>1. calls \in Seq(Item) /\ \A i \in 1 .. Len(calls) : Offered(callable, calls[i])
    <3> DEFINE b == transformResponseBodyStats(s, a)
    <3>1. a \in Seq(Native)
      BY RelayAssumption DEF RelayAssumption
    <3>2. /\ b.reason = "" => /\ Len(b.calls) = Len(a)
                              /\ \A i \in DOMAIN a : Offered(callable, b.calls[i])
          /\ b.reason # "" => b.calls = <<>>
          /\ b.calls \in Seq(Item)
      BY <3>1, Transformation
    <3>3. DOMAIN a = 1 .. Len(a)
      BY <3>1, LenProperties
    <3> HIDE DEF callable, b
    <3>4. CASE b.reason = ""
      BY <3>2, <3>3, <3>4 DEF b
    <3>5. CASE b.reason # ""
      <4>1. b.calls = <<>>
        BY <3>2, <3>5
      <4>2. Len(b.calls) = 0
        BY <4>1, EmptySeq
      <4>3. 1 .. Len(b.calls) = {}
        BY <4>2
      <4>4. QED
        BY <3>2, <4>3 DEF b
    <3>6. QED
      BY <3>4, <3>5
  <2> HIDE DEF calls
  <2>2. s.history \in Seq(Item)
    BY RelayAssumption DEF RelayAssumption
  <2>3. before.reason = "" =>
           /\ after.reason = ""
           /\ \A i \in 1 .. Len(calls) :
                 /\ after.items[Len(before.items) + 2 * i - 1] = Native1(calls[i])
                 /\ after.items[Len(before.items) + 2 * i] = Output1(calls[i])
    BY <2>1, EchoComesBack
  <2>4. \A i \in DOMAIN after.items : Clean(after.items[i])
    <3>1. Echo(calls) \in Seq(Item)
      BY <2>1, Echoing
    <3>2. items \in Seq(Item)
      BY <2>2, <3>1, ConcatProperties
    <3> HIDE DEF items
    <3>3. Len(items) \in Nat
      BY <3>2, LenProperties
    <3>4. Len(items) \in 0 .. Len(items)
      BY <3>3
    <3>5. QED
      BY <3>2, <3>4, AllClean DEF translateInputItems
  <2>5. ASSUME NEW i \in 1 .. Len(calls) PROVE Kept(calls[i], Native1(calls[i]), Output1(calls[i]), callable)
    <3> DEFINE c == calls[i]
    <3>1. Offered(callable, c)
      BY <2>1
    <3> HIDE DEF c
    <3>2. extractNativeClientToolCallIn(fallbackTransportCall(c), callable, callable)
              = Extracted("", c, c.type, c.id, c.payload, FALSE)
      BY <3>1, RoundTrip
    <3>3. Native1(c).native = fallbackTransportCall(c)
      BY DEF Native1, Sent
    <3>4. QED
      BY <3>2, <3>3 DEF Kept, Output1, c
  <2>6. DOMAIN calls = 1 .. Len(calls)
    BY <2>1, LenProperties
  <2> HIDE DEF before, after, callable
  <2>7. Returned(calls, before, after, callable)
    BY <2>3, <2>4, <2>5, <2>6 DEF Returned, Clean
  <2>8. QED
    BY <2>7 DEF calls, before, after, callable
<1>2. ASSUME NEW s \in Sources, NEW a \in Answers PROVE Checked[s][a].returned
  BY <1>1, TriggerStays DEF Checked, Transformed
<1>3. DataInv => HistoryKeepsCalls
  BY <1>2 DEF DataInv, HistoryKeepsCalls
<1>4. QED
  BY <1>3, DataKept, PTL
=============================================================================
