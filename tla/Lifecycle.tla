----------------------------- MODULE Lifecycle -----------------------------
(***************************************************************************)
(* The plugin's life (internal/basispoints/service.go, cmd/basispoints/    *)
(* main.go): generations of Service.life, beginStream, shutdown, configure *)
(* and the two locks of the C ABI.  Every cliproxyPluginCall holds mu for  *)
(* reading while Handle runs; a streaming execute returns early and its    *)
(* round trip goes on without the lock, a non-streaming one keeps it.      *)
(* Every host call holds callback for reading.  As with any Go RWMutex a   *)
(* writer that waits already keeps new readers out.  Service.mu is never   *)
(* held across a blocking call: its critical sections are single steps.    *)
(* Requests are in the host or between two host calls; their guards are    *)
(* modelled in UpstreamGuard, here only by the cancel they issue.          *)
(***************************************************************************)
EXTENDS Naturals

CONSTANTS
    Requests,     \* executor calls
    Streaming,    \* those through execute_stream
    Stoppers,     \* calls of the plugin.shutdown method
    Configurers,  \* calls of plugin.reconfigure
    Export,       \* the exported cliproxyPluginShutdown
    Timed         \* requests whose timeout_seconds may run out

ASSUME LifecycleAssumption ==
    /\ Streaming \subseteq Requests /\ Timed \subseteq Requests
    /\ Requests \cap (Stoppers \cup Configurers \cup {Export}) = {}
    /\ Stoppers \cap Configurers = {} /\ Export \notin Stoppers \cup Configurers
    /\ "free" \notin Stoppers \cup {Export}

Threads == Requests \cup Stoppers \cup Configurers \cup {Export}
Stopping == Stoppers \cup {Export}
Locks == {"none", "waiting", "held"}
Labels == {"idle", "handle", "leave", "returned", "running", "inHost", "finish",
           "mark", "cancel", "wait", "unlock", "lock", "clear", "unhost"}
NoGen == 0   \* generations are numbered from 1

VARIABLES
    pc,
    muReaders, muWriter, cbReaders, cbWriter,   \* main.go mu and callback
    service, hostReady,                         \* not nil, stored_host set
    \* Service: stopped, the current generation, lifeMu; per generation
    \* whether its ctx is cancelled and whom its WaitGroup still counts
    stopped, life, lifeMu, cancelled, working,
    gen, guard, late, result,  \* per request
    target,                    \* the generation a shutdown took
    clean                      \* generations whose wait saw everyone leave

locks == <<muReaders, muWriter, cbReaders, cbWriter>>
plugin == <<service, hostReady>>
lifecycle == <<stopped, life, lifeMu, cancelled, working>>
requests == <<gen, guard, late, result>>
stops == <<target, clean>>
vars == <<pc, locks, plugin, lifecycle, requests, stops>>

Init ==
    /\ pc = [t \in Threads |-> "idle"]
    /\ muReaders = {} /\ muWriter = "none" /\ cbReaders = {} /\ cbWriter = "none"
    /\ service = TRUE /\ hostReady = TRUE
    /\ stopped = FALSE /\ life = 1 /\ lifeMu = "free" /\ cancelled = {}
    /\ working = [r \in Requests |-> FALSE]
    /\ gen = [r \in Requests |-> NoGen] /\ guard = [r \in Requests |-> "watch"]
    /\ late = [r \in Requests |-> FALSE] /\ result = [r \in Requests |-> "none"]
    /\ target = [t \in Stopping |-> NoGen] /\ clean = {}

At(t, label) == pc[t] = label
Goto(t, label) == pc' = [pc EXCEPT ![t] = label]

\* life.wg of generation g, as the set of those it counts.
Members(g) == {r \in Requests : working[r] /\ gen[r] = g}

----------------------------------------------------------------------------
(* cliproxyPluginCall around Handle.                                       *)

CallEnters(t) ==
    /\ t # Export /\ At(t, "idle") /\ muWriter = "none"
    /\ muReaders' = muReaders \cup {t}
    /\ Goto(t, IF service THEN "handle" ELSE "leave")
    /\ UNCHANGED <<muWriter, cbReaders, cbWriter, plugin, lifecycle, requests, stops>>

CallLeaves(t) ==
    /\ At(t, "leave") /\ muReaders' = muReaders \ {t} /\ Goto(t, "returned")
    /\ UNCHANGED <<muWriter, cbReaders, cbWriter, plugin, lifecycle, requests, stops>>

----------------------------------------------------------------------------
(* A request: beginStream, host calls, done.                               *)

\* Mutant: a request joins the current generation even when it is stopped.
Admits_always == TRUE

Admits == ~stopped

BeginStream(r) ==
    /\ At(r, "handle")
    /\ IF Admits
       THEN /\ gen' = [gen EXCEPT ![r] = life]
            /\ working' = [working EXCEPT ![r] = TRUE]
            /\ Goto(r, "running") /\ UNCHANGED result
       ELSE /\ result' = [result EXCEPT ![r] = "plugin_stopped"]
            /\ Goto(r, "leave") /\ UNCHANGED <<gen, working>>
    /\ UNCHANGED <<locks, plugin, stopped, life, lifeMu, cancelled, guard, late, stops>>

\* execute_stream answers the host; its goroutine carries on.
Detach(r) ==
    /\ r \in Streaming /\ pc[r] \in {"running", "inHost"} /\ r \in muReaders
    /\ muReaders' = muReaders \ {r}
    /\ UNCHANGED <<pc, muWriter, cbReaders, cbWriter, plugin, lifecycle, requests, stops>>

\* Mutant: host calls no longer take the callback lock.
HoldsCallback_not(r) == cbReaders

HoldsCallback(r) == cbReaders \cup {r}

\* callHost: with the host table cleared the call fails and the request ends.
EnterHost(r) ==
    /\ At(r, "running") /\ cbWriter = "none"
    /\ IF hostReady
       THEN cbReaders' = HoldsCallback(r) /\ Goto(r, "inHost")
       ELSE Goto(r, "finish") /\ UNCHANGED cbReaders
    /\ UNCHANGED <<muReaders, muWriter, cbWriter, plugin, lifecycle, requests, stops>>

LeaveHost(r) ==
    /\ At(r, "inHost") /\ cbReaders' = cbReaders \ {r} /\ Goto(r, "running")
    /\ UNCHANGED <<muReaders, muWriter, cbWriter, plugin, lifecycle, requests, stops>>

\* The host owes an answer only to a call whose operation was cancelled.
HostAborts(r) == guard[r] = "cancelled" /\ LeaveHost(r)

\* Mutant: the guard watches the deadline but not the generation's ctx.
Aborted_lateOnly(r) == late[r]

Aborted(r) == gen[r] \in cancelled \/ late[r]

\* The guard's host.http.cancel is a host call of its own.
GuardCancels(r) ==
    /\ pc[r] \in {"running", "inHost"} /\ guard[r] = "watch" /\ Aborted(r)
    /\ cbWriter = "none" /\ hostReady
    /\ guard' = [guard EXCEPT ![r] = "cancelled"]
    /\ UNCHANGED <<pc, locks, plugin, lifecycle, gen, late, result, stops>>

Deadline(r) ==
    /\ r \in Timed /\ pc[r] \in {"running", "inHost"} /\ ~late[r]
    /\ late' = [late EXCEPT ![r] = TRUE]
    /\ UNCHANGED <<pc, locks, plugin, lifecycle, gen, guard, result, stops>>

\* The round trip ends, last of all it leaves the WaitGroup.
Finish(r) ==
    /\ pc[r] \in {"running", "finish"}
    /\ result' = [result EXCEPT ![r] =
                     IF gen[r] \in cancelled THEN "plugin_stopped"
                     ELSE IF late[r] THEN "upstream_timeout" ELSE "answered"]
    /\ working' = [working EXCEPT ![r] = FALSE]
    /\ Goto(r, "leave")
    /\ UNCHANGED <<locks, plugin, stopped, life, lifeMu, cancelled, gen, guard, late,
                   stops>>

----------------------------------------------------------------------------
(* shutdown: it keeps lifeMu until it has waited.                          *)

StopLocks(t) ==
    /\ t \in Stopping /\ At(t, "handle") /\ lifeMu = "free"
    /\ lifeMu' = t /\ Goto(t, "mark")
    /\ UNCHANGED <<locks, plugin, stopped, life, cancelled, working, requests, stops>>

\* Mutant: shutdown does not take down which generation it stops.
StopMarks_noTarget(t) ==
    /\ At(t, "mark") /\ stopped' = TRUE /\ Goto(t, "cancel")
    /\ UNCHANGED <<locks, plugin, life, lifeMu, cancelled, working, requests, stops>>

StopMarks(t) ==
    /\ At(t, "mark") /\ stopped' = TRUE /\ target' = [target EXCEPT ![t] = life]
    /\ Goto(t, "cancel")
    /\ UNCHANGED <<locks, plugin, life, lifeMu, cancelled, working, requests, clean>>

StopCancels(t) ==
    /\ At(t, "cancel") /\ cancelled' = cancelled \cup {target[t]} /\ Goto(t, "wait")
    /\ UNCHANGED <<locks, plugin, stopped, life, lifeMu, working, requests, stops>>

StopSeesAll(t) ==
    /\ At(t, "wait") /\ Members(target[t]) = {}
    /\ clean' = clean \cup {target[t]} /\ Goto(t, "unlock")
    /\ UNCHANGED <<locks, plugin, lifecycle, requests, target>>

\* Mutant: shutdownWait is too short for the guards to issue their cancels.
StopGivesUp_early(t) ==
    /\ At(t, "wait") /\ Members(target[t]) # {} /\ Goto(t, "unlock")
    /\ UNCHANGED <<locks, plugin, lifecycle, requests, stops>>

\* shutdownWait ran out.  Assumed: five seconds suffice for every guard of the
\* generation to have issued its cancel.
StopGivesUp(t) ==
    /\ At(t, "wait") /\ Members(target[t]) # {}
    /\ \A r \in Members(target[t]) : guard[r] = "cancelled"
    /\ Goto(t, "unlock")
    /\ UNCHANGED <<locks, plugin, lifecycle, requests, stops>>

StopUnlocks(t) ==
    /\ At(t, "unlock") /\ lifeMu' = "free"
    /\ Goto(t, IF t = Export THEN "clear" ELSE "leave")
    /\ UNCHANGED <<locks, plugin, stopped, life, cancelled, working, requests, stops>>

(* configure: one step under lifeMu and s.mu.                              *)

\* Mutant: configure does not wait for lifeMu.
MayConfigure_unlocked == TRUE

MayConfigure == lifeMu = "free"

Rebuilt == IF stopped THEN life + 1 ELSE life

Configure(t) ==
    /\ t \in Configurers /\ At(t, "handle") /\ MayConfigure
    /\ life' = Rebuilt /\ stopped' = FALSE
    /\ Goto(t, "leave")
    /\ UNCHANGED <<locks, plugin, lifeMu, cancelled, working, requests, stops>>

----------------------------------------------------------------------------
(* cliproxyPluginShutdown: mu for writing, shutdown, callback for writing. *)

ExportCalled ==
    /\ At(Export, "idle") /\ muWriter = "none"
    /\ muWriter' = "waiting" /\ Goto(Export, "lock")
    /\ UNCHANGED <<muReaders, cbReaders, cbWriter, plugin, lifecycle, requests, stops>>

ExportLocks ==
    /\ At(Export, "lock") /\ muReaders = {} /\ muWriter' = "held"
    /\ Goto(Export, "handle")
    /\ UNCHANGED <<muReaders, cbReaders, cbWriter, plugin, lifecycle, requests, stops>>

ExportClears ==
    /\ At(Export, "clear") /\ service' = FALSE /\ cbWriter' = "waiting"
    /\ Goto(Export, "unhost")
    /\ UNCHANGED <<muReaders, muWriter, cbReaders, hostReady, lifecycle, requests, stops>>

ExportUnhosts ==
    /\ At(Export, "unhost") /\ cbReaders = {}
    /\ hostReady' = FALSE /\ cbWriter' = "none" /\ muWriter' = "none"
    /\ Goto(Export, "returned")
    /\ UNCHANGED <<muReaders, cbReaders, service, lifecycle, requests, stops>>

Request(r) ==
    \/ CallEnters(r) \/ BeginStream(r) \/ Detach(r) \/ EnterHost(r) \/ LeaveHost(r)
    \/ GuardCancels(r) \/ Deadline(r) \/ Finish(r) \/ CallLeaves(r)

Stop(t) ==
    \/ CallEnters(t) \/ StopLocks(t) \/ StopMarks(t) \/ StopCancels(t)
    \/ StopSeesAll(t) \/ StopGivesUp(t) \/ StopUnlocks(t) \/ CallLeaves(t)

Unload == ExportCalled \/ ExportLocks \/ ExportClears \/ ExportUnhosts

Next ==
    \/ \E r \in Requests : Request(r)
    \/ \E t \in Stopping : Stop(t)
    \/ \E t \in Configurers : CallEnters(t) \/ Configure(t) \/ CallLeaves(t)
    \/ Unload

(* Calls that were made run; a request that is aborted ends between host   *)
(* calls.  Nobody has to call the plugin, the host owes an answer only to  *)
(* a cancelled operation, and a request's timeout may be far away.         *)
Fairness ==
    /\ \A r \in Requests :
          /\ WF_vars(BeginStream(r)) /\ WF_vars(HostAborts(r))
          /\ WF_vars(GuardCancels(r)) /\ WF_vars(CallLeaves(r))
          /\ SF_vars((Aborted(r) \/ ~hostReady) /\ Finish(r))
    /\ \A t \in Stopping :
          WF_vars(StopLocks(t) \/ StopMarks(t) \/ StopCancels(t) \/ StopSeesAll(t)
                  \/ StopGivesUp(t) \/ StopUnlocks(t) \/ CallLeaves(t))
    /\ \A t \in Configurers : WF_vars(Configure(t) \/ CallLeaves(t))
    /\ WF_vars(ExportLocks \/ ExportClears \/ ExportUnhosts)

Spec == Init /\ [][Next]_vars /\ Fairness

----------------------------------------------------------------------------
(* Properties.                                                             *)

\* Every variable stays in its range (service.go:20-40, main.go:117-121).
TypeOK ==
    /\ pc \in [Threads -> Labels]
    /\ muReaders \subseteq Threads /\ cbReaders \subseteq Requests
    /\ muWriter \in Locks /\ cbWriter \in Locks
    /\ service \in BOOLEAN /\ hostReady \in BOOLEAN /\ stopped \in BOOLEAN
    /\ life \in Nat \ {0} /\ lifeMu \in Stopping \cup {"free"}
    /\ cancelled \subseteq 1..life /\ clean \subseteq 1..life
    /\ working \in [Requests -> BOOLEAN] /\ gen \in [Requests -> 0..life]
    /\ guard \in [Requests -> {"watch", "cancelled"}] /\ late \in [Requests -> BOOLEAN]
    /\ result \in [Requests -> {"none", "plugin_stopped", "upstream_timeout", "answered"}]
    /\ target \in [Stopping -> 0..life]

\* A plugin that admits requests has a generation nobody cancelled, and none
\* while a shutdown cancels and waits: neither does the rebuilt plugin inherit
\* the shutdown before it, nor is it rebuilt under one (service.go:27-31,76-79,
\* 163-170).
AdmittingIsLive ==
    ~stopped => /\ life \notin cancelled
                /\ \A t \in Stopping : pc[t] \notin {"cancel", "wait", "unlock"}

\* A shutdown that saw its generation leave saw the last of it: no request is
\* ever counted in that generation again (service.go:63-74,87-93).
CleanStopIsQuiet == \A g \in clean : Members(g) = {}

\* When the unloading plugin forgets the host's table no call is inside the
\* host, and none enters it afterwards (main.go:208-219,285-300).
HostTableUnused == ~hostReady => \A r \in Requests : ~At(r, "inHost")

\* Every round trip of a stopped generation ends, however silent the upstream
\* and however far its timeout (service.go:47-53, upstream_guard.go:87-107).
StopEndsRequests == \A r \in Requests : (gen[r] \in cancelled) ~> ~working[r]

\* Unloading the plugin terminates if no request runs on for ever within its
\* timeout: the pending write locks deadlock with nothing (main.go:208-219).
UnloadReturns ==
    (\A r \in Requests : []<>(late[r] \/ pc[r] \notin {"running", "inHost"}))
        => (At(Export, "lock") ~> At(Export, "returned"))

\* CHANGELOG.md:177: non-streaming requests and attachment uploads are
\* cancelled by shutdown through their operation too.
ShutdownInterrupts ==
    \A r \in Requests \ Streaming :
        (At(r, "inHost") /\ At(Export, "lock")) ~> ~At(r, "inHost")
=============================================================================
