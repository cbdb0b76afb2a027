-------------------------- MODULE Lifecycle_proofs --------------------------
(***************************************************************************)
(* What holds of Lifecycle for any number of requests, shutdowns and       *)
(* reconfigures: its types, that a generation is stopped for good, and     *)
(* that the host's table is dropped only when nobody uses it.              *)
(***************************************************************************)
EXTENDS Lifecycle, TLAPS

\* A shutdown between taking and releasing lifeMu, and from its mark on.
Holding == {"mark", "cancel", "wait", "unlock"}
Marked == {"cancel", "wait", "unlock"}

\* lifeMu belongs to the one shutdown under way; from its mark on the plugin is
\* stopped and the current generation is the one it took, and it waits for a
\* generation that it has cancelled (service.go:76-95).
StopInv ==
    \A t \in Stopping :
        /\ pc[t] \in Holding => lifeMu = t
        /\ pc[t] \in Marked => stopped /\ target[t] = life
        /\ pc[t] = "wait" => target[t] \in cancelled

\* A plugin that admits requests has a generation nobody cancelled.
Fresh == ~stopped => life \notin cancelled

\* A generation whose wait saw everyone leave is cancelled, so that nobody is
\* admitted to it any more (service.go:63-74,87-93).
GenerationInv ==
    Fresh /\ clean \subseteq cancelled /\ CleanStopIsQuiet

\* Who is in the host holds callback (main.go:275-287).
HostInv ==
    /\ \A r \in Requests : At(r, "inHost") => r \in cbReaders
    /\ HostTableUnused

Inv == TypeOK /\ StopInv /\ GenerationInv /\ HostInv

----------------------------------------------------------------------------
\* The threads are of one kind each, and each has a label to move from.
LEMMA Kinds ==
    /\ Requests \subseteq Threads /\ Stopping \subseteq Threads
    /\ Configurers \subseteq Threads /\ Export \in Stopping
    /\ Requests \cap Stopping = {} /\ Requests \cap Configurers = {}
    /\ Stopping \cap Configurers = {} /\ "free" \notin Stopping
BY LifecycleAssumption DEF LifecycleAssumption, Threads, Stopping

LEMMA InvInit == Init => Inv
<1> SUFFICES ASSUME Init PROVE Inv
  OBVIOUS
<1>1. TypeOK
  <2>1. pc \in [Threads -> Labels] /\ muWriter \in Locks /\ cbWriter \in Locks
    BY DEF Init, Labels, Locks
  <2>2. gen \in [Requests -> 0..life] /\ target \in [Stopping -> 0..life]
    BY DEF Init, NoGen
  <2>3. guard \in [Requests -> {"watch", "cancelled"}]
        /\ result \in [Requests -> {"none", "plugin_stopped", "upstream_timeout", "answered"}]
    BY DEF Init
  <2>4. life \in Nat \ {0} /\ cancelled \subseteq 1..life /\ clean \subseteq 1..life
    BY DEF Init
  <2>5. QED
    BY <2>1, <2>2, <2>3, <2>4 DEF Init, TypeOK
<1>2. StopInv
  BY Kinds DEF Init, StopInv, Holding, Marked
<1>3. GenerationInv
  BY DEF Init, GenerationInv, Fresh, CleanStopIsQuiet
<1>4. HostInv
  BY Kinds DEF Init, HostInv, HostTableUnused, At
<1>5. QED
  BY <1>1, <1>2, <1>3, <1>4 DEF Inv

----------------------------------------------------------------------------
(* Types.                                                                  *)

LEMMA RequestType ==
    ASSUME TypeOK, NEW r \in Requests, Request(r) PROVE TypeOK'
<1> USE Kinds DEF TypeOK, Goto, plugin, lifecycle, requests, stops, locks, Locks,
       Labels
<1>1. CASE CallEnters(r)
  BY <1>1 DEF CallEnters
<1>2. CASE BeginStream(r)
  <2>1. life \in 0..life /\ r \in Threads
    OBVIOUS
  <2>2. pc' \in [Threads -> Labels]
    BY <1>2, <2>1 DEF BeginStream
  <2>3. /\ gen' \in [Requests -> 0..life]
        /\ working' \in [Requests -> BOOLEAN]
    <3>1. gen' = gen \/ gen' = [gen EXCEPT ![r] = life]
      BY <1>2 DEF BeginStream
    <3>2. working' = working \/ working' = [working EXCEPT ![r] = TRUE]
      BY <1>2 DEF BeginStream
    <3>3. gen' \in [Requests -> 0..life]
      BY <2>1, <3>1
    <3>4. working' \in [Requests -> BOOLEAN]
      BY <3>2
    <3>5. QED
      BY <3>3, <3>4
  <2>4. result' \in [Requests -> {"none", "plugin_stopped", "upstream_timeout", "answered"}]
    BY <1>2, <2>1 DEF BeginStream
  <2>5. UNCHANGED <<locks, plugin, stopped, life, lifeMu, cancelled, guard, late, stops>>
    BY <1>2 DEF BeginStream
  <2>6. QED
    BY <2>2, <2>3, <2>4, <2>5
<1>3. CASE Detach(r)
  BY <1>3 DEF Detach
<1>4. CASE EnterHost(r)
  BY <1>4 DEF EnterHost, HoldsCallback
<1>5. CASE LeaveHost(r)
  BY <1>5 DEF LeaveHost
<1>6. CASE GuardCancels(r)
  BY <1>6 DEF GuardCancels
<1>7. CASE Deadline(r)
  BY <1>7 DEF Deadline
<1>8. CASE Finish(r)
  BY <1>8 DEF Finish
<1>9. CASE CallLeaves(r)
  BY <1>9 DEF CallLeaves
<1>10. QED
  BY <1>1, <1>2, <1>3, <1>4, <1>5, <1>6, <1>7, <1>8, <1>9 DEF Request

\* A shutdown cancels the generation it took, which there is (StopInv).
LEMMA StopType ==
    ASSUME TypeOK, StopInv, NEW t \in Stopping, Stop(t) PROVE TypeOK'
<1> USE Kinds DEF TypeOK, Goto, plugin, lifecycle, requests, stops, locks, Locks,
       Labels
<1>1. CASE CallEnters(t)
  BY <1>1 DEF CallEnters
<1>2. CASE StopLocks(t)
  BY <1>2 DEF StopLocks
<1>3. CASE StopMarks(t)
  BY <1>3 DEF StopMarks
<1>4. CASE StopCancels(t)
  <2>1. target[t] \in 1..life
    BY <1>4 DEF StopCancels, At, StopInv, Marked
  <2>2. QED
    BY <1>4, <2>1 DEF StopCancels
<1>5. CASE StopSeesAll(t)
  <2>1. target[t] \in 1..life
    BY <1>5 DEF StopSeesAll, At, StopInv, Marked
  <2>2. QED
    BY <1>5, <2>1 DEF StopSeesAll
<1>6. CASE StopGivesUp(t)
  BY <1>6 DEF StopGivesUp
<1>7. CASE StopUnlocks(t)
  BY <1>7 DEF StopUnlocks
<1>8. CASE CallLeaves(t)
  BY <1>8 DEF CallLeaves
<1>9. QED
  BY <1>1, <1>2, <1>3, <1>4, <1>5, <1>6, <1>7, <1>8 DEF Stop

LEMMA OtherType ==
    /\ \A t \in Configurers :
          TypeOK /\ (CallEnters(t) \/ Configure(t) \/ CallLeaves(t)) => TypeOK'
    /\ TypeOK /\ Unload => TypeOK'
<1> USE Kinds DEF TypeOK, Goto, plugin, lifecycle, requests, stops, locks, Locks,
       Labels
<1>1. ASSUME NEW t \in Configurers, TypeOK, CallEnters(t) \/ CallLeaves(t) PROVE TypeOK'
  <2>1. t \in Threads
    OBVIOUS
  <2>2. CASE CallEnters(t)
    BY <1>1, <2>1, <2>2 DEF CallEnters
  <2>3. CASE CallLeaves(t)
    BY <1>1, <2>1, <2>3 DEF CallLeaves
  <2>4. QED
    BY <1>1, <2>2, <2>3
<1>2. ASSUME NEW t \in Configurers, TypeOK, Configure(t) PROVE TypeOK'
  <2>1. life' \in Nat \ {0} /\ life <= life'
    BY <1>2 DEF Configure, Rebuilt
  <2>2. 1..life \subseteq 1..life' /\ 0..life \subseteq 0..life'
    BY <1>2, <2>1
  <2>3. QED
    BY <1>2, <2>1, <2>2 DEF Configure
<1>3. ASSUME TypeOK, Unload PROVE TypeOK'
  <2>1. CASE ExportCalled
    BY <1>3, <2>1 DEF ExportCalled
  <2>2. CASE ExportLocks
    BY <1>3, <2>2 DEF ExportLocks
  <2>3. CASE ExportClears
    BY <1>3, <2>3 DEF ExportClears
  <2>4. CASE ExportUnhosts
    BY <1>3, <2>4 DEF ExportUnhosts
  <2>5. QED
    BY <1>3, <2>1, <2>2, <2>3, <2>4 DEF Unload
<1>4. QED
  BY <1>1, <1>2, <1>3

----------------------------------------------------------------------------
(* The invariant.                                                          *)

\* Requests leave the shutdowns alone.
LEMMA RequestStop ==
    ASSUME Inv, NEW r \in Requests, Request(r) PROVE StopInv'
<1>1. \A t \in Stopping : pc'[t] = pc[t]
  BY Kinds DEF Inv, TypeOK, Request, CallEnters, BeginStream, Detach, EnterHost,
               LeaveHost, GuardCancels, Deadline, Finish, CallLeaves, Goto
<1>2. UNCHANGED <<stopped, life, lifeMu, cancelled, target>>
  BY DEF Request, CallEnters, BeginStream, Detach, EnterHost, LeaveHost, GuardCancels,
         Deadline, Finish, CallLeaves, lifecycle, stops
<1>3. QED
  BY <1>1, <1>2 DEF Inv, StopInv

\* A request is admitted only to a generation that is not cancelled.
LEMMA RequestGeneration ==
    ASSUME Inv, NEW r \in Requests, Request(r) PROVE GenerationInv'
<1>1. UNCHANGED <<stopped, life, cancelled, clean>>
  BY DEF Request, CallEnters, BeginStream, Detach, EnterHost, LeaveHost, GuardCancels,
         Deadline, Finish, CallLeaves, lifecycle, stops
<1>2. CASE BeginStream(r)
  <2>1. CASE ~stopped
    <3>1. life \notin clean
      BY <2>1 DEF Inv, GenerationInv, Fresh
    <3>2. \A q \in Requests : q # r => working'[q] = working[q] /\ gen'[q] = gen[q]
      BY <1>2, <2>1 DEF BeginStream, Admits, Inv, TypeOK
    <3>3. gen'[r] = life
      BY <1>2, <2>1 DEF BeginStream, Admits, Inv, TypeOK
    <3>4. QED
      BY <1>1, <3>1, <3>2, <3>3
         DEF Inv, GenerationInv, Fresh, CleanStopIsQuiet, Members
  <2>2. CASE stopped
    BY <1>1, <1>2, <2>2 DEF BeginStream, Admits, Inv, GenerationInv, Fresh,
                            CleanStopIsQuiet, Members
  <2>3. QED
    BY <2>1, <2>2 DEF Inv, TypeOK
<1>3. CASE ~BeginStream(r)
  <2>1. \A q \in Requests : gen'[q] = gen[q] /\ (working'[q] => working[q])
    BY <1>3 DEF Request, CallEnters, Detach, EnterHost, LeaveHost, GuardCancels,
                Deadline, Finish, CallLeaves, lifecycle, requests, Inv, TypeOK
  <2>2. QED
    BY <1>1, <2>1 DEF Inv, GenerationInv, Fresh, CleanStopIsQuiet, Members
<1>4. QED
  BY <1>2, <1>3

LEMMA RequestHost ==
    ASSUME Inv, NEW r \in Requests, Request(r) PROVE HostInv'
<1> USE Kinds DEF HostInv, HostTableUnused, At
<1>1. CASE EnterHost(r)
  BY <1>1 DEF EnterHost, HoldsCallback, Goto, plugin, Inv, TypeOK
<1>2. CASE LeaveHost(r)
  BY <1>2 DEF LeaveHost, Goto, plugin, Inv, TypeOK
<1>3. CASE ~EnterHost(r) /\ ~LeaveHost(r)
  <2>1. \A q \in Requests : pc'[q] = "inHost" => pc[q] = "inHost"
    BY <1>3 DEF Request, CallEnters, BeginStream, Detach, GuardCancels, Deadline,
                Finish, CallLeaves, Goto, Inv, TypeOK
  <2>2. UNCHANGED <<cbReaders, hostReady>>
    BY <1>3 DEF Request, CallEnters, BeginStream, Detach, GuardCancels, Deadline,
                Finish, CallLeaves, locks, plugin
  <2>3. QED
    BY <2>1, <2>2 DEF Inv
<1>4. QED
  BY <1>1, <1>2, <1>3

\* Two shutdowns never hold lifeMu together, and while one does nothing else
\* moves stopped or the generation.
LEMMA StopStop ==
    ASSUME Inv, NEW t \in Stopping, Stop(t) PROVE StopInv'
<1> USE Kinds DEF Inv, TypeOK, StopInv, Holding, Marked, At, Goto
<1>1. \A u \in Stopping : u # t => pc'[u] = pc[u]
  BY DEF Stop, CallEnters, StopLocks, StopMarks, StopCancels, StopSeesAll, StopGivesUp,
         StopUnlocks, CallLeaves
<1>2. CASE CallEnters(t) \/ CallLeaves(t)
  BY <1>1, <1>2 DEF CallEnters, CallLeaves, lifecycle, stops
<1>3. CASE StopLocks(t)
  BY <1>1, <1>3 DEF StopLocks, stops
<1>4. CASE StopMarks(t)
  BY <1>1, <1>4 DEF StopMarks
<1>5. CASE StopCancels(t)
  BY <1>1, <1>5 DEF StopCancels, stops
<1>6. CASE StopSeesAll(t)
  BY <1>1, <1>6 DEF StopSeesAll, lifecycle
<1>7. CASE StopGivesUp(t)
  BY <1>1, <1>7 DEF StopGivesUp, lifecycle, stops
<1>8. CASE StopUnlocks(t)
  BY <1>1, <1>8 DEF StopUnlocks, stops
<1>9. QED
  BY <1>2, <1>3, <1>4, <1>5, <1>6, <1>7, <1>8 DEF Stop

LEMMA StopGeneration ==
    ASSUME Inv, NEW t \in Stopping, Stop(t) PROVE GenerationInv'
<1> USE DEF Inv, GenerationInv, Fresh, CleanStopIsQuiet, Members
<1>1. UNCHANGED <<life, working, gen>>
  BY DEF Stop, CallEnters, StopLocks, StopMarks, StopCancels, StopSeesAll, StopGivesUp,
         StopUnlocks, CallLeaves, lifecycle, requests
<1>2. CASE StopMarks(t)
  BY <1>1, <1>2 DEF StopMarks
<1>3. CASE StopCancels(t)
  <2>1. stopped
    BY <1>3 DEF StopCancels, At, StopInv, Marked
  <2>2. QED
    BY <1>1, <1>3, <2>1 DEF StopCancels, stops
<1>4. CASE StopSeesAll(t)
  <2>1. target[t] \in cancelled /\ Members(target[t]) = {}
    BY <1>4 DEF StopSeesAll, At, StopInv
  <2>2. clean' = clean \cup {target[t]} /\ UNCHANGED <<stopped, cancelled>>
    BY <1>4 DEF StopSeesAll, lifecycle
  <2>3. QED
    BY <1>1, <2>1, <2>2
<1>5. CASE CallEnters(t) \/ StopLocks(t) \/ StopGivesUp(t) \/ StopUnlocks(t) \/ CallLeaves(t)
  <2>1. UNCHANGED <<stopped, cancelled, clean>>
    BY <1>5 DEF CallEnters, StopLocks, StopGivesUp, StopUnlocks, CallLeaves, lifecycle,
                stops
  <2>2. QED
    BY <1>1, <2>1
<1>6. QED
  BY <1>2, <1>3, <1>4, <1>5 DEF Stop

\* Neither a shutdown nor a configure calls the host.
LEMMA OthersHost ==
    ASSUME Inv, UNCHANGED <<cbReaders, hostReady>>,
           \A q \in Requests : pc'[q] = pc[q]
    PROVE  HostInv'
BY DEF Inv, HostInv, HostTableUnused, At

LEMMA StopSteps ==
    ASSUME Inv, NEW t \in Stopping, Stop(t) PROVE Inv'
<1>1. TypeOK'
  BY StopType DEF Inv
<1>2. UNCHANGED <<cbReaders, hostReady>> /\ \A q \in Requests : pc'[q] = pc[q]
  BY Kinds DEF Inv, TypeOK, Goto, Stop, CallEnters, StopLocks, StopMarks, StopCancels,
               StopSeesAll, StopGivesUp, StopUnlocks, CallLeaves, locks, plugin
<1>3. HostInv'
  BY <1>2, OthersHost
<1>4. QED
  BY <1>1, <1>3, StopStop, StopGeneration DEF Inv

\* A configure finds lifeMu free: no shutdown is under way.
LEMMA ConfigureSteps ==
    ASSUME Inv, NEW t \in Configurers, CallEnters(t) \/ Configure(t) \/ CallLeaves(t)
    PROVE  Inv'
<1>1. TypeOK'
  BY OtherType DEF Inv
<1>2. UNCHANGED <<cbReaders, hostReady, lifeMu, target, cancelled, clean, working, gen>>
  BY DEF CallEnters, Configure, CallLeaves, lifecycle, requests, stops, locks, plugin
<1>3. \A q \in Requests \cup Stopping : pc'[q] = pc[q]
  BY Kinds DEF Inv, TypeOK, Goto, CallEnters, Configure, CallLeaves
<1>4. HostInv'
  BY <1>2, <1>3, OthersHost
<1>5. CASE Configure(t)
  <2>1. \A u \in Stopping : pc[u] \notin Holding
    BY <1>5, Kinds DEF Configure, MayConfigure, Inv, StopInv
  <2>2. StopInv'
    BY <1>3, <2>1 DEF StopInv, Holding, Marked
  <2>3. life' \notin cancelled
    BY <1>5 DEF Configure, Rebuilt, Inv, GenerationInv, Fresh, TypeOK
  <2>4. GenerationInv'
    BY <1>2, <2>3 DEF Inv, GenerationInv, Fresh, CleanStopIsQuiet, Members
  <2>5. QED
    BY <1>1, <1>4, <2>2, <2>4 DEF Inv
<1>6. CASE CallEnters(t) \/ CallLeaves(t)
  <2>1. UNCHANGED <<stopped, life>>
    BY <1>6 DEF CallEnters, CallLeaves, lifecycle
  <2>2. StopInv'
    BY <1>2, <1>3, <2>1 DEF Inv, StopInv
  <2>3. GenerationInv'
    BY <1>2, <2>1 DEF Inv, GenerationInv, Fresh, CleanStopIsQuiet, Members
  <2>4. QED
    BY <1>1, <1>4, <2>2, <2>3 DEF Inv
<1>7. QED
  BY <1>5, <1>6

\* The export drops the table once callback has no reader.
LEMMA UnloadSteps ==
    ASSUME Inv, Unload PROVE Inv'
<1>1. TypeOK'
  BY OtherType DEF Inv
<1>2. UNCHANGED <<lifecycle, requests, stops, cbReaders>>
  BY DEF Unload, ExportCalled, ExportLocks, ExportClears, ExportUnhosts
<1>3. \A t \in Threads : t # Export => pc'[t] = pc[t]
  BY DEF Unload, ExportCalled, ExportLocks, ExportClears, ExportUnhosts, Goto, Inv, TypeOK
<1>4. pc'[Export] \in {"lock", "handle", "unhost", "returned"}
  BY Kinds DEF Unload, ExportCalled, ExportLocks, ExportClears, ExportUnhosts, Goto, Inv,
               TypeOK
<1>5. StopInv'
  BY <1>2, <1>3, <1>4, Kinds DEF Inv, StopInv, Holding, Marked, lifecycle, stops
<1>6. GenerationInv'
  BY <1>2 DEF Inv, GenerationInv, Fresh, CleanStopIsQuiet, Members, lifecycle,
              requests, stops
<1>7. \A q \in Requests : pc'[q] = pc[q]
  BY <1>3, Kinds
<1>8. hostReady' = hostReady \/ cbReaders = {}
  BY DEF Unload, ExportCalled, ExportLocks, ExportClears, ExportUnhosts, plugin
<1>9. HostInv'
  BY <1>2, <1>7, <1>8 DEF Inv, HostInv, HostTableUnused, At
<1>10. QED
  BY <1>1, <1>5, <1>6, <1>9 DEF Inv

LEMMA InvNext == Inv /\ [Next]_vars => Inv'
<1> SUFFICES ASSUME Inv, [Next]_vars PROVE Inv'
  OBVIOUS
<1>1. CASE \E r \in Requests : Request(r)
  <2>1. PICK r \in Requests : Request(r)
    BY <1>1
  <2>2. TypeOK'
    BY <2>1, RequestType DEF Inv
  <2>3. QED
    BY <2>1, <2>2, RequestStop, RequestGeneration, RequestHost DEF Inv
<1>2. CASE \E t \in Stopping : Stop(t)
  BY <1>2, StopSteps
<1>3. CASE \E t \in Configurers : CallEnters(t) \/ Configure(t) \/ CallLeaves(t)
  BY <1>3, ConfigureSteps
<1>4. CASE Unload
  BY <1>4, UnloadSteps
<1>5. CASE UNCHANGED vars
  BY <1>5 DEF vars, locks, plugin, lifecycle, requests, stops, Inv, TypeOK, StopInv,
              GenerationInv, Fresh, CleanStopIsQuiet, Members, HostInv,
              HostTableUnused, At
<1>6. QED
  BY <1>1, <1>2, <1>3, <1>4, <1>5 DEF Next

LEMMA SpecInv == Spec => []Inv
  BY InvInit, InvNext, PTL DEF Spec

----------------------------------------------------------------------------
\* Every variable of the plugin stays in its range (service.go:20-40).
THEOREM LifecycleTypes == Spec => []TypeOK
  BY SpecInv, PTL DEF Inv

\* Whoever stops and reconfigures, a plugin that admits requests admits them
\* to a generation nobody has cancelled, and while a shutdown waits nothing
\* is admitted at all (service.go:63-95,163-170).
THEOREM StopsForGood == Spec => []AdmittingIsLive
<1>1. Inv => AdmittingIsLive
  BY DEF Inv, GenerationInv, Fresh, StopInv, AdmittingIsLive, Marked
<1>2. QED
  BY <1>1, SpecInv, PTL

\* Once a shutdown has seen its generation leave, no round trip is ever
\* counted in that generation again (service.go:63-74,87-93).
THEOREM QuietForGood == Spec => []CleanStopIsQuiet
<1>1. Inv => CleanStopIsQuiet
  BY DEF Inv, GenerationInv
<1>2. QED
  BY <1>1, SpecInv, PTL

\* No call is in the host when the unloading plugin has dropped the host's
\* table (main.go:208-219,275-287).
THEOREM HostTableSafe == Spec => []HostTableUnused
<1>1. Inv => HostTableUnused
  BY DEF Inv, HostInv
<1>2. QED
  BY <1>1, SpecInv, PTL
=============================================================================
