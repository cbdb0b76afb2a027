--------------------------- MODULE AttachmentCache ---------------------------
(***************************************************************************)
(* The attachment cache shared by all requests (internal/basispoints/      *)
(* attachments.go): an LRU of uploaded files and a single flight per key.  *)
(* A request uploads its images in order; the first to want a key leads    *)
(* the upload outside the cache's lock, later ones wait on its             *)
(* pendingAttachment.  The lock is never held across the upload, so each   *)
(* critical section of getOrUpload is one step.                            *)
(* Requests belong to the plugin generation they started in (service.go,   *)
(* Lifecycle).  The host's upload is external: it may take arbitrarily     *)
(* long and only an operation can be cancelled.                            *)
(***************************************************************************)
EXTENDS Naturals, Sequences, FiniteSets, SequencesExt

CONSTANTS
    Requests,
    Keys,        \* attachmentKey: endpoint, credential, media type and bytes
    Plans,       \* the plans a request may have: sequences of keys
    Operations,  \* whether operation_open may succeed, fail: of BOOLEAN
    MaxEntries,  \* maxAttachmentCacheEntries
    MaxUploads,  \* bound: uploads the host answers
    MaxLives     \* bound: plugin generations

ASSUME CacheAssumption ==
    /\ Plans \subseteq Seq(Keys) /\ Operations \subseteq BOOLEAN
    /\ MaxEntries \in Nat \ {0}
    /\ MaxUploads \in Nat /\ MaxLives \in Nat \ {0}

NoGen == 0
NoFile == [key |-> "none", n |-> 0]
Errors == {"plugin_stopped", "upstream_timeout", "attachment_transport"}
Results == Errors \cup {"none", "done"}

VARIABLES
    pc, plan, image,         \* per request: where, its images, the next one
    gen, operation,          \* its generation; its upload has an operation
    leader,                  \* whose pendingAttachment it waits on
    outcome,                 \* its own upload: [file, err] as published
    files, result,           \* file IDs it holds, how it ended
    entries, order, pending, \* attachmentCache; order's head is its front
    uploads,                 \* file IDs the host has given out
    life, cancelled, stopped

requests == <<pc, plan, image, gen, operation, leader, outcome, files, result>>
cache == <<entries, order, pending>>
lives == <<life, cancelled, stopped>>
vars == <<requests, cache, uploads, lives>>

Pending == [file |-> NoFile, err |-> "none"]

Init ==
    /\ pc = [r \in Requests |-> "idle"] /\ plan \in [Requests -> Plans]
    /\ image = [r \in Requests |-> 1] /\ gen = [r \in Requests |-> NoGen]
    /\ operation = [r \in Requests |-> FALSE]
    /\ leader = [r \in Requests |-> r] /\ outcome = [r \in Requests |-> Pending]
    /\ files = [r \in Requests |-> <<>>] /\ result = [r \in Requests |-> "none"]
    /\ entries = [k \in {} |-> NoFile] /\ order = <<>> /\ pending = [k \in {} |-> 0]
    /\ uploads = 0
    /\ life = 1 /\ cancelled = {} /\ stopped = FALSE

At(r, label) == pc[r] = label
Goto(r, label) == pc' = [pc EXCEPT ![r] = label]

\* Mutant: every image goes by the key of the request's first.
Key_first(r) == plan[r][1]

Key(r) == plan[r][image[r]]
Without(f, k) == [x \in DOMAIN f \ {k} |-> f[x]]
With(f, k, v) == [x \in DOMAIN f \cup {k} |-> IF x = k THEN v ELSE f[x]]
\* list.MoveToFront of the key's element, and where that is.
Place(k) == CHOOSE i \in DOMAIN order : order[i] = k
FrontOf(k) == <<order[Place(k)]>> \o RemoveAt(order, Place(k))

----------------------------------------------------------------------------
(* The plugin's generations, as in Lifecycle: a shutdown waits for its     *)
(* requests, except those stuck in a host call it cannot cancel.           *)

Working(g) == {r \in Requests : gen[r] = g /\ pc[r] # "ended"}
Stuck(r) ==
    \/ At(r, "upload") /\ ~operation[r]
    \/ At(r, "wait") /\ At(leader[r], "upload") /\ ~operation[leader[r]]

Shutdown ==
    /\ ~stopped /\ stopped' = TRUE /\ cancelled' = cancelled \cup {life}
    /\ UNCHANGED <<requests, cache, uploads, life>>

Rebuild ==
    /\ stopped /\ life < MaxLives
    /\ \A r \in Working(life) : Stuck(r)
    /\ stopped' = FALSE /\ life' = life + 1
    /\ UNCHANGED <<requests, cache, uploads, cancelled>>

----------------------------------------------------------------------------
(* uploadInputImages.                                                      *)

\* beginStream binds the request to the current generation.
Begin(r) ==
    /\ At(r, "idle") /\ ~stopped
    /\ gen' = [gen EXCEPT ![r] = life] /\ Goto(r, "next")
    /\ UNCHANGED <<plan, image, operation, leader, outcome, files, result, cache,
                   uploads, lives>>

PlanDone(r) ==
    /\ At(r, "next") /\ image[r] > Len(plan[r])
    /\ result' = [result EXCEPT ![r] = "done"] /\ Goto(r, "ended")
    /\ UNCHANGED <<plan, image, gen, operation, leader, outcome, files, cache,
                   uploads, lives>>

Wants(r) == At(r, "next") /\ image[r] <= Len(plan[r])

GotFile(r, f) ==
    /\ files' = [files EXCEPT ![r] = Append(@, f)]
    /\ image' = [image EXCEPT ![r] = @ + 1] /\ Goto(r, "next")

Failed(r, err) == result' = [result EXCEPT ![r] = err] /\ Goto(r, "ended")

\* getOrUpload: a hit moves the entry to the front.
Hit(r) ==
    /\ Wants(r) /\ Key(r) \in DOMAIN entries
    /\ GotFile(r, entries[Key(r)]) /\ order' = FrontOf(Key(r))
    /\ UNCHANGED <<plan, gen, operation, leader, outcome, result, entries, pending,
                   uploads, lives>>

\* Mutant: a request that finds a pending upload starts one of its own.
Joins_never(r) == FALSE

Joins(r) == Key(r) \in DOMAIN pending

Follow(r) ==
    /\ Wants(r) /\ Key(r) \notin DOMAIN entries /\ Joins(r)
    /\ leader' = [leader EXCEPT ![r] = pending[Key(r)]] /\ Goto(r, "wait")
    /\ UNCHANGED <<plan, image, gen, operation, outcome, files, result, cache,
                   uploads, lives>>

\* The leader's upload gets a guard, and an operation if the host gives one.
Lead(r) ==
    /\ Wants(r) /\ Key(r) \notin DOMAIN entries /\ ~Joins(r)
    /\ pending' = With(pending, Key(r), r)
    /\ \E o \in Operations : operation' = [operation EXCEPT ![r] = o]
    /\ outcome' = [outcome EXCEPT ![r] = Pending] /\ Goto(r, "upload")
    /\ UNCHANGED <<plan, image, gen, leader, files, result, entries, order, uploads,
                   lives>>

(* uploadImage under guardedDo: an abort outranks the host's answer.       *)

Cancelled(r) == gen[r] \in cancelled

Uploaded(r, file, err) ==
    /\ outcome' = [outcome EXCEPT ![r] = [file |-> file, err |-> err]]
    /\ Goto(r, "publish")
    /\ UNCHANGED <<plan, image, gen, operation, leader, files, result, cache, lives>>

HostUploads(r) ==
    /\ At(r, "upload") /\ uploads < MaxUploads
    /\ uploads' = uploads + 1
    /\ IF Cancelled(r) THEN Uploaded(r, NoFile, "plugin_stopped")
       ELSE Uploaded(r, [key |-> Key(r), n |-> uploads'], "none")

\* No file, or an answer that comes after the request's deadline.
HostFails(r) ==
    /\ At(r, "upload") /\ UNCHANGED uploads
    /\ IF Cancelled(r) THEN Uploaded(r, NoFile, "plugin_stopped")
       ELSE \E err \in {"attachment_transport", "upstream_timeout"} :
               Uploaded(r, NoFile, err)

\* Stopped or late: an operation is cancelled and the call returns.
GuardAborts(r) ==
    /\ At(r, "upload") /\ operation[r] /\ UNCHANGED uploads
    /\ Uploaded(r, NoFile,
                IF Cancelled(r) THEN "plugin_stopped" ELSE "upstream_timeout")

\* Mutant: the published entry is put in front without evicting another.
Evicting_never(o) == {}

Evicting(o) == IF Len(o) > MaxEntries THEN {o[Len(o)]} ELSE {}

Settled(r) == Without(pending, Key(r))

Caches(r) == outcome[r].err = "none"

\* Mutant: pending.done is not closed, only the leader goes on.
Woken_leader(r) == {r}

Woken(r) == {r} \cup {q \in Requests : At(q, "wait") /\ leader[q] = r}

\* The lock is taken again: settle, insert and evict, publish to the followers
\* (a pendingAttachment never changes once done, so each gets a copy).
Publish(r) ==
    /\ At(r, "publish")
    /\ pending' = Settled(r)
    /\ IF Caches(r)
       THEN LET o == <<Key(r)>> \o order
                out == Evicting(o)
            IN /\ order' = IF out = {} THEN o ELSE Front(o)
               /\ entries' = [k \in (DOMAIN entries \cup {Key(r)}) \ out |->
                                 IF k = Key(r) THEN outcome[r].file ELSE entries[k]]
       ELSE UNCHANGED <<entries, order>>
    /\ outcome' = [q \in Requests |-> IF q \in Woken(r) THEN outcome[r] ELSE outcome[q]]
    /\ pc' = [q \in Requests |-> IF q \in Woken(r) THEN "published" ELSE pc[q]]
    /\ UNCHANGED <<plan, image, gen, operation, leader, files, result, uploads, lives>>

\* getOrUpload returns to uploadInputImages.
Return(r) ==
    /\ At(r, "published")
    /\ IF outcome[r].err = "none"
       THEN GotFile(r, outcome[r].file) /\ UNCHANGED result
       ELSE Failed(r, outcome[r].err) /\ UNCHANGED <<image, files>>
    /\ UNCHANGED <<plan, gen, operation, leader, outcome, cache, uploads, lives>>

Step(r) == Begin(r) \/ PlanDone(r) \/ Hit(r) \/ Follow(r) \/ Lead(r)
           \/ GuardAborts(r) \/ Publish(r) \/ Return(r)
Host(r) == HostUploads(r) \/ HostFails(r)

Next == (\E r \in Requests : Step(r) \/ Host(r)) \/ Shutdown \/ Rebuild

(* Requests run and their deadlines pass (GuardAborts); the host owes an   *)
(* upload no answer.                                                       *)
Spec == Init /\ [][Next]_vars /\ \A r \in Requests : WF_vars(Step(r))

----------------------------------------------------------------------------
(* Properties.                                                             *)

\* The list and the map of the LRU name the same keys, each once and no more
\* than its capacity, and nothing cached is being uploaded again: an element
\* cannot linger in the list after its map entry was replaced
\* (attachments.go:41-79).
CacheConsistent ==
    /\ ToSet(order) = DOMAIN entries /\ IsInjective(order)
    /\ Len(order) <= MaxEntries /\ DOMAIN pending \cap DOMAIN entries = {}

\* The same image is never being uploaded twice at once: every uploading
\* request is the one its key's pendingAttachment names, every pending upload
\* is being carried out, and whoever waits, waits for the upload of its own
\* key, never for one that is over (attachments.go:49-64,
\* attachments_test.go:254-287).
PendingIsLed ==
    /\ \A k \in DOMAIN pending :
          pc[pending[k]] \in {"upload", "publish"} /\ Key(pending[k]) = k
    /\ \A r \in Requests : At(r, "upload") =>
          Key(r) \in DOMAIN pending /\ pending[Key(r)] = r
    /\ \A r \in Requests : At(r, "wait") =>
          Key(r) \in DOMAIN pending /\ pending[Key(r)] = leader[r]

\* Every file a request refers to was uploaded for that very image under that
\* very credential: no failure is handed out as a file and no file crosses
\* keys (attachments.go:143-152,65-77, attachments_test.go:225-252).
FilesMatch ==
    \A r \in Requests : \A i \in 1..Len(files[r]) : files[r][i].key = plan[r][i]

\* A request that waits for another's upload gets an answer, if that upload
\* can be cancelled when its time is over (attachments.go:49-53,76-77).
WaitersAnswered ==
    \A r \in Requests : (At(r, "wait") /\ operation[leader[r]]) ~> ~At(r, "wait")

\* service.go:27-29, CHANGELOG.md:177: generations are isolated, only a request
\* of a stopped generation ends as stopped.
GenerationIsolated ==
    \A r \in Requests : result[r] = "plugin_stopped" => gen[r] \in cancelled
=============================================================================
