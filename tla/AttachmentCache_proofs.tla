----------------------- MODULE AttachmentCache_proofs -----------------------
(***************************************************************************)
(* What holds of AttachmentCache for any requests, images, generations and *)
(* capacity: one upload per image at a time, whose leader is at work, no    *)
(* file that belongs to another image, and an LRU whose list and map agree. *)
(***************************************************************************)
EXTENDS AttachmentCache, SequenceTheorems, TLAPS

Labels == {"idle", "next", "wait", "upload", "publish", "published", "ended"}
Leading(r) == pc[r] \in {"upload", "publish"}
File == [key : Keys, n : Nat]

\* The types the argument needs; a request that wants a file has an image left.
ControlInv ==
    /\ pc \in [Requests -> Labels] /\ plan \in [Requests -> Seq(Keys)]
    /\ image \in [Requests -> Nat \ {0}] /\ leader \in [Requests -> Requests]
    /\ outcome \in [Requests -> [file : File \cup {NoFile}, err : Errors \cup {"none"}]]
    /\ files \in [Requests -> Seq(File)] /\ uploads \in Nat
    /\ \A r \in Requests : pc[r] \in {"wait", "upload", "publish", "published"} =>
          image[r] <= Len(plan[r])

\* A leader is the one its image's pendingAttachment names (attachments.go:54-59).
LeadInv ==
    /\ PendingIsLed
    /\ \A k \in DOMAIN pending : pending[k] \in Requests
    /\ \A r \in Requests :
          Leading(r) => Key(r) \in DOMAIN pending /\ pending[Key(r)] = r

\* Cached files and published answers belong to their image, and a request
\* holds one file for each image it is past (attachments.go:62-79).
FileInv ==
    /\ \A k \in DOMAIN entries : entries[k] \in File /\ entries[k].key = k
    /\ \A r \in Requests :
          pc[r] \in {"publish", "published"} /\ outcome[r].err = "none" =>
              outcome[r].file \in File /\ outcome[r].file.key = Key(r)
    /\ \A r \in Requests : Len(files[r]) = image[r] - 1
    /\ FilesMatch

Inv == ControlInv /\ LeadInv /\ FileInv

----------------------------------------------------------------------------
LEMMA InvInit == Init => Inv
<1> SUFFICES ASSUME Init PROVE Inv
  OBVIOUS
<1>1. ControlInv
  <2>1. plan \in [Requests -> Seq(Keys)]
    BY CacheAssumption DEF Init, CacheAssumption
  <2>2. outcome \in [Requests -> [file : File \cup {NoFile}, err : Errors \cup {"none"}]]
    BY DEF Init, Pending
  <2>3. QED
    BY <2>1, <2>2 DEF Init, ControlInv, Labels
<1>2. LeadInv
  BY DEF Init, LeadInv, PendingIsLed, Leading, At
<1>3. FileInv
  BY DEF Init, FileInv, FilesMatch
<1>4. QED
  BY <1>1, <1>2, <1>3 DEF Inv

\* While it wants a file, a request's key is one of the keys.
LEMMA KeyInKeys ==
    ASSUME ControlInv, NEW r \in Requests, image[r] <= Len(plan[r])
    PROVE  Key(r) \in Keys
BY DEF ControlInv, Key

\* A request takes the file of its image and turns to the next.
LEMMA Takes ==
    ASSUME Inv, NEW r \in Requests, NEW f \in File, image[r] <= Len(plan[r]),
           f.key = Key(r), GotFile(r, f), UNCHANGED plan
    PROVE  /\ files' \in [Requests -> Seq(File)] /\ image' \in [Requests -> Nat \ {0}]
           /\ \A q \in Requests : Len(files'[q]) = image'[q] - 1
           /\ FilesMatch'
<1>1. files[r] \in Seq(File) /\ Len(files[r]) = image[r] - 1 /\ image[r] \in Nat \ {0}
  BY DEF Inv, ControlInv, FileInv
<1>2. files' = [files EXCEPT ![r] = Append(files[r], f)]
      /\ image' = [image EXCEPT ![r] = image[r] + 1]
  BY DEF GotFile
<1>3. files'[r] = Append(files[r], f) /\ image'[r] = image[r] + 1
      /\ \A q \in Requests : q # r => files'[q] = files[q] /\ image'[q] = image[q]
  BY <1>2 DEF Inv, ControlInv
<1>4. files' \in [Requests -> Seq(File)] /\ image' \in [Requests -> Nat \ {0}]
  BY <1>1, <1>2 DEF Inv, ControlInv
<1>5. Len(files'[r]) = image'[r] - 1
  BY <1>1, <1>3
<1>6. ASSUME NEW i \in 1..Len(files'[r]) PROVE files'[r][i].key = plan'[r][i]
  <2>1. CASE i = image[r]
    BY <1>1, <1>3, <2>1 DEF Key
  <2>2. CASE i # image[r]
    <3>1. i \in 1..Len(files[r]) /\ files'[r][i] = files[r][i]
      BY <1>1, <1>3, <1>5, <1>6, <2>2
    <3>2. QED
      BY <3>1 DEF Inv, FileInv, FilesMatch
  <2>3. QED
    BY <2>1, <2>2
<1>7. ASSUME NEW q \in Requests, q # r, NEW i \in 1..Len(files'[q])
      PROVE files'[q][i].key = plan'[q][i]
  BY <1>3, <1>7 DEF Inv, FileInv, FilesMatch
<1>8. FilesMatch'
  BY <1>6, <1>7 DEF FilesMatch
<1>9. QED
  BY <1>3, <1>4, <1>5, <1>8 DEF Inv, FileInv

----------------------------------------------------------------------------
(* One lemma per kind of step.                                             *)

LEMMA BeginOrDone ==
    ASSUME Inv, NEW r \in Requests, Begin(r) \/ PlanDone(r) PROVE Inv'
<1>1. pc[r] \in {"idle", "next"} /\ pc' \in [Requests -> Labels]
      /\ pc'[r] \in {"next", "ended"} /\ \A q \in Requests : q # r => pc'[q] = pc[q]
  BY DEF Begin, PlanDone, At, Goto, Inv, ControlInv, Labels
<1>2. UNCHANGED <<plan, image, leader, outcome, files, uploads, entries, pending>>
  BY DEF Begin, PlanDone, cache
<1>3. ControlInv'
  BY <1>1, <1>2 DEF Inv, ControlInv
<1>4. LeadInv'
  BY <1>1, <1>2 DEF Inv, LeadInv, PendingIsLed, Leading, Key, At
<1>5. FileInv'
  BY <1>1, <1>2 DEF Inv, FileInv, FilesMatch, Key
<1>6. QED
  BY <1>3, <1>4, <1>5 DEF Inv

LEMMA HitSteps ==
    ASSUME Inv, NEW r \in Requests, Hit(r) PROVE Inv'
<1>1. pc[r] = "next" /\ image[r] <= Len(plan[r]) /\ Key(r) \in DOMAIN entries
      /\ GotFile(r, entries[Key(r)])
  BY DEF Hit, Wants, At
<1>2. UNCHANGED <<plan, leader, outcome, uploads, entries, pending>>
  BY DEF Hit
<1>3. entries[Key(r)] \in File /\ entries[Key(r)].key = Key(r)
  BY <1>1 DEF Inv, FileInv
<1>4. /\ files' \in [Requests -> Seq(File)] /\ image' \in [Requests -> Nat \ {0}]
      /\ \A q \in Requests : Len(files'[q]) = image'[q] - 1
      /\ FilesMatch'
  BY <1>1, <1>2, <1>3, Takes
<1>5. pc' = pc /\ \A q \in Requests : q # r => image'[q] = image[q]
  BY <1>1 DEF GotFile, Goto, Inv, ControlInv
<1>6. ControlInv'
  BY <1>1, <1>2, <1>4, <1>5 DEF Inv, ControlInv
<1>7. LeadInv'
  BY <1>1, <1>2, <1>5 DEF Inv, LeadInv, PendingIsLed, Leading, Key, At
<1>8. FileInv'
  BY <1>1, <1>2, <1>4, <1>5 DEF Inv, FileInv, Key
<1>9. QED
  BY <1>6, <1>7, <1>8 DEF Inv

LEMMA FollowSteps ==
    ASSUME Inv, NEW r \in Requests, Follow(r) PROVE Inv'
<1>1. pc[r] = "next" /\ image[r] <= Len(plan[r]) /\ Key(r) \in DOMAIN pending
  BY DEF Follow, Wants, Joins, At
<1>2. UNCHANGED <<plan, image, outcome, files, uploads, entries, pending>>
  BY DEF Follow, cache
<1>3. pc' \in [Requests -> Labels] /\ pc'[r] = "wait"
      /\ \A q \in Requests : q # r => pc'[q] = pc[q]
  BY DEF Follow, Goto, Inv, ControlInv, Labels
<1>4. leader' \in [Requests -> Requests] /\ leader'[r] = pending[Key(r)]
      /\ \A q \in Requests : q # r => leader'[q] = leader[q]
  BY <1>1 DEF Follow, Inv, ControlInv, LeadInv
<1>5. ControlInv'
  BY <1>1, <1>2, <1>3, <1>4 DEF Inv, ControlInv
<1>6. LeadInv'
  BY <1>1, <1>2, <1>3, <1>4 DEF Inv, LeadInv, PendingIsLed, Leading, Key, At
<1>7. FileInv'
  BY <1>1, <1>2, <1>3 DEF Inv, FileInv, FilesMatch, Key
<1>8. QED
  BY <1>5, <1>6, <1>7 DEF Inv

LEMMA LeadSteps ==
    ASSUME Inv, NEW r \in Requests, Lead(r) PROVE Inv'
<1>1. pc[r] = "next" /\ image[r] <= Len(plan[r]) /\ Key(r) \notin DOMAIN pending
  BY DEF Lead, Wants, Joins, At
<1>2. UNCHANGED <<plan, image, leader, files, uploads, entries>>
  BY DEF Lead
<1>3. pc' \in [Requests -> Labels] /\ pc'[r] = "upload"
      /\ \A q \in Requests : q # r => pc'[q] = pc[q]
  BY DEF Lead, Goto, Inv, ControlInv, Labels
<1>4. /\ outcome' \in [Requests -> [file : File \cup {NoFile}, err : Errors \cup {"none"}]]
      /\ \A q \in Requests : q # r => outcome'[q] = outcome[q]
  BY DEF Lead, Pending, Inv, ControlInv
<1>5. /\ DOMAIN pending' = DOMAIN pending \cup {Key(r)} /\ pending'[Key(r)] = r
      /\ \A k \in DOMAIN pending : pending'[k] = pending[k]
  BY <1>1 DEF Lead, With
<1>6. ControlInv'
  BY <1>1, <1>2, <1>3, <1>4 DEF Inv, ControlInv
<1>7. LeadInv'
  <2>1. PendingIsLed'
    <3>1. \A q \in Requests : Key(q)' = Key(q)
      BY <1>2 DEF Key
    <3>2. (\A k \in DOMAIN pending : pc[pending[k]] \in {"upload", "publish"} /\ Key(pending[k]) = k)'
      BY <1>1, <1>2, <1>3, <1>5 DEF Inv, LeadInv, PendingIsLed, Key
    <3>3. \A q \in Requests : pc'[q] = "upload" =>
             Key(q) \in DOMAIN pending' /\ pending'[Key(q)] = q
      BY <1>3, <1>5 DEF Inv, LeadInv, PendingIsLed, At
    <3>4. \A q \in Requests : pc'[q] = "wait" =>
             Key(q) \in DOMAIN pending' /\ pending'[Key(q)] = leader[q]
      BY <1>3, <1>5 DEF Inv, LeadInv, PendingIsLed, At
    <3>5. QED
      BY <1>2, <3>1, <3>2, <3>3, <3>4 DEF PendingIsLed, At
  <2>2. \A k \in DOMAIN pending' : pending'[k] \in Requests
    BY <1>5 DEF Inv, LeadInv
  <2>3. \A q \in Requests : Leading(q)' => Key(q)' \in DOMAIN pending' /\ pending'[Key(q)'] = q
    BY <1>1, <1>2, <1>3, <1>5 DEF Inv, LeadInv, Leading, Key, At
  <2>4. QED
    BY <2>1, <2>2, <2>3 DEF LeadInv
<1>8. FileInv'
  BY <1>1, <1>2, <1>3, <1>4 DEF Inv, FileInv, FilesMatch, Key
<1>9. QED
  BY <1>6, <1>7, <1>8 DEF Inv

\* The upload ends with a file of the leader's image or without one.
LEMMA UploadSteps ==
    ASSUME Inv, NEW r \in Requests, Host(r) \/ GuardAborts(r) PROVE Inv'
<1>1. pc[r] = "upload" /\ image[r] <= Len(plan[r])
  BY DEF Host, HostUploads, HostFails, GuardAborts, At, Inv, ControlInv
<1>2. uploads' \in Nat
  BY DEF Host, HostUploads, HostFails, GuardAborts, Inv, ControlInv
<1>3. PICK file, err :
         /\ Uploaded(r, file, err)
         /\ err \in Errors \cup {"none"}
         /\ file \in File \cup {NoFile}
         /\ err = "none" => file \in File /\ file.key = Key(r)
  <2>1. CASE HostUploads(r) /\ ~Cancelled(r)
    <3>1. [key |-> Key(r), n |-> uploads'] \in File
      BY <1>1, <1>2, KeyInKeys DEF Inv, File
    <3>2. QED
      BY <2>1, <3>1 DEF HostUploads
  <2>2. CASE HostUploads(r) /\ Cancelled(r)
    BY <2>2 DEF HostUploads, Errors
  <2>3. CASE HostFails(r)
    BY <2>3 DEF HostFails, Errors
  <2>4. CASE GuardAborts(r)
    BY <2>4 DEF GuardAborts, Errors
  <2>5. QED
    BY <2>1, <2>2, <2>3, <2>4 DEF Host
<1>4. UNCHANGED <<plan, image, leader, files, entries, pending>>
  BY <1>3 DEF Uploaded, cache
<1>5. pc' \in [Requests -> Labels] /\ pc'[r] = "publish"
      /\ \A q \in Requests : q # r => pc'[q] = pc[q]
  BY <1>3 DEF Uploaded, Goto, Inv, ControlInv, Labels
<1>6. /\ outcome' \in [Requests -> [file : File \cup {NoFile}, err : Errors \cup {"none"}]]
      /\ outcome'[r] = [file |-> file, err |-> err]
      /\ \A q \in Requests : q # r => outcome'[q] = outcome[q]
  BY <1>3 DEF Uploaded, Inv, ControlInv
<1>7. ControlInv'
  BY <1>1, <1>2, <1>4, <1>5, <1>6 DEF Inv, ControlInv
<1>8. LeadInv'
  BY <1>1, <1>4, <1>5 DEF Inv, LeadInv, PendingIsLed, Leading, Key, At
<1>9. FileInv'
  <2>1. \A q \in Requests : Key(q)' = Key(q)
    BY <1>4 DEF Key
  <2>2. \A q \in Requests :
           pc'[q] \in {"publish", "published"} /\ outcome'[q].err = "none" =>
               outcome'[q].file \in File /\ outcome'[q].file.key = Key(q)
    <3>1. outcome'[r].err = err /\ outcome'[r].file = file
      BY <1>6
    <3>2. QED
      BY <1>3, <1>5, <1>6, <3>1 DEF Inv, FileInv
  <2>3. FilesMatch'
    BY <1>4 DEF Inv, FileInv, FilesMatch
  <2>4. QED
    BY <1>4, <2>1, <2>2, <2>3 DEF Inv, FileInv
<1>10. QED
  BY <1>7, <1>8, <1>9 DEF Inv

\* The leader settles its key: whoever waited for it wakes with its answer,
\* which is an answer for the same key.
LEMMA PublishSteps ==
    ASSUME Inv, NEW r \in Requests, Publish(r) PROVE Inv'
<1>1. pc[r] = "publish" /\ Key(r) \in DOMAIN pending /\ pending[Key(r)] = r
  BY DEF Publish, At, Inv, LeadInv, Leading
<1>2. UNCHANGED <<plan, image, leader, files, uploads>>
  BY DEF Publish
<1>3. /\ DOMAIN pending' = DOMAIN pending \ {Key(r)}
      /\ \A k \in DOMAIN pending' : pending'[k] = pending[k]
  BY DEF Publish, Settled, Without
<1>4. \A q \in Requests : q \in Woken(r) => q = r \/ (pc[q] = "wait" /\ leader[q] = r)
  BY DEF Woken, At
<1>5. /\ pc' \in [Requests -> Labels]
      /\ \A q \in Requests : pc'[q] = IF q \in Woken(r) THEN "published" ELSE pc[q]
      /\ \A q \in Requests : outcome'[q] = IF q \in Woken(r) THEN outcome[r] ELSE outcome[q]
  BY DEF Publish, Inv, ControlInv, Labels
<1>6. outcome' \in [Requests -> [file : File \cup {NoFile}, err : Errors \cup {"none"}]]
  BY DEF Publish, Inv, ControlInv
<1>7. ControlInv'
  <2>1. \A q \in Requests : pc'[q] \in {"wait", "upload", "publish", "published"} =>
           pc[q] \in {"wait", "upload", "publish", "published"}
    BY <1>1, <1>4, <1>5
  <2>2. QED
    BY <1>2, <1>5, <1>6, <2>1 DEF Inv, ControlInv
<1>8. \A q \in Requests : Key(q)' = Key(q)
  BY <1>2 DEF Key
<1>9. r \in Woken(r) /\ \A q \in Requests : pc[q] = "wait" /\ leader[q] = r => q \in Woken(r)
  BY DEF Woken, At
<1>10. LeadInv'
  <2>1. ASSUME NEW k \in DOMAIN pending'
        PROVE  pending'[k] \in Requests /\ pc'[pending'[k]] \in {"upload", "publish"}
               /\ Key(pending[k])' = k
    <3>1. k \in DOMAIN pending /\ k # Key(r) /\ pending'[k] = pending[k]
      BY <1>3
    <3>2. pending[k] \in Requests /\ pc[pending[k]] \in {"upload", "publish"}
          /\ Key(pending[k]) = k
      BY <3>1 DEF Inv, LeadInv, PendingIsLed
    <3>3. pending[k] \notin Woken(r)
      BY <1>4, <3>1, <3>2
    <3>4. QED
      BY <1>2, <1>5, <3>1, <3>2, <3>3 DEF Key
  <2>2. ASSUME NEW q \in Requests, pc'[q] = "wait"
        PROVE  Key(q)' \in DOMAIN pending' /\ pending[Key(q)]' = leader'[q]
    <3>1. pc[q] = "wait" /\ leader[q] # r
      BY <1>5, <1>9, <2>2
    <3>2. Key(q) \in DOMAIN pending /\ pending[Key(q)] = leader[q]
      BY <3>1 DEF Inv, LeadInv, PendingIsLed, At
    <3>3. QED
      BY <1>1, <1>2, <1>3, <1>8, <3>1, <3>2
  <2>3. ASSUME NEW q \in Requests, pc'[q] \in {"upload", "publish"}
        PROVE  Key(q)' \in DOMAIN pending' /\ pending[Key(q)]' = q
    <3>1. q # r /\ pc[q] \in {"upload", "publish"}
      BY <1>5, <1>9, <2>3
    <3>2. Key(q) \in DOMAIN pending /\ pending[Key(q)] = q
      BY <3>1 DEF Inv, LeadInv, Leading
    <3>3. QED
      BY <1>1, <1>3, <1>8, <3>1, <3>2
  <2>4. PendingIsLed'
    BY <2>1, <2>2, <2>3 DEF PendingIsLed, At
  <2>5. QED
    BY <2>1, <2>3, <2>4 DEF LeadInv, Leading
<1>11. outcome[r].err = "none" => outcome[r].file \in File /\ outcome[r].file.key = Key(r)
  BY <1>1 DEF Inv, FileInv
<1>12. \A k \in DOMAIN entries' : entries'[k] \in File /\ entries'[k].key = k
  <2>1. CASE Caches(r)
    <3>1. \A k \in DOMAIN entries' : (k \in DOMAIN entries \/ k = Key(r))
             /\ entries'[k] = IF k = Key(r) THEN outcome[r].file ELSE entries[k]
      BY <2>1 DEF Publish
    <3>2. QED
      BY <1>11, <2>1, <3>1 DEF Caches, Inv, FileInv
  <2>2. CASE ~Caches(r)
    BY <2>2 DEF Publish, Inv, FileInv
  <2>3. QED
    BY <2>1, <2>2
<1>13. ASSUME NEW q \in Requests, q \in Woken(r) PROVE Key(q) = Key(r)
  BY <1>1, <1>4, <1>13 DEF Inv, LeadInv, PendingIsLed, At
<1>14. FileInv'
  <2>1. ASSUME NEW q \in Requests, pc'[q] \in {"publish", "published"},
               outcome'[q].err = "none"
        PROVE  outcome'[q].file \in File /\ outcome'[q].file.key = Key(q)'
    <3>1. CASE q \in Woken(r)
      BY <1>5, <1>8, <1>11, <1>13, <2>1, <3>1
    <3>2. CASE q \notin Woken(r)
      BY <1>5, <1>8, <2>1, <3>2 DEF Inv, FileInv
    <3>3. QED
      BY <3>1, <3>2
  <2>2. FilesMatch' /\ \A q \in Requests : Len(files'[q]) = image'[q] - 1
    BY <1>2 DEF Inv, FileInv, FilesMatch
  <2>3. QED
    BY <1>12, <2>1, <2>2 DEF FileInv
<1>15. QED
  BY <1>7, <1>10, <1>14 DEF Inv

LEMMA ReturnSteps ==
    ASSUME Inv, NEW r \in Requests, Return(r) PROVE Inv'
<1>1. pc[r] = "published" /\ image[r] <= Len(plan[r])
  BY DEF Return, At, Inv, ControlInv
<1>2. UNCHANGED <<plan, leader, outcome, uploads, entries, pending>>
  BY DEF Return, cache
<1>3. pc' \in [Requests -> Labels] /\ pc'[r] \in {"next", "ended"}
      /\ \A q \in Requests : q # r => pc'[q] = pc[q]
  BY DEF Return, GotFile, Failed, Goto, Inv, ControlInv, Labels
<1>4. /\ files' \in [Requests -> Seq(File)] /\ image' \in [Requests -> Nat \ {0}]
      /\ \A q \in Requests : Len(files'[q]) = image'[q] - 1
      /\ FilesMatch'
  <2>1. CASE outcome[r].err = "none"
    <3>1. outcome[r].file \in File /\ outcome[r].file.key = Key(r)
      BY <1>1, <2>1 DEF Inv, FileInv
    <3>2. QED
      BY <1>1, <1>2, <2>1, <3>1, Takes DEF Return
  <2>2. CASE outcome[r].err # "none"
    BY <1>2, <2>2 DEF Return, Inv, ControlInv, FileInv, FilesMatch
  <2>3. QED
    BY <2>1, <2>2
<1>5. \A q \in Requests : q # r => image'[q] = image[q]
  BY DEF Return, GotFile, Inv, ControlInv
<1>6. ControlInv'
  BY <1>1, <1>2, <1>3, <1>4, <1>5 DEF Inv, ControlInv
<1>7. LeadInv'
  BY <1>1, <1>2, <1>3, <1>5 DEF Inv, LeadInv, PendingIsLed, Leading, Key, At
<1>8. FileInv'
  BY <1>1, <1>2, <1>3, <1>4, <1>5 DEF Inv, FileInv, Key
<1>9. QED
  BY <1>6, <1>7, <1>8 DEF Inv

LEMMA InvNext == Inv /\ [Next]_vars => Inv'
<1> SUFFICES ASSUME Inv, [Next]_vars PROVE Inv'
  OBVIOUS
<1>1. CASE \E r \in Requests : Step(r) \/ Host(r)
  BY <1>1, BeginOrDone, HitSteps, FollowSteps, LeadSteps, UploadSteps, PublishSteps,
     ReturnSteps DEF Step
<1>2. CASE Shutdown \/ Rebuild \/ UNCHANGED vars
  <2>1. UNCHANGED <<requests, cache, uploads>>
    BY <1>2 DEF Shutdown, Rebuild, vars
  <2>2. QED
    BY <2>1 DEF requests, cache, Inv, ControlInv, LeadInv, FileInv, PendingIsLed, Leading,
                FilesMatch, Key, At
<1>3. QED
  BY <1>1, <1>2 DEF Next

LEMMA SpecInv == Spec => []Inv
  BY InvInit, InvNext, PTL DEF Spec

----------------------------------------------------------------------------
\* However requests arrive and fail, an upload that others wait for is being
\* carried out by exactly one request (attachments.go:49-64).
THEOREM SingleFlight == Spec => []PendingIsLed
<1>1. Inv => PendingIsLed
  BY DEF Inv, LeadInv
<1>2. QED
  BY <1>1, SpecInv, PTL

\* Evictions, followers and failures never hand a request the file of another
\* image (attachments.go:65-79,225-244).
THEOREM FilesBelong == Spec => []FilesMatch
<1>1. Inv => FilesMatch
  BY DEF Inv, FileInv
<1>2. QED
  BY <1>1, SpecInv, PTL

----------------------------------------------------------------------------
(* The list and the map of the LRU.                                        *)

\* Moving an element of a list of distinct keys to its front.
LEMMA MovedToFront ==
    ASSUME NEW S, NEW s \in Seq(S), NEW i \in DOMAIN s, IsInjective(s),
           NEW t, t = <<s[i]>> \o RemoveAt(s, i)
    PROVE  /\ t \in Seq(S) /\ Len(t) = Len(s)
           /\ ToSet(t) = ToSet(s) /\ IsInjective(t)
<1>1. Len(s) \in Nat /\ i \in 1 .. Len(s) /\ DOMAIN s = 1 .. Len(s)
  BY LenProperties
<1> DEFINE left == SubSeq(s, 1, i - 1)
           right == SubSeq(s, i + 1, Len(s))
<1>2. /\ left \in Seq(S) /\ Len(left) = i - 1
      /\ \A j \in 1 .. i - 1 : left[j] = s[j]
  <2>1. \A j \in 1 .. i - 1 : s[j] \in S
    BY <1>1, ElementOfSeq
  <2>2. /\ left \in Seq(S) /\ Len(left) = IF 1 <= i - 1 THEN (i - 1) - 1 + 1 ELSE 0
        /\ \A j \in 1 .. (i - 1) - 1 + 1 : left[j] = s[1 + j - 1]
    BY <1>1, <2>1, SubSeqProperties
  <2> HIDE DEF left
  <2>3. QED
    BY <1>1, <2>2
<1>3. /\ right \in Seq(S) /\ Len(right) = Len(s) - i
      /\ \A j \in 1 .. Len(s) - i : right[j] = s[i + j]
  <2>1. \A j \in i + 1 .. Len(s) : s[j] \in S
    BY <1>1, ElementOfSeq
  <2>2. /\ right \in Seq(S) /\ Len(right) = IF i + 1 <= Len(s) THEN Len(s) - (i + 1) + 1 ELSE 0
        /\ \A j \in 1 .. Len(s) - (i + 1) + 1 : right[j] = s[(i + 1) + j - 1]
    BY <1>1, <2>1, SubSeqProperties
  <2> HIDE DEF right
  <2>3. Len(s) - (i + 1) + 1 = Len(s) - i
    BY <1>1
  <2>4. Len(right) = Len(s) - i
    BY <1>1, <2>2, <2>3
  <2>5. ASSUME NEW j \in 1 .. Len(s) - i PROVE right[j] = s[i + j]
    <3>1. (i + 1) + j - 1 = i + j
      BY <1>1
    <3>2. right[j] = s[(i + 1) + j - 1]
      BY <2>2, <2>3
    <3>3. QED
      BY <3>1, <3>2
  <2>6. QED
    BY <2>2, <2>4, <2>5
<1> HIDE DEF left, right
<1>4. RemoveAt(s, i) = left \o right
  BY DEF RemoveAt, left, right
<1>5. /\ left \o right \in Seq(S) /\ Len(left \o right) = Len(s) - 1
      /\ \A j \in 1 .. Len(s) - 1 :
            (left \o right)[j] = IF j < i THEN s[j] ELSE s[j + 1]
  <2>1. /\ left \o right \in Seq(S) /\ Len(left \o right) = Len(left) + Len(right)
        /\ \A j \in 1 .. Len(left) + Len(right) :
              (left \o right)[j] = IF j <= Len(left) THEN left[j] ELSE right[j - Len(left)]
    BY <1>2, <1>3, ConcatProperties
  <2> DEFINE both == left \o right
  <2> HIDE DEF both
  <2>2. /\ both \in Seq(S) /\ Len(both) = (i - 1) + (Len(s) - i)
        /\ \A j \in 1 .. (i - 1) + (Len(s) - i) :
              both[j] = IF j <= i - 1 THEN left[j] ELSE right[j - (i - 1)]
    BY <1>2, <1>3, <2>1 DEF both
  <2>3. /\ Len(both) = Len(s) - 1
        /\ \A j \in 1 .. Len(s) - 1 : both[j] = IF j < i THEN s[j] ELSE s[j + 1]
    <3>1. (i - 1) + (Len(s) - i) = Len(s) - 1
      BY <1>1
    <3>2. ASSUME NEW j \in 1 .. Len(s) - 1 PROVE both[j] = IF j < i THEN s[j] ELSE s[j + 1]
      <4>1. both[j] = IF j <= i - 1 THEN left[j] ELSE right[j - (i - 1)]
        BY <2>2, <3>1
      <4>2. CASE j < i
        <5>1. j <= i - 1 /\ j \in 1 .. i - 1
          BY <1>1, <4>2
        <5>2. QED
          BY <1>2, <4>1, <4>2, <5>1
      <4>3. CASE ~(j < i)
        <5>1. /\ ~(j <= i - 1) /\ j - (i - 1) \in 1 .. Len(s) - i
              /\ i + (j - (i - 1)) = j + 1
          BY <1>1, <4>3
        <5>2. right[j - (i - 1)] = s[i + (j - (i - 1))]
          BY <1>3, <5>1
        <5>3. QED
          BY <4>1, <4>3, <5>1, <5>2
      <4>4. QED
        BY <4>2, <4>3
    <3>3. QED
      BY <2>2, <3>1, <3>2
  <2>4. QED
    BY <2>2, <2>3 DEF both
<1> DEFINE rest == left \o right
           from(j) == IF j = 1 THEN i ELSE IF j <= i THEN j - 1 ELSE j
           to(j) == IF j = i THEN 1 ELSE IF j < i THEN j + 1 ELSE j
<1> HIDE DEF rest
<1>6. /\ t \in Seq(S) /\ Len(t) = Len(s)
      /\ \A j \in 1 .. Len(s) : t[j] = s[from(j)]
  <2>1. rest \in Seq(S) /\ Len(rest) = Len(s) - 1
        /\ \A j \in 1 .. Len(s) - 1 : rest[j] = IF j < i THEN s[j] ELSE s[j + 1]
    BY <1>5 DEF rest
  <2> DEFINE head == <<s[i]>>
  <2>2. head \in Seq(S) /\ Len(head) = 1 /\ head[1] = s[i]
    BY <1>1, ElementOfSeq
  <2>3. t = head \o rest
    BY <1>4 DEF rest
  <2> HIDE DEF head
  <2>4. /\ t \in Seq(S) /\ Len(t) = Len(head) + Len(rest)
        /\ \A j \in 1 .. Len(head) + Len(rest) :
              t[j] = IF j <= Len(head) THEN head[j] ELSE rest[j - Len(head)]
    <3>1. /\ head \o rest \in Seq(S) /\ Len(head \o rest) = Len(head) + Len(rest)
          /\ \A j \in 1 .. Len(head) + Len(rest) :
                (head \o rest)[j] = IF j <= Len(head) THEN head[j] ELSE rest[j - Len(head)]
      BY <2>1, <2>2, ConcatProperties
    <3>2. QED
      BY <2>3, <3>1
  <2>5. Len(head) + Len(rest) = Len(s)
    BY <1>1, <2>1, <2>2
  <2>6. ASSUME NEW j \in 1 .. Len(s) PROVE t[j] = s[from(j)]
    <3>1. t[j] = IF j <= 1 THEN head[j] ELSE rest[j - 1]
      BY <2>2, <2>4, <2>5
    <3>2. CASE j = 1
      BY <2>2, <3>1, <3>2
    <3>3. CASE j # 1
      <4>1. /\ j - 1 \in 1 .. Len(s) - 1 /\ ~(j <= 1)
            /\ (j - 1) + 1 = j /\ (j - 1 < i <=> j <= i)
        BY <1>1, <3>3
      <4>2. rest[j - 1] = IF j - 1 < i THEN s[j - 1] ELSE s[(j - 1) + 1]
        BY <2>1, <4>1
      <4>3. QED
        BY <3>1, <3>3, <4>1, <4>2
    <3>4. QED
      BY <3>2, <3>3
  <2>7. QED
    BY <2>4, <2>5, <2>6
<1>7. \A j \in 1 .. Len(s) :
         /\ from(j) \in 1 .. Len(s) /\ to(j) \in 1 .. Len(s)
         /\ from(to(j)) = j /\ to(from(j)) = j
  BY <1>1
<1> HIDE DEF from, to
<1>8. DOMAIN t = 1 .. Len(s)
  BY <1>6, LenProperties
<1>9. ToSet(t) = ToSet(s)
  <2>1. ToSet(t) = {t[j] : j \in 1 .. Len(s)} /\ ToSet(s) = {s[j] : j \in 1 .. Len(s)}
    BY <1>1, <1>8 DEF ToSet
  <2>2. ASSUME NEW j \in 1 .. Len(s) PROVE s[j] \in {t[k] : k \in 1 .. Len(s)}
    <3>1. to(j) \in 1 .. Len(s) /\ t[to(j)] = s[j]
      BY <1>6, <1>7
    <3>2. QED
      BY <3>1
  <2>3. ASSUME NEW j \in 1 .. Len(s) PROVE t[j] \in {s[k] : k \in 1 .. Len(s)}
    BY <1>6, <1>7
  <2>4. QED
    BY <2>1, <2>2, <2>3
<1>10. IsInjective(t)
  <2>1. ASSUME NEW j \in 1 .. Len(s), NEW k \in 1 .. Len(s), t[j] = t[k] PROVE j = k
    <3>1. s[from(j)] = s[from(k)]
      BY <1>6, <2>1
    <3>2. from(j) = from(k)
      BY <1>1, <1>7, <3>1 DEF IsInjective
    <3>3. QED
      BY <1>7, <3>2
  <2>2. QED
    BY <1>8, <2>1 DEF IsInjective
<1>11. QED
  BY <1>6, <1>9, <1>10

\* A list of distinct elements with a new one in front.
LEMMA PushedFront ==
    ASSUME NEW S, NEW s \in Seq(S), NEW x \in S, IsInjective(s), x \notin ToSet(s),
           NEW t, t = <<x>> \o s
    PROVE  /\ t \in Seq(S) /\ Len(t) = Len(s) + 1
           /\ ToSet(t) = ToSet(s) \cup {x} /\ IsInjective(t)
<1>1. Len(s) \in Nat /\ DOMAIN s = 1 .. Len(s)
  BY LenProperties
<1> DEFINE head == <<x>>
<1>2. head \in Seq(S) /\ Len(head) = 1 /\ head[1] = x
  OBVIOUS
<1>3. t = head \o s
  OBVIOUS
<1> HIDE DEF head
<1>4. /\ t \in Seq(S) /\ Len(t) = Len(s) + 1
      /\ \A j \in 1 .. Len(s) + 1 : t[j] = IF j = 1 THEN x ELSE s[j - 1]
  <2>1. /\ head \o s \in Seq(S) /\ Len(head \o s) = Len(head) + Len(s)
        /\ \A j \in 1 .. Len(head) + Len(s) :
              (head \o s)[j] = IF j <= Len(head) THEN head[j] ELSE s[j - Len(head)]
    BY <1>2, ConcatProperties
  <2>2. Len(head) + Len(s) = Len(s) + 1
    BY <1>1, <1>2
  <2>3. ASSUME NEW j \in 1 .. Len(s) + 1 PROVE t[j] = IF j = 1 THEN x ELSE s[j - 1]
    <3>1. t[j] = IF j <= 1 THEN head[j] ELSE s[j - 1]
      BY <1>2, <1>3, <2>1, <2>2
    <3>2. QED
      BY <1>2, <3>1
  <2>4. QED
    BY <1>3, <2>1, <2>2, <2>3
<1>5. DOMAIN t = 1 .. Len(s) + 1
  BY <1>4, LenProperties
<1>6. \A j \in 1 .. Len(s) : j + 1 \in 1 .. Len(s) + 1 /\ t[j + 1] = s[j]
  BY <1>1, <1>4
<1>7. t[1] = x /\ 1 \in 1 .. Len(s) + 1
  BY <1>1, <1>4
<1>8. \A j \in 1 .. Len(s) + 1 : j # 1 => j - 1 \in 1 .. Len(s) /\ t[j] = s[j - 1]
  BY <1>1, <1>4
<1>9. ToSet(t) = ToSet(s) \cup {x}
  <2>1. /\ ToSet(t) = {t[j] : j \in 1 .. Len(s) + 1}
        /\ ToSet(s) = {s[j] : j \in 1 .. Len(s)}
    BY <1>1, <1>5 DEF ToSet
  <2>2. ASSUME NEW j \in 1 .. Len(s) PROVE s[j] \in {t[k] : k \in 1 .. Len(s) + 1}
    BY <1>6
  <2>3. ASSUME NEW j \in 1 .. Len(s) + 1 PROVE t[j] \in {s[k] : k \in 1 .. Len(s)} \cup {x}
    BY <1>7, <1>8
  <2>4. QED
    BY <1>7, <2>1, <2>2, <2>3
<1>10. IsInjective(t)
  <2>1. \A j \in 1 .. Len(s) : s[j] # x
    BY <1>1 DEF ToSet
  <2>2. ASSUME NEW j \in 1 .. Len(s) + 1, NEW k \in 1 .. Len(s) + 1, t[j] = t[k]
        PROVE  j = k
    <3>1. CASE j = 1 \/ k = 1
      BY <1>7, <1>8, <2>1, <2>2, <3>1
    <3>2. CASE j # 1 /\ k # 1
      <4>1. j - 1 = k - 1
        BY <1>1, <1>8, <2>2, <3>2 DEF IsInjective
      <4>2. QED
        BY <4>1
    <3>3. QED
      BY <3>1, <3>2
  <2>3. QED
    BY <1>5, <2>2 DEF IsInjective
<1>11. QED
  BY <1>4, <1>9, <1>10

\* A list of distinct elements without its last.
LEMMA LastDropped ==
    ASSUME NEW S, NEW s \in Seq(S), Len(s) > 0, IsInjective(s)
    PROVE  /\ Front(s) \in Seq(S) /\ Len(Front(s)) = Len(s) - 1
           /\ ToSet(Front(s)) = ToSet(s) \ {s[Len(s)]} /\ IsInjective(Front(s))
<1>1. Len(s) \in Nat \ {0} /\ DOMAIN s = 1 .. Len(s)
  BY LenProperties
<1> DEFINE t == Front(s)
<1>2. /\ t \in Seq(S) /\ Len(t) = Len(s) - 1
      /\ \A j \in 1 .. Len(s) - 1 : t[j] = s[j]
  <2>1. \A j \in 1 .. Len(s) - 1 : s[j] \in S
    BY <1>1, ElementOfSeq
  <2> DEFINE left == SubSeq(s, 1, Len(s) - 1)
  <2>2. /\ left \in Seq(S)
        /\ Len(left) = IF 1 <= Len(s) - 1 THEN (Len(s) - 1) - 1 + 1 ELSE 0
        /\ \A j \in 1 .. (Len(s) - 1) - 1 + 1 : left[j] = s[1 + j - 1]
    BY <1>1, <2>1, SubSeqProperties
  <2>3. t = left
    BY DEF Front
  <2> HIDE DEF left, t
  <2>4. (Len(s) - 1) - 1 + 1 = Len(s) - 1
    BY <1>1
  <2>5. Len(t) = Len(s) - 1
    <3>1. Len(t) = IF 1 <= Len(s) - 1 THEN Len(s) - 1 ELSE 0
      BY <2>2, <2>3, <2>4
    <3>2. ~(1 <= Len(s) - 1) => Len(s) - 1 = 0
      BY <1>1
    <3>3. QED
      BY <3>1, <3>2
  <2>6. ASSUME NEW j \in 1 .. Len(s) - 1 PROVE t[j] = s[j]
    <3>1. 1 + j - 1 = j
      BY <1>1
    <3>2. t[j] = s[1 + j - 1]
      BY <2>2, <2>3, <2>4
    <3>3. QED
      BY <3>1, <3>2
  <2>7. QED
    BY <2>2, <2>3, <2>5, <2>6
<1> HIDE DEF t
<1>3. DOMAIN t = 1 .. Len(s) - 1
  BY <1>2, LenProperties
<1>4. ToSet(t) = ToSet(s) \ {s[Len(s)]}
  <2>1. /\ ToSet(t) = {t[j] : j \in 1 .. Len(s) - 1}
        /\ ToSet(s) = {s[j] : j \in 1 .. Len(s)}
    BY <1>1, <1>3 DEF ToSet
  <2>2. ASSUME NEW j \in 1 .. Len(s) - 1
        PROVE  t[j] \in {s[k] : k \in 1 .. Len(s)} \ {s[Len(s)]}
    <3> DEFINE n == Len(s)
    <3>0. n \in Nat \ {0} /\ j \in 1 .. n - 1
      BY <1>1
    <3> HIDE DEF n
    <3>1. j \in 1 .. n /\ n \in 1 .. n /\ j # n
      BY <3>0
    <3> USE DEF n
    <3>2. t[j] = s[j] /\ s[j] # s[Len(s)]
      BY <1>1, <1>2, <3>1 DEF IsInjective
    <3>3. QED
      BY <3>1, <3>2
  <2>3. ASSUME NEW j \in 1 .. Len(s), s[j] # s[Len(s)]
        PROVE  s[j] \in {t[k] : k \in 1 .. Len(s) - 1}
    <3>1. j \in 1 .. Len(s) - 1
      BY <1>1, <2>3
    <3>2. QED
      BY <1>2, <3>1
  <2>4. QED
    BY <2>1, <2>2, <2>3
<1>5. IsInjective(t)
  BY <1>1, <1>2, <1>3 DEF IsInjective
<1>6. QED
  BY <1>2, <1>4, <1>5 DEF t

\* The list is one of keys, and says what the map says (attachments.go:41-79).
CacheInv == order \in Seq(Keys) /\ CacheConsistent

LEMMA CacheInit == Init => CacheInv
<1> SUFFICES ASSUME Init PROVE CacheInv
  OBVIOUS
<1>1. order = <<>> /\ DOMAIN entries = {} /\ DOMAIN pending = {}
  BY DEF Init
<1>2. order \in Seq(Keys) /\ Len(order) = 0 /\ DOMAIN order = {}
  BY <1>1
<1>3. QED
  BY <1>1, <1>2, CacheAssumption DEF CacheInv, CacheConsistent, ToSet, IsInjective,
                                     CacheAssumption

LEMMA CacheHit ==
    ASSUME Inv, CacheInv, NEW r \in Requests, Hit(r) PROVE CacheInv'
<1> DEFINE i == Place(Key(r))
<1>1. i \in DOMAIN order /\ order[i] = Key(r)
  <2>1. Key(r) \in ToSet(order)
    BY DEF Hit, CacheInv, CacheConsistent
  <2>2. \E j \in DOMAIN order : order[j] = Key(r)
    BY <2>1 DEF ToSet
  <2>3. QED
    BY <2>2 DEF Place
<1>2. order' = <<order[i]>> \o RemoveAt(order, i)
  BY DEF Hit, FrontOf
<1> HIDE DEF i
<1>3. /\ order' \in Seq(Keys) /\ Len(order') = Len(order)
      /\ ToSet(order') = ToSet(order) /\ IsInjective(order')
  <2>1. order \in Seq(Keys) /\ IsInjective(order)
    BY DEF CacheInv, CacheConsistent
  <2>2. QED
    BY <1>1, <1>2, <2>1, MovedToFront
<1>4. QED
  BY <1>3 DEF Hit, CacheInv, CacheConsistent

LEMMA CacheLead ==
    ASSUME Inv, CacheInv, NEW r \in Requests, Lead(r) PROVE CacheInv'
<1>1. DOMAIN pending' = DOMAIN pending \cup {Key(r)} /\ Key(r) \notin DOMAIN entries
      /\ UNCHANGED <<entries, order>>
  BY DEF Lead, With
<1>2. QED
  BY <1>1 DEF CacheInv, CacheConsistent

LEMMA CachePublish ==
    ASSUME Inv, CacheInv, NEW r \in Requests, Publish(r) PROVE CacheInv'
<1>1. Key(r) \in DOMAIN pending /\ Key(r) \notin DOMAIN entries /\ Key(r) \in Keys
  <2>1. pc[r] = "publish"
    BY DEF Publish, At
  <2>2. image[r] <= Len(plan[r])
    BY <2>1 DEF Inv, ControlInv
  <2>3. QED
    BY <2>1, <2>2, KeyInKeys DEF Inv, LeadInv, Leading, CacheInv, CacheConsistent
<1>2. DOMAIN pending' = DOMAIN pending \ {Key(r)}
  BY DEF Publish, Settled, Without
<1>3. CASE ~Caches(r)
  BY <1>2, <1>3 DEF Publish, CacheInv, CacheConsistent
<1>4. CASE Caches(r)
  <2> DEFINE o == <<Key(r)>> \o order
             out == Evicting(o)
  <2>1. /\ order' = IF out = {} THEN o ELSE Front(o)
        /\ DOMAIN entries' = (DOMAIN entries \cup {Key(r)}) \ out
    BY <1>4 DEF Publish
  <2>2. /\ o \in Seq(Keys) /\ Len(o) = Len(order) + 1
        /\ ToSet(o) = ToSet(order) \cup {Key(r)} /\ IsInjective(o)
    BY <1>1, PushedFront DEF CacheInv, CacheConsistent
  <2>3. Len(order) \in Nat /\ Len(order) <= MaxEntries /\ MaxEntries \in Nat \ {0}
        /\ ToSet(order) = DOMAIN entries /\ DOMAIN pending \cap DOMAIN entries = {}
    BY CacheAssumption DEF CacheInv, CacheConsistent, CacheAssumption
  <2>4. out = IF Len(o) > MaxEntries THEN {o[Len(o)]} ELSE {}
    BY DEF Evicting
  <2> HIDE DEF o, out
  <2>5. DOMAIN pending' \cap DOMAIN entries' = {}
    BY <1>1, <1>2, <2>1, <2>3
  <2>6. CASE Len(o) > MaxEntries
    <3>1. out = {o[Len(o)]} /\ out # {} /\ Len(o) > 0
      BY <2>2, <2>3, <2>4, <2>6
    <3>2. /\ Front(o) \in Seq(Keys) /\ Len(Front(o)) = Len(o) - 1
          /\ ToSet(Front(o)) = ToSet(o) \ {o[Len(o)]} /\ IsInjective(Front(o))
      BY <2>2, <3>1, LastDropped
    <3>3. order' = Front(o)
      BY <2>1, <3>1
    <3>4. ToSet(order') = DOMAIN entries' /\ Len(order') <= MaxEntries
      BY <2>1, <2>2, <2>3, <3>1, <3>2, <3>3
    <3>5. QED
      BY <2>5, <3>2, <3>3, <3>4 DEF CacheInv, CacheConsistent
  <2>7. CASE ~(Len(o) > MaxEntries)
    <3>1. out = {} /\ order' = o /\ Len(o) <= MaxEntries
      BY <2>1, <2>2, <2>3, <2>4, <2>7
    <3>2. QED
      BY <2>1, <2>2, <2>3, <2>5, <3>1 DEF CacheInv, CacheConsistent
  <2>8. QED
    BY <2>6, <2>7
<1>5. QED
  BY <1>3, <1>4

LEMMA CacheNext == Inv /\ CacheInv /\ [Next]_vars => CacheInv'
<1> SUFFICES ASSUME Inv, CacheInv, [Next]_vars PROVE CacheInv'
  OBVIOUS
<1>1. CASE \E r \in Requests : Hit(r) \/ Lead(r) \/ Publish(r)
  BY <1>1, CacheHit, CacheLead, CachePublish
<1>2. CASE UNCHANGED cache
  BY <1>2 DEF cache, CacheInv, CacheConsistent
<1>3. QED
  BY <1>1, <1>2 DEF Next, Step, Host, Begin, PlanDone, Follow, GuardAborts, HostUploads,
                    HostFails, Uploaded, Return, Shutdown, Rebuild, vars

\* However many requests hit, insert and evict at once, the list and the map of
\* the LRU name the same keys within its capacity, and none that is cached is
\* being uploaded (attachments.go:41-79).
THEOREM CacheKept == Spec => []CacheConsistent
<1>1. CacheInv => CacheConsistent
  BY DEF CacheInv
<1>2. QED
  BY <1>1, CacheInit, CacheNext, SpecInv, PTL DEF Spec
=============================================================================
