------------------------ MODULE ConfigMirror_proofs ------------------------
(***************************************************************************)
(* What holds of the configuration and its mirror for every set of         *)
(* requests, directories, initial mirrors and crashes, provided the host   *)
(* makes one configure call at a time: the mirror is the effective         *)
(* configuration, registering again changes nothing, and the marks are     *)
(* kept.                                                                   *)
(***************************************************************************)
EXTENDS ConfigMirror, TLAPS

\* A function that gives some keys of a configuration.
Part(f) == DOMAIN f \subseteq Keys /\ \E c \in Configs : \A k \in DOMAIN f : f[k] = c[k]

CallsOK ==
    /\ pc \in [Configurers -> {"idle", "read", "write", "rename", "install"}]
    /\ yaml \in [Configurers -> Requests \cup {NoKeys}]
    /\ cfg \in [Configurers -> Configs]
StoreOK ==
    /\ mirror \in [Dirs -> InitialMirrors \cup {Written(c) : c \in Configs}]
    /\ effective \in [set : BOOLEAN, cfg : Configs]
    /\ stored \in [set : BOOLEAN, yaml : Requests \cup {NoKeys}, cfg : Configs]

\* The host's calls do not overlap.
AloneInv == \A p, q \in Configurers : Active(p) /\ Active(q) => p = q

\* What a request amounts to, given the mirrors.
Gives(y, files, c) == Acceptable(y, files) /\ c = Normal(Filled(y, files))

\* From reading the mirror to replacing it nothing else touches it: what is
\* about to be written is what the mirrors still give.
PlanInv ==
    \A p \in Configurers : pc[p] \in {"write", "rename"} =>
        cfg[p].data_dir # NoDir /\ Gives(yaml[p], mirror, cfg[p])

\* What is about to take effect is what the mirror says, and while nothing is
\* about to, the mirror says what is in effect.
SaysWhatIs(c) == c.data_dir # NoDir => mirror[c.data_dir] = Written(c)
EffectInv ==
    /\ \A p \in Configurers : pc[p] = "install" => SaysWhatIs(cfg[p])
    /\ effective.set /\ (\A p \in Configurers : pc[p] # "install")
           => SaysWhatIs(effective.cfg)

\* What was stored for a request is what the request gives again.
StoredInv == stored.set => Gives(stored.yaml, mirror, stored.cfg)

Inv == CallsOK /\ StoreOK /\ AloneInv /\ PlanInv /\ EffectInv /\ StoredInv

\* No mirror names another directory than its own.
AtHome ==
    \A d \in Dirs :
        "data_dir" \in DOMAIN mirror[d].saved => mirror[d].saved.data_dir \in {d, NoDir}

----------------------------------------------------------------------------
(* The functions of a configuration.                                       *)

LEMMA ConfigKeys == \A c \in Configs : DOMAIN c = Keys /\ c = [k \in Keys |-> c[k]]
BY DEF Configs, Keys

LEMMA DefaultIsConfig == defaultConfig \in Configs
BY MirrorAssumption DEF MirrorAssumption, defaultConfig, Configs

\* Overriding a configuration by keys of another one gives a configuration.
LEMMA OverriddenTypes ==
    ASSUME NEW c \in Configs, NEW f, Part(f)
    PROVE  Overridden(c, f) \in Configs
<1>1. PICK e \in Configs : \A k \in DOMAIN f : f[k] = e[k]
  BY DEF Part
<1>2. \A k \in Keys : Overridden(c, f)[k] \in {c[k], e[k]}
  BY <1>1 DEF Overridden
<1>3. DOMAIN Overridden(c, f) = Keys /\ Overridden(c, f) = [k \in Keys |-> Overridden(c, f)[k]]
  BY DEF Overridden
<1>4. QED
  BY <1>1, <1>2, <1>3 DEF Configs, Keys

\* An empty list of models apart, normalize leaves a configuration as it is.
LEMMA NormalTypes ==
    ASSUME NEW c \in Configs
    PROVE  /\ Normal(c) \in Configs
           /\ \A k \in Keys \ {"models"} : Normal(c)[k] = c[k]
           /\ Normal(c).models = IF c.models = {} THEN {DefaultModel} ELSE c.models
BY MirrorAssumption DEF MirrorAssumption, Normal, Configs, Keys

LEMMA RequestTypes ==
    ASSUME NEW y \in Requests \cup {NoKeys}, y # Malformed
    PROVE  Part(y)
<1>1. CASE y \in Requests
  BY <1>1, MirrorAssumption DEF MirrorAssumption, Part
<1>2. CASE y = NoKeys
  BY <1>2, DefaultIsConfig DEF NoKeys, Part
<1>3. QED
  BY <1>1, <1>2

LEMMA MirrorTypes ==
    ASSUME NEW f \in InitialMirrors \cup {Written(c) : c \in Configs} \cup {Absent}
    PROVE  Part(f.saved)
<1>1. CASE f \in InitialMirrors
  BY <1>1, MirrorAssumption DEF MirrorAssumption, Part
<1>2. ASSUME NEW c \in Configs, f = Written(c) PROVE Part(f.saved)
  BY <1>2, ConfigKeys DEF Written, MirrorFile, Part
<1>3. CASE f = Absent
  BY <1>3, DefaultIsConfig DEF Absent, MirrorFile, NoKeys, Part
<1>4. QED
  BY <1>1, <1>2, <1>3

Mirrors == [Dirs -> InitialMirrors \cup {Written(c) : c \in Configs}]

\* What a request decodes to, and what the mirror makes of it.
LEMMA FilledTypes ==
    ASSUME NEW y \in Requests \cup {NoKeys}, y # Malformed, NEW files \in Mirrors
    PROVE  /\ Decoded(y) \in Configs
           /\ Source(y, files) \in InitialMirrors \cup {Written(c) : c \in Configs} \cup {Absent}
           /\ Filled(y, files) \in Configs
           /\ \A k \in Keys : Filled(y, files)[k] =
                 IF k \in DOMAIN Source(y, files).saved \ DOMAIN y
                 THEN Source(y, files).saved[k] ELSE Decoded(y)[k]
<1>1. Decoded(y) \in Configs
  BY DefaultIsConfig, RequestTypes, OverriddenTypes DEF Decoded
<1>2. Source(y, files) \in InitialMirrors \cup {Written(c) : c \in Configs} \cup {Absent}
  BY <1>1 DEF Source, Mirrors, Configs
<1>3. Part(Source(y, files).saved)
  BY <1>2, MirrorTypes
<1> DEFINE g == WithoutKeys(Source(y, files).saved, DOMAIN y)
<1>4. /\ DOMAIN g = DOMAIN Source(y, files).saved \ DOMAIN y
      /\ \A k \in DOMAIN g : g[k] = Source(y, files).saved[k]
  BY DEF WithoutKeys
<1>5. Part(g)
  BY <1>3, <1>4 DEF Part
<1>6. Filled(y, files) = Overridden(Decoded(y), g)
  BY DEF Filled, fillFromMirror
<1> HIDE DEF g
<1>7. Filled(y, files) \in Configs
  BY <1>1, <1>5, <1>6, OverriddenTypes
<1>8. \A k \in Keys : Filled(y, files)[k] = IF k \in DOMAIN g THEN g[k] ELSE Decoded(y)[k]
  BY <1>6 DEF Overridden
<1>9. QED
  BY <1>1, <1>2, <1>4, <1>7, <1>8

\* Filling in and normalizing a second time change nothing: what a request
\* gives, written to the directory it names, is what it gives again.
LEMMA GivesAgain ==
    ASSUME NEW y \in Requests \cup {NoKeys}, NEW files \in Mirrors, NEW c,
           Gives(y, files, c), c.data_dir # NoDir
    PROVE  /\ c \in Configs /\ c.data_dir \in Dirs
           /\ Gives(y, [files EXCEPT ![c.data_dir] = Written(c)], c)
<1> DEFINE after == [files EXCEPT ![c.data_dir] = Written(c)]
           was == Filled(y, files)
           is == Filled(y, after)
<1>1. y # Malformed /\ Normalizable(was) /\ c = Normal(was) /\ Fillable(Source(y, files), DOMAIN y)
  BY DEF Gives, Acceptable
<1>2. Decoded(y) \in Configs /\ was \in Configs
  BY <1>1, FilledTypes
<1>3. /\ c \in Configs /\ \A k \in Keys \ {"models"} : c[k] = was[k]
      /\ c.models = IF was.models = {} THEN {DefaultModel} ELSE was.models
  BY <1>1, <1>2, NormalTypes
<1>4. c.data_dir \in Dirs
  BY <1>3 DEF Configs
<1>5. after \in Mirrors
  BY <1>3, <1>4 DEF Mirrors
<1>6. CASE Decoded(y).data_dir # c.data_dir
  <2>1. Source(y, after) = Source(y, files)
    BY <1>2, <1>4, <1>6 DEF Source, Mirrors, Configs
  <2>2. QED
    BY <2>1, <1>3, <1>4 DEF Gives, Acceptable, Filled
<1>7. CASE Decoded(y).data_dir = c.data_dir
  <2>1. Source(y, after) = Written(c)
    BY <1>4, <1>7 DEF Source, Mirrors
  <2>2. Fillable(Source(y, after), DOMAIN y)
    <3>1. Source(y, after) = [state |-> "object", saved |-> c, null |-> {}, mistyped |-> {}]
      BY <2>1 DEF Written, MirrorFile
    <3> HIDE DEF after
    <3>2. QED
      BY <3>1 DEF Fillable
  <2>3. DOMAIN Source(y, after).saved = Keys /\ Source(y, after).saved = c
    BY <2>1, <1>3, ConfigKeys DEF Written, MirrorFile
  <2>4. /\ is \in Configs
        /\ \A k \in Keys : is[k] = IF k \in DOMAIN y THEN Decoded(y)[k] ELSE c[k]
    <3> HIDE DEF after
    <3>1. /\ is \in Configs
          /\ \A k \in Keys : is[k] =
                IF k \in DOMAIN Source(y, after).saved \ DOMAIN y
                THEN Source(y, after).saved[k] ELSE Decoded(y)[k]
      BY <1>1, <1>5, FilledTypes
    <3>2. QED
      BY <3>1, <2>3
  <2>5. \A k \in Keys \cap DOMAIN y : was[k] = Decoded(y)[k]
    BY <1>1, FilledTypes
  <2>6. \A k \in Keys \ {"models"} : is[k] = c[k]
    BY <2>4, <2>5, <1>3
  <2>7. is.models = was.models \/ is.models = c.models
    BY <2>4, <2>5 DEF Keys
  <2>8. c.models # {}
    BY <1>3
  <2>9. /\ Normal(is) \in Configs /\ \A k \in Keys \ {"models"} : Normal(is)[k] = is[k]
        /\ Normal(is).models = IF is.models = {} THEN {DefaultModel} ELSE is.models
    BY <2>4, NormalTypes
  <2>10. Normal(is).models = c.models
    BY <2>7, <2>8, <2>9, <1>3
  <2>11. \A k \in Keys : Normal(is)[k] = c[k]
    BY <2>6, <2>9, <2>10
  <2>12. Normal(is) = c
    <3>1. /\ Normal(is) = [k \in Keys |-> Normal(is)[k]]
          /\ c = [k \in Keys |-> c[k]]
      BY <2>9, <1>3, ConfigKeys
    <3> HIDE DEF is
    <3>2. QED
      BY <3>1, <2>11
  <2>13. /\ is.limits = was.limits /\ is.model_mappings = was.model_mappings
         /\ is.alpha_search_model = was.alpha_search_model
         /\ is.dedicated_auth_files = was.dedicated_auth_files
    BY <2>6, <1>3 DEF Keys
  <2>14. Normalizable(is)
    BY <2>13, <2>12, <1>1 DEF Normalizable
  <2>15. QED
    BY <2>2, <2>12, <2>14, <1>1, <1>3, <1>4 DEF Gives, Acceptable
<1>8. QED
  BY <1>6, <1>7

----------------------------------------------------------------------------
(* The invariant, when the host makes one call at a time.                  *)

LEMMA InvInit == Init => Inv
<1> SUFFICES ASSUME Init PROVE Inv
  OBVIOUS
<1> USE DefaultIsConfig DEF Init
<1>1. CallsOK
  BY DEF CallsOK
<1>2. StoreOK
  BY DEF StoreOK, Nothing
<1>3. AloneInv /\ PlanInv /\ EffectInv /\ StoredInv
  BY DEF AloneInv, Active, At, PlanInv, EffectInv, StoredInv, Nothing
<1>4. QED
  BY <1>1, <1>2, <1>3 DEF Inv

\* A call ends and leaves mirrors and stored alone.
LEMMA CallReturns ==
    ASSUME Inv, NEW p \in Configurers, Returns(p), UNCHANGED <<mirror, stored>>
    PROVE  /\ CallsOK' /\ AloneInv' /\ PlanInv' /\ StoredInv'
           /\ \A q \in Configurers : pc'[q] # "idle" =>
                 q # p /\ pc'[q] = pc[q] /\ cfg'[q] = cfg[q]
<1> USE DEF Inv, Returns, Goto
<1>1. CallsOK'
  BY DefaultIsConfig DEF CallsOK
<1>2. \A q \in Configurers : pc'[q] # "idle" =>
         q # p /\ pc'[q] = pc[q] /\ cfg'[q] = cfg[q] /\ yaml'[q] = yaml[q]
  BY DEF CallsOK
<1>3. AloneInv'
  BY <1>2 DEF AloneInv, Active, At
<1>4. PlanInv'
  BY <1>2 DEF PlanInv
<1>5. StoredInv'
  BY DEF StoredInv
<1>6. QED
  BY <1>1, <1>2, <1>3, <1>4, <1>5

\* One call moves on.
LEMMA CallMoves ==
    ASSUME Inv, NEW p \in Configurers, Active(p),
           NEW l \in {"read", "write", "rename", "install"}, Goto(p, l)
    PROVE  /\ pc' \in [Configurers -> {"idle", "read", "write", "rename", "install"}]
           /\ pc'[p] = l /\ \A q \in Configurers \ {p} : pc[q] = "idle" /\ pc'[q] = "idle"
           /\ AloneInv'
BY DEF Inv, CallsOK, AloneInv, Active, At, Goto

LEMMA InvNext ==
    ASSUME HostSerializes, Inv, [Next]_vars
    PROVE  Inv'
<1>1. ASSUME NEW p \in Configurers, NEW y \in Requests, Configure(p, y)
      PROVE Inv'
  <2>1. \A q \in Configurers : pc[q] = "idle"
    BY <1>1 DEF Configure, Settled, Active, At
  <2>2. CallsOK'
    BY <1>1 DEF Inv, CallsOK, Configure, Goto
  <2>3. \A q \in Configurers : pc'[q] = IF q = p THEN "read" ELSE "idle"
    BY <1>1, <2>1 DEF Inv, CallsOK, Configure, Goto
  <2>4. UNCHANGED <<mirror, effective, stored, cfg>>
    BY <1>1 DEF Configure, service
  <2>5. AloneInv' /\ PlanInv'
    BY <2>3 DEF AloneInv, PlanInv, Active, At
  <2>6. EffectInv'
    BY <2>1, <2>3, <2>4 DEF Inv, EffectInv, SaysWhatIs
  <2>7. StoreOK' /\ StoredInv'
    BY <2>4 DEF Inv, StoreOK, StoredInv
  <2>8. QED
    BY <2>2, <2>5, <2>6, <2>7 DEF Inv
<1>2. ASSUME NEW p \in Configurers, ReadMirror(p)
      PROVE Inv'
  <2> DEFINE c == Normal(Filled(yaml[p], mirror))
  <2>1. Active(p) /\ Gives(yaml[p], mirror, c) /\ yaml[p] # Malformed
    BY <1>2 DEF ReadMirror, Active, At, Gives, Acceptable
  <2>2. c \in Configs
    BY <2>1, FilledTypes, NormalTypes DEF Inv, CallsOK, StoreOK, Mirrors
  <2>3. /\ cfg' = [cfg EXCEPT ![p] = c]
        /\ Goto(p, IF c.data_dir = NoDir THEN "install" ELSE "write")
        /\ UNCHANGED <<yaml, mirror, effective, stored>>
    BY <1>2 DEF ReadMirror, service
  <2> HIDE DEF c
  <2>4. /\ pc' \in [Configurers -> {"idle", "read", "write", "rename", "install"}]
        /\ pc'[p] = IF c.data_dir = NoDir THEN "install" ELSE "write"
        /\ \A q \in Configurers \ {p} : pc[q] = "idle" /\ pc'[q] = "idle"
        /\ AloneInv'
    BY <2>1, <2>3, CallMoves
  <2>5. CallsOK' /\ StoreOK' /\ StoredInv'
    BY <2>2, <2>3, <2>4 DEF Inv, CallsOK, StoreOK, StoredInv
  <2>6. cfg'[p] = c /\ yaml'[p] = yaml[p]
    BY <2>3 DEF Inv, CallsOK
  <2>7. PlanInv'
    BY <2>1, <2>3, <2>4, <2>6 DEF PlanInv
  <2>8. pc[p] # "install" /\ \A q \in Configurers : pc[q] # "install"
    BY <1>2, <2>4 DEF ReadMirror, At
  <2>9. EffectInv'
    BY <2>3, <2>4, <2>6, <2>8 DEF Inv, EffectInv, SaysWhatIs
  <2>10. QED
    BY <2>4, <2>5, <2>7, <2>9 DEF Inv
<1>3. ASSUME NEW p \in Configurers, pc[p] \in {"read", "write", "rename"}, Fails(p)
      PROVE Inv'
  <2>1. Returns(p) /\ UNCHANGED <<mirror, effective, stored>>
    BY <1>3 DEF Fails, service
  <2>2. /\ CallsOK' /\ AloneInv' /\ PlanInv' /\ StoredInv'
        /\ \A q \in Configurers : pc'[q] # "idle" =>
              q # p /\ pc'[q] = pc[q] /\ cfg'[q] = cfg[q]
    BY <2>1, CallReturns
  <2>3. \A q \in Configurers : pc[q] = "install" => pc'[q] = "install"
    BY <1>3, <2>1 DEF Inv, CallsOK, Returns, Goto
  <2>4. EffectInv'
    BY <2>1, <2>2, <2>3 DEF Inv, EffectInv, SaysWhatIs
  <2>5. QED
    BY <2>1, <2>2, <2>4 DEF Inv, StoreOK
<1>4. ASSUME NEW p \in Configurers, RejectMirror(p)
      PROVE Inv'
  BY <1>3, <1>4 DEF RejectMirror, At
<1>5. ASSUME NEW p \in Configurers, StorageFails(p)
      PROVE Inv'
  BY <1>3, <1>5 DEF StorageFails
<1>6. ASSUME NEW p \in Configurers, WriteTemporary(p)
      PROVE Inv'
  <2>1. Active(p) /\ Goto(p, "rename") /\ pc[p] = "write"
    BY <1>6 DEF WriteTemporary, Active, At
  <2>2. UNCHANGED <<yaml, cfg, mirror, effective, stored>>
    BY <1>6 DEF WriteTemporary, service
  <2>3. /\ pc' \in [Configurers -> {"idle", "read", "write", "rename", "install"}]
        /\ pc'[p] = "rename" /\ \A q \in Configurers \ {p} : pc[q] = "idle" /\ pc'[q] = "idle"
        /\ AloneInv'
    BY <2>1, CallMoves
  <2>4. CallsOK' /\ StoreOK' /\ StoredInv'
    BY <2>2, <2>3 DEF Inv, CallsOK, StoreOK, StoredInv
  <2>5. PlanInv' /\ EffectInv'
    BY <2>1, <2>2, <2>3 DEF Inv, PlanInv, EffectInv, SaysWhatIs
  <2>6. QED
    BY <2>3, <2>4, <2>5 DEF Inv
<1>7. ASSUME NEW p \in Configurers, Rename(p)
      PROVE Inv'
  <2> DEFINE c == cfg[p]
  <2>1. Active(p) /\ Goto(p, "install") /\ pc[p] = "rename"
    BY <1>7 DEF Rename, Active, At
  <2>2. /\ mirror' = [mirror EXCEPT ![c.data_dir] = Written(c)]
        /\ stored' = [set |-> TRUE, yaml |-> yaml[p], cfg |-> c]
        /\ UNCHANGED <<yaml, cfg, effective>>
    BY <1>7 DEF Rename, service
  <2>3. /\ pc' \in [Configurers -> {"idle", "read", "write", "rename", "install"}]
        /\ pc'[p] = "install" /\ \A q \in Configurers \ {p} : pc[q] = "idle" /\ pc'[q] = "idle"
        /\ AloneInv'
    BY <2>1, CallMoves
  <2>4. yaml[p] \in Requests \cup {NoKeys} /\ mirror \in Mirrors
    BY DEF Inv, CallsOK, StoreOK, Mirrors
  <2>5. Gives(yaml[p], mirror, c) /\ c.data_dir # NoDir
    BY <2>1 DEF Inv, PlanInv
  <2>6. c \in Configs /\ c.data_dir \in Dirs /\ Gives(yaml[p], mirror', c)
    BY <2>2, <2>4, <2>5, GivesAgain
  <2> HIDE DEF c
  <2>7. CallsOK'
    BY <2>2, <2>3 DEF Inv, CallsOK
  <2>8. mirror'[c.data_dir] = Written(c)
    BY <2>2, <2>4, <2>6 DEF Mirrors
  <2>9. StoreOK' /\ StoredInv'
    BY <2>2, <2>4, <2>6 DEF Inv, StoreOK, StoredInv
  <2>10. PlanInv'
    BY <2>3 DEF PlanInv
  <2>11. EffectInv'
    BY <2>2, <2>3, <2>8 DEF EffectInv, SaysWhatIs, c
  <2>12. QED
    BY <2>3, <2>7, <2>9, <2>10, <2>11 DEF Inv
<1>8. ASSUME NEW p \in Configurers, Install(p)
      PROVE Inv'
  <2>1. /\ pc[p] = "install" /\ Returns(p)
        /\ effective' = [set |-> TRUE, cfg |-> cfg[p]] /\ UNCHANGED <<mirror, stored>>
    BY <1>8 DEF Install, At
  <2>2. /\ CallsOK' /\ AloneInv' /\ PlanInv' /\ StoredInv'
        /\ \A q \in Configurers : pc'[q] # "idle" =>
              q # p /\ pc'[q] = pc[q] /\ cfg'[q] = cfg[q]
    BY <2>1, CallReturns
  <2>3. StoreOK'
    BY <2>1 DEF Inv, CallsOK, StoreOK
  <2>4. EffectInv'
    BY <2>1, <2>2 DEF Inv, EffectInv, SaysWhatIs
  <2>5. QED
    BY <2>2, <2>3, <2>4 DEF Inv
<1>9. CASE Shutdown
  BY <1>9 DEF Shutdown, calls, Inv, CallsOK, StoreOK, AloneInv, Active, At, PlanInv,
     EffectInv, SaysWhatIs, StoredInv
<1>10. CASE Crash
  <2>1. CallsOK' /\ \A q \in Configurers : pc'[q] = "idle"
    BY <1>10, DefaultIsConfig DEF Crash, CallsOK
  <2>2. effective' = [set |-> FALSE, cfg |-> defaultConfig] /\ UNCHANGED <<mirror, stored>>
    BY <1>10 DEF Crash
  <2>3. StoreOK' /\ StoredInv'
    BY <2>2, DefaultIsConfig DEF Inv, StoreOK, StoredInv
  <2>4. AloneInv' /\ PlanInv' /\ EffectInv'
    BY <2>1, <2>2 DEF AloneInv, Active, At, PlanInv, EffectInv
  <2>5. QED
    BY <2>1, <2>3, <2>4 DEF Inv
<1>11. CASE UNCHANGED vars
  BY <1>11 DEF vars, calls, service, Inv, CallsOK, StoreOK, AloneInv, Active, At, PlanInv,
     EffectInv, SaysWhatIs, StoredInv
<1>12. QED
  BY <1>1, <1>2, <1>4, <1>5, <1>6, <1>7, <1>8, <1>9, <1>10, <1>11 DEF Next, Step

\* The invariant holds of the specification when the host makes one configure
\* call at a time.
THEOREM SpecInv == HostSerializes => (Spec => []Inv)
<1> SUFFICES ASSUME HostSerializes PROVE Spec => []Inv
  OBVIOUS
<1>1. Init => Inv
  BY InvInit
<1>2. Inv /\ [Next]_vars => Inv'
  BY InvNext
<1>3. QED
  BY <1>1, <1>2, PTL DEF Spec

----------------------------------------------------------------------------
(* The theorems.                                                           *)

\* settings.json mirrors the effective configuration (service.go:142): with no
\* call under way, the mirror in the effective data directory says what is in
\* effect, for every request, initial mirror and number of crashes, when the
\* host makes one configure call at a time.
THEOREM MirrorSaysEffective == HostSerializes => (Spec => []MirrorIsEffective)
<1>1. Inv => MirrorIsEffective
  BY DEF Inv, EffectInv, SaysWhatIs, MirrorIsEffective, Settled, Active, At
<1>2. QED
  BY <1>1, SpecInv, PTL

\* Registering again with the stored YAML is accepted and gives the stored
\* configuration (service.go:113-142): filling in from the mirror and
\* normalize are idempotent, for every request the mirror was written for.
THEOREM RegisterAgainGives == HostSerializes => (Spec => []RegisterAgain)
<1>1. Inv => RegisterAgain
  BY DEF Inv, StoredInv, Gives, RegisterAgain
<1>2. QED
  BY <1>1, SpecInv, PTL

\* With no mirror naming another directory, the mirror that is replaced is
\* the one that was read.
LEMMA ReadsWhatItReplaces ==
    ASSUME AtHome, mirror \in Mirrors,
           NEW y \in Requests \cup {NoKeys}, NEW c, Gives(y, mirror, c), c.data_dir # NoDir
    PROVE  Source(y, mirror) = mirror[c.data_dir]
<1>1. y # Malformed /\ c = Normal(Filled(y, mirror))
  BY DEF Gives, Acceptable
<1>2. Decoded(y) \in Configs /\ Filled(y, mirror) \in Configs
  BY <1>1, FilledTypes
<1>3. c.data_dir = Filled(y, mirror).data_dir
  BY <1>1, <1>2, NormalTypes DEF Keys
<1>4. Filled(y, mirror).data_dir =
         IF "data_dir" \in DOMAIN Source(y, mirror).saved \ DOMAIN y
         THEN Source(y, mirror).saved.data_dir ELSE Decoded(y).data_dir
  BY <1>1, FilledTypes DEF Keys
<1>5. Decoded(y).data_dir \in Dirs \cup {NoDir}
  BY <1>2 DEF Configs
<1>6. CASE Decoded(y).data_dir = NoDir
  BY <1>3, <1>4, <1>6 DEF Source, Absent, MirrorFile, NoKeys
<1>7. CASE Decoded(y).data_dir \in Dirs
  <2>1. Source(y, mirror) = mirror[Decoded(y).data_dir]
    BY <1>7, MirrorAssumption DEF Source, MirrorAssumption
  <2>2. "data_dir" \in DOMAIN Source(y, mirror).saved
           => Source(y, mirror).saved.data_dir \in {Decoded(y).data_dir, NoDir}
    BY <2>1, <1>7 DEF AtHome
  <2>3. c.data_dir = Decoded(y).data_dir
    BY <2>2, <1>3, <1>4
  <2>4. QED
    BY <2>1, <2>3
<1>8. QED
  BY <1>5, <1>6, <1>7

\* Replacing a mirror keeps every mirror at home, and changes the marks only
\* to those the request names.
LEMMA RenameKeepsMarks ==
    ASSUME Inv, AtHome, NEW p \in Configurers, Rename(p)
    PROVE  /\ AtHome'
           /\ \A d \in Dirs : Marks(mirror'[d]) # Marks(mirror[d])
                 => /\ "dedicated_auth_files" \in DOMAIN yaml[p]
                    /\ mirror[d].state # "broken"
                    /\ Marks(mirror'[d]) = yaml[p].dedicated_auth_files
<1> DEFINE c == cfg[p]
           y == yaml[p]
           k == "dedicated_auth_files"
<1>1. mirror' = [mirror EXCEPT ![c.data_dir] = Written(c)]
  BY DEF Rename
<1>2. /\ y \in Requests \cup {NoKeys} /\ mirror \in Mirrors
      /\ Gives(y, mirror, c) /\ c.data_dir # NoDir
  BY DEF Rename, At, Inv, CallsOK, StoreOK, PlanInv, Mirrors
<1> HIDE DEF c, y
<1>3. c \in Configs /\ c.data_dir \in Dirs
  BY <1>2, GivesAgain
<1>4. Source(y, mirror) = mirror[c.data_dir]
  BY <1>2, ReadsWhatItReplaces
<1>5. /\ \A d \in Dirs \ {c.data_dir} : mirror'[d] = mirror[d]
      /\ mirror'[c.data_dir] = Written(c)
  BY <1>1, <1>2, <1>3 DEF Mirrors
<1>6. Written(c).saved = c /\ DOMAIN c = Keys /\ Written(c).state = "object"
      /\ Written(c).mistyped = {}
  BY <1>3, ConfigKeys DEF Written, MirrorFile
<1>7. AtHome'
  BY <1>5, <1>6 DEF AtHome
<1>8. Marks(Written(c)) = c.dedicated_auth_files
  BY <1>6 DEF Marks, Keys
<1>9. y # Malformed /\ c = Normal(Filled(y, mirror)) /\ Fillable(Source(y, mirror), DOMAIN y)
  BY <1>2 DEF Gives, Acceptable
<1>10. mirror[c.data_dir].state # "broken" /\ mirror[c.data_dir].mistyped \subseteq DOMAIN y
  BY <1>4, <1>9 DEF Fillable
<1>11. c.dedicated_auth_files =
          IF k \in DOMAIN mirror[c.data_dir].saved \ DOMAIN y
          THEN mirror[c.data_dir].saved.dedicated_auth_files
          ELSE Decoded(y).dedicated_auth_files
  BY <1>2, <1>4, <1>9, FilledTypes, NormalTypes DEF Keys
<1>12. Decoded(y).dedicated_auth_files =
          IF k \in DOMAIN y THEN y.dedicated_auth_files ELSE {}
  BY DEF Decoded, Overridden, defaultConfig, Keys
<1>13. CASE k \in DOMAIN y
  BY <1>5, <1>7, <1>8, <1>10, <1>11, <1>12, <1>13 DEF y
<1>14. CASE k \notin DOMAIN y
  BY <1>5, <1>7, <1>8, <1>10, <1>11, <1>12, <1>14 DEF Marks
<1>15. QED
  BY <1>13, <1>14

\* The marks the credential script reads are never forgotten (service.go:170):
\* they change only by a call whose YAML names them, and a broken file is never
\* replaced.  The host makes one call at a time, and no mirror names another
\* directory at first, as none does that configure wrote itself; from one that
\* does, configure writes to a directory whose mirror it did not read.
THEOREM MarksAreKept == HostSerializes => (Spec /\ AtHome => MarksKept)
<1> SUFFICES ASSUME HostSerializes PROVE Spec /\ AtHome => MarksKept
  OBVIOUS
<1> DEFINE Kept ==
       \A d \in Dirs : Marks(mirror'[d]) # Marks(mirror[d])
          => \E p \in Configurers :
                /\ Active(p) /\ "dedicated_auth_files" \in DOMAIN yaml[p]
                /\ mirror[d].state # "broken"
                /\ Marks(mirror'[d]) = yaml[p].dedicated_auth_files
<1>1. Inv /\ AtHome /\ [Next]_vars => AtHome' /\ [Kept]_vars
  <2> SUFFICES ASSUME Inv, AtHome, [Next]_vars PROVE AtHome' /\ Kept
    OBVIOUS
  <2>1. ASSUME NEW p \in Configurers, Rename(p) PROVE AtHome' /\ Kept
    BY <2>1, RenameKeepsMarks DEF Rename, Active, At
  <2>2. CASE UNCHANGED mirror
    BY <2>2 DEF AtHome
  <2>3. UNCHANGED mirror \/ \E p \in Configurers : Rename(p)
    BY DEF Next, Step, Configure, ReadMirror, RejectMirror, WriteTemporary, StorageFails,
       Fails, Install, Shutdown, Crash, vars
  <2>4. QED
    BY <2>1, <2>2, <2>3
<1>2. Spec => []Inv
  BY SpecInv
<1>3. QED
  BY <1>1, <1>2, PTL DEF Spec, MarksKept
=============================================================================
