---------------------------- MODULE ConfigMirror ----------------------------
(***************************************************************************)
(* The configuration and its mirror settings.json (service.go configure,   *)
(* fillFromMirror, writeFileAtomic; types.go Config, normalize).           *)
(* The host's YAML decides the keys it has, the mirror in the data         *)
(* directory fills in the others, and the result replaces the mirror by a  *)
(* temporary file and a rename before it takes effect.  A credential       *)
(* script outside the plugin reads dedicated_auth_files (the marks) from   *)
(* the mirror at any time.  Each step of configure that touches the disk   *)
(* or the service is an action; the process may die between any two.       *)
(* A value stands for its trimmed form; the keys that are only trimmed,    *)
(* defaulted or range-checked are one key, "limits".                       *)
(***************************************************************************)
EXTENDS Naturals, FiniteSets

CONSTANTS
    Configurers,     \* plugin.register and plugin.reconfigure calls
    HostSerializes,  \* the host makes one such call at a time
    Requests,        \* config_yaml: the keys it has, and their values
    Dirs,            \* data directories that exist or can be created
    DefaultDir, DefaultModel, Models, Files,
    InitialMirrors,  \* what a directory may hold at first
    MaxCrashes       \* bound: deaths of the process

NoDir == "no_dir"            \* data_dir: ""
Unset == "unset"             \* alpha_search_model: ""
Native == "native_model"     \* a model of the native provider
BadName == "bad_name"        \* a mark that is not a bare file name

\* Config: model_mappings by its aliases, lists as sets.
Configs == [data_dir : Dirs \cup {NoDir}, models : SUBSET Models,
            model_mappings : SUBSET Models,
            dedicated_auth_files : SUBSET (Files \cup {BadName}),
            alpha_search_model : Models \cup {Unset, Native},
            limits : {"default", "set", "out_of_range"}]
Keys == {"data_dir", "models", "model_mappings", "dedicated_auth_files",
         "alpha_search_model", "limits"}
defaultConfig ==
    [data_dir |-> DefaultDir, models |-> {DefaultModel}, model_mappings |-> {},
     dedicated_auth_files |-> {}, alpha_search_model |-> Unset, limits |-> "default"]

\* nullableConfigFields: slices, maps and pointers.
nullableConfigFields == {"models", "model_mappings", "dedicated_auth_files"}

\* settings.json: saved gives the keys that decode, null and mistyped are
\* the keys that do not; a broken file is no JSON object or cannot be read.
MirrorFile(state, saved, null, mistyped) ==
    [state |-> state, saved |-> saved, null |-> null, mistyped |-> mistyped]
NoKeys == [k \in {} |-> "none"]
Absent == MirrorFile("absent", NoKeys, {}, {})
Broken == MirrorFile("broken", NoKeys, {}, {})
Written(c) == MirrorFile("object", c, {}, {})

\* A config_yaml that does not parse; otherwise a function from its keys.
Malformed == [k \in {"malformed"} |-> TRUE]

ASSUME MirrorAssumption ==
    /\ DefaultDir \in Dirs /\ DefaultModel \in Models /\ NoDir \notin Dirs
    /\ \A y \in Requests \ {Malformed} :
          DOMAIN y \subseteq Keys /\ \E c \in Configs : \A k \in DOMAIN y : y[k] = c[k]
    /\ \A f \in InitialMirrors :
          /\ f.state \in {"absent", "broken", "object"}
          /\ f.null \subseteq Keys /\ f.mistyped \subseteq Keys
          /\ DOMAIN f.saved \subseteq Keys \ (f.null \cup f.mistyped)
          /\ \E c \in Configs : \A k \in DOMAIN f.saved : f.saved[k] = c[k]
    /\ HostSerializes \in BOOLEAN /\ MaxCrashes \in Nat

VARIABLES
    pc, yaml, cfg,           \* per call: where, its request, its Config
    mirror,                  \* per directory: settings.json
    effective, stopped,      \* whether s.cfg was configured, and s.cfg; s.stopped
    stored,                  \* the last request whose mirror was written, and its Config
    crashes

calls == <<pc, yaml, cfg>>
service == <<effective, stopped>>
vars == <<calls, mirror, service, stored, crashes>>

Nothing == [set |-> FALSE, yaml |-> NoKeys, cfg |-> defaultConfig]

Init ==
    /\ pc = [p \in Configurers |-> "idle"]
    /\ yaml = [p \in Configurers |-> NoKeys]
    /\ cfg = [p \in Configurers |-> defaultConfig]
    /\ mirror \in [Dirs -> InitialMirrors]
    /\ effective = [set |-> FALSE, cfg |-> defaultConfig] /\ stopped = FALSE
    /\ stored = Nothing /\ crashes = 0

At(p, label) == pc[p] = label
Goto(p, label) == pc' = [pc EXCEPT ![p] = label]
Active(p) == ~At(p, "idle")
Settled == \A p \in Configurers : ~Active(p)

\* The call returns, with or without an error, and its locals are gone.
Returns(p) ==
    /\ Goto(p, "idle") /\ yaml' = [yaml EXCEPT ![p] = NoKeys]
    /\ cfg' = [cfg EXCEPT ![p] = defaultConfig]

----------------------------------------------------------------------------
(* The functions of one configuration.                                     *)

Overridden(c, f) == [k \in Keys |-> IF k \in DOMAIN f THEN f[k] ELSE c[k]]
WithoutKeys(f, ks) == [k \in DOMAIN f \ ks |-> f[k]]

\* Mutant: a damaged mirror counts as none.
Fillable_lenient(f, present) == TRUE

\* fillFromMirror: the keys the YAML lacks come from the mirror.
Fillable(f, present) ==
    /\ f.state # "broken"
    /\ f.null \ present \subseteq nullableConfigFields
    /\ f.mistyped \subseteq present
fillFromMirror(c, f, present) == Overridden(c, WithoutKeys(f.saved, present))

\* normalize: an empty list of models is the default one; what it rejects.
Normal(c) == [c EXCEPT !.models = IF @ = {} THEN {DefaultModel} ELSE @]
Normalizable(c) ==
    /\ c.limits # "out_of_range"
    /\ c.model_mappings \subseteq Normal(c).models
    /\ c.alpha_search_model \notin Normal(c).models
    /\ BadName \notin c.dedicated_auth_files

\* What configure makes of a request, given the mirrors.
Decoded(y) == Overridden(defaultConfig, y)
Source(y, files) == IF Decoded(y).data_dir = NoDir THEN Absent ELSE files[Decoded(y).data_dir]
Filled(y, files) == fillFromMirror(Decoded(y), Source(y, files), DOMAIN y)
Acceptable(y, files) ==
    /\ y # Malformed
    /\ Fillable(Source(y, files), DOMAIN y) /\ Normalizable(Filled(y, files))

----------------------------------------------------------------------------
(* configure, one action for each step outside the process's memory.       *)

Fails(p) == Returns(p) /\ UNCHANGED <<mirror, service, stored, crashes>>

\* plugin.register or plugin.reconfigure with a config_yaml.
Configure(p, y) ==
    /\ At(p, "idle") /\ (HostSerializes => Settled)
    /\ yaml' = [yaml EXCEPT ![p] = y] /\ Goto(p, "read")
    /\ UNCHANGED <<cfg, mirror, service, stored, crashes>>

\* The mirror is read, the rest decided; without data_dir nothing is stored.
ReadMirror(p) ==
    /\ At(p, "read") /\ Acceptable(yaml[p], mirror)
    /\ LET c == Normal(Filled(yaml[p], mirror)) IN
       /\ cfg' = [cfg EXCEPT ![p] = c]
       /\ Goto(p, IF c.data_dir = NoDir THEN "install" ELSE "write")
    /\ UNCHANGED <<yaml, mirror, service, stored, crashes>>

RejectMirror(p) == At(p, "read") /\ ~Acceptable(yaml[p], mirror) /\ Fails(p)

\* Mutant: settings.json is written in place.
WriteTemporary_inPlace(p) ==
    /\ At(p, "write") /\ Goto(p, "rename")
    /\ mirror' = [mirror EXCEPT ![cfg[p].data_dir] = Broken]
    /\ UNCHANGED <<yaml, cfg, service, stored, crashes>>

\* MkdirAll and the temporary file: created, written, synced.
WriteTemporary(p) ==
    /\ At(p, "write") /\ Goto(p, "rename")
    /\ UNCHANGED <<yaml, cfg, mirror, service, stored, crashes>>

\* config_storage: any step of it, the rename too, may fail; the temporary
\* file is removed.
StorageFails(p) == pc[p] \in {"write", "rename"} /\ Fails(p)

\* Mutant: the mirror is written before it is filled in and normalized.
Rename_decoded(p) ==
    /\ At(p, "rename") /\ Goto(p, "install")
    /\ mirror' = [mirror EXCEPT ![cfg[p].data_dir] = Written(Decoded(yaml[p]))]
    /\ stored' = [set |-> TRUE, yaml |-> yaml[p], cfg |-> cfg[p]]
    /\ UNCHANGED <<yaml, cfg, service, crashes>>

Rename(p) ==
    /\ At(p, "rename") /\ Goto(p, "install")
    /\ mirror' = [mirror EXCEPT ![cfg[p].data_dir] = Written(cfg[p])]
    /\ stored' = [set |-> TRUE, yaml |-> yaml[p], cfg |-> cfg[p]]
    /\ UNCHANGED <<yaml, cfg, service, crashes>>

\* Under lifeMu and s.mu.  A stopped plugin starts a new generation.
Install(p) ==
    /\ At(p, "install") /\ Returns(p)
    /\ effective' = [set |-> TRUE, cfg |-> cfg[p]] /\ stopped' = FALSE
    /\ UNCHANGED <<mirror, stored, crashes>>

\* plugin.shutdown marks the service; the configuration stays.
Shutdown ==
    /\ effective.set /\ ~stopped /\ stopped' = TRUE
    /\ UNCHANGED <<calls, mirror, effective, stored, crashes>>

\* The host process dies: calls and memory are gone, the files stay.
Crash ==
    /\ crashes < MaxCrashes /\ crashes' = crashes + 1
    /\ pc' = [p \in Configurers |-> "idle"]
    /\ yaml' = [p \in Configurers |-> NoKeys]
    /\ cfg' = [p \in Configurers |-> defaultConfig]
    /\ effective' = [set |-> FALSE, cfg |-> defaultConfig] /\ stopped' = FALSE
    /\ UNCHANGED <<mirror, stored>>

Step(p) ==
    \/ \E y \in Requests : Configure(p, y)
    \/ ReadMirror(p) \/ RejectMirror(p)
    \/ WriteTemporary(p) \/ StorageFails(p) \/ Rename(p) \/ Install(p)

Next == Shutdown \/ Crash \/ \E p \in Configurers : Step(p)

Spec == Init /\ [][Next]_vars

----------------------------------------------------------------------------
(* Properties.                                                             *)

\* settings.json mirrors the effective configuration (service.go:142): with
\* no call under way, the mirror in the effective data directory says what
\* is in effect, whatever calls failed and however often the host died.
MirrorIsEffective ==
    Settled /\ effective.set /\ effective.cfg.data_dir # NoDir
        => mirror[effective.cfg.data_dir] = Written(effective.cfg)

\* Registering again with the same YAML, after a restart say, gives the
\* configuration that was stored for it: filling in and normalizing a second
\* time change nothing.
RegisterAgain ==
    Settled /\ stored.set
        => /\ Acceptable(stored.yaml, mirror)
           /\ Normal(Filled(stored.yaml, mirror)) = stored.cfg

\* Which files the mirror marks as dedicated, as the credential script reads it.
Marks(f) ==
    IF f.state = "broken" \/ "dedicated_auth_files" \in f.mistyped THEN {"unknown"}
    ELSE IF "dedicated_auth_files" \in DOMAIN f.saved THEN f.saved.dedicated_auth_files
    ELSE {}

\* The marks are never forgotten (service.go:170): they change only by a
\* call whose YAML names them, and a broken file is never replaced.
MarksKept ==
    [][\A d \in Dirs : Marks(mirror'[d]) # Marks(mirror[d])
          => \E p \in Configurers :
                /\ Active(p) /\ "dedicated_auth_files" \in DOMAIN yaml[p]
                /\ mirror[d].state # "broken"
                /\ Marks(mirror'[d]) = yaml[p].dedicated_auth_files]_vars
=============================================================================
