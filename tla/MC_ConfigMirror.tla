-------------------------- MODULE MC_ConfigMirror --------------------------
(* ConfigMirror on a small instance.                                       *)
EXTENDS ConfigMirror, TLC

\* The panel's settings, one aspect at a time, and with another directory.
MCRequests ==
    {Malformed, NoKeys,
     "dedicated_auth_files" :> {"f1"},
     "dedicated_auth_files" :> {"f1", BadName},
     "dedicated_auth_files" :> {} @@ "limits" :> "set",
     "models" :> {"m2"} @@ "model_mappings" :> {"m2"},
     "models" :> {} @@ "alpha_search_model" :> "m2",
     "alpha_search_model" :> Native @@ "model_mappings" :> {},
     "data_dir" :> "d2" @@ "dedicated_auth_files" :> {"f1"},
     "data_dir" :> "d2" @@ "limits" :> "out_of_range",
     "data_dir" :> "d2", "data_dir" :> NoDir}

\* Left by an earlier version, by hand, or damaged.
MCMirrors ==
    {Absent, Broken,
     MirrorFile("object", "dedicated_auth_files" :> {"f1"}, {"models"}, {}),
     MirrorFile("object", "models" :> {"m2"}, {}, {"dedicated_auth_files"}),
     MirrorFile("object", "models" :> {"m2"}, {"limits"}, {})}

MCSymmetry == Permutations(Configurers)
=============================================================================
