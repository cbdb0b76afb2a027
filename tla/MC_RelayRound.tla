---------------------------- MODULE MC_RelayRound ----------------------------
(* RelayRound in all its forms: requests whose catalogs have duplicates,   *)
(* namespaces, dotted names and every tool_choice, with histories to match,*)
(* and responses of up to two calls, sound or broken in one way each.      *)
EXTENDS RelayRound

MCModes == {"once", "http", "ws"}

F == [ns |-> <<>>, name |-> <<"f">>, type |-> "function", def |-> "strict"]
Lax == [F EXCEPT !.def = "lax"]
C == [ns |-> <<"n">>, name |-> <<"c">>, type |-> "custom", def |-> "raw"]
Dotted == [ns |-> <<>>, name |-> <<"n", "c">>, type |-> "function", def |-> "lax"]

Choice(kind, tools, required) == [kind |-> kind, tools |-> tools, required |-> required]
Pick(s) == [key |-> clientToolCallName(s), type |-> s.type]
Auto == Choice("auto", <<>>, FALSE)

Call(s, id, payload) ==
    [type |-> IF s.type = "custom" THEN "custom_tool_call" ELSE "function_call",
     ns |-> s.ns, name |-> s.name, id |-> id, payload |-> payload]
OwnCall == [Call(F, "o", "json") EXCEPT !.name = <<"run_officejs">>]
Old == <<Call(C, "o", "text"), Other("custom_tool_call_output", "o"),
         Other("reasoning", ""), Other("item_reference", "x"),
         Other("compaction_trigger", "")>>
Orphan == <<Other("additional_tools", ""), Other("custom_tool_call_output", "q"), OwnCall,
            Other("function_call_output", "o"), Call(F, "", "object")>>

Source(tools, topLevel, choice, parallel, history) ==
    [tools |-> tools, topLevel |-> topLevel, choice |-> choice, parallel |-> parallel,
     history |-> history]
MCSources ==
    {Source(<<F, C>>, TRUE, Auto, TRUE, <<>>),
     Source(<<F, C>>, TRUE, Choice("tool", <<Pick(F)>>, FALSE), FALSE, Old),
     Source(<<F, C, Lax, C, F>>, FALSE, Auto, FALSE, Orphan),
     Source(<<C, Dotted>>, TRUE, Choice("required", <<>>, FALSE), TRUE, Orphan),
     Source(<<C, Dotted>>, TRUE, Choice("allowed", <<Pick(C)>>, TRUE), TRUE, <<>>),
     Source(<<Lax, F, C>>, TRUE, Choice("allowed", <<Pick(C)>>, FALSE), TRUE, Old),
     Source(<<F>>, TRUE, Choice("none", <<>>, FALSE), TRUE, <<>>),
     Source(<<F>>, TRUE, Auto, TRUE, <<Call(C, "o", "object")>>)}

New(key, code, id) ==
    [outer |-> TRUE, parsed |-> TRUE, refs |-> [kind |-> "one", name |-> key],
     code |-> [text |-> code, tool |-> <<>>, args |-> ""], id |-> id]
Legacy(key, args, id) ==
    [New(<<>>, "envelope", id) EXCEPT
        !.refs.kind = "absent", !.code.tool = key, !.code.args = args]
f == <<"f">>
nc == <<"n", "c">>
Pairable ==
    {New(f, "json", "a"), New(f, "json", "b"), New(nc, "text", "a"), New(nc, "envelope", "b"),
     Legacy(nc, "text", "b"), New(nc, "bad", "")}
Single ==
    {New(f, "quoted", "a"), New(f, "bad", "a"), New(f, "text", "a"), New(f, "none", "a"),
     New(<<"g">>, "json", "a"), New(<<"run_officejs">>, "json", "a"), New(<<>>, "json", "a"),
     Legacy(f, "object", "a"), Legacy(f, "quoted", "a"), Legacy(nc, "object", "a"),
     Legacy(<<"functions", "run_officejs">>, "text", "a"),
     [New(f, "json", "a") EXCEPT !.outer = FALSE],
     [New(f, "json", "a") EXCEPT !.parsed = FALSE],
     [New(f, "json", "a") EXCEPT !.refs.kind = "other"],
     [New(f, "json", "a") EXCEPT !.refs.kind = "empty"],
     [New(f, "text", "a") EXCEPT !.refs.kind = "absent"]}
MCAnswers ==
    {<<>>} \cup {<<n>> : n \in Single \cup Pairable}
        \cup {<<n, m>> : n \in Pairable, m \in Pairable \cup Single}
=============================================================================
