------------------------- MODULE MC_StreamDelivery --------------------------
(* StreamDelivery with four responses over a two-letter alphabet.          *)
EXTENDS StreamDelivery

AnItem(fam, id, parts) == [fam |-> fam, id |-> id, parts |-> parts]
Text(kind, text) == [kind |-> kind, text |-> text]

Thought(text) == AnItem("reasoning", "rs1", <<Text("summary_text", text)>>)
Said(text) == AnItem("message", "m1", <<Text("output_text", text)>>)
Call == AnItem("tool", "fc1", <<>>)

\* A thought, an answer and a tool call.
Usual == [id |-> "resp1", status |-> "completed",
          output |-> <<Thought(<<"a", "b">>), Said(<<"a", "b">>), Call>>]

\* The same response id, contradicting or extending the texts above.
Contrary == [id |-> "resp1", status |-> "completed",
             output |-> <<Thought(<<"a", "b">>), Said(<<"a", "a">>)>>]
Longer == [id |-> "resp1", status |-> "completed",
           output |-> <<AnItem("reasoning", "rs1",
                             <<Text("summary_text", <<"a", "b">>),
                               Text("summary_text", <<"b">>)>>),
                        Said(<<"a", "b", "b">>)>>]

\* Cut short, with a refusal between two texts.
Refused == [id |-> "resp2", status |-> "incomplete",
            output |-> <<AnItem("message", "m1",
                              <<Text("output_text", <<"a">>),
                                Text("refusal", <<>>),
                                Text("output_text", <<"b">>)>>)>>]

MCResponses == {Usual, Contrary, Longer, Refused}
=============================================================================
