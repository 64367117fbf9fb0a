--------------------------- MODULE MCMoonshotChat ---------------------------
(* Answers for the runs of MoonshotChat. *)
EXTENDS MoonshotChat

Deltas == {DeltaEvent(<<"a">>, <<>>), DeltaEvent(<<"u", "a">>, <<>>),
           DeltaEvent(<<"u">>, <<"length">>), DeltaEvent(<<>>, <<"stop">>),
           Comment}

\* Two events, and the end mark or not.  The model gives its reason to stop
\* with the last delta.
ShortAnswers ==
    {<<d, e>> \o end : d \in {x \in Deltas : x.kind = "delta" => x.reason = <<>>},
                      e \in Deltas, end \in {<<>>, <<Done>>}}
        \cup {<<d, Comment, Done>> : d \in Deltas}
=============================================================================
