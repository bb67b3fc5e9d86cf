---------------------------- MODULE MCEvaluation ----------------------------
(***************************************************************************)
(* Data sets of up to ten prompts of two kinds for TLC, with answers and   *)
(* evidence at the edges of the metrics.                                   *)
(***************************************************************************)
EXTENDS Evaluation

Sentence(line, size, tokens, points) ==
    [line |-> line, size |-> size, tokens |-> tokens,
     number |-> points # <<>>, points |-> points]
Number(claim) == [claim EXCEPT !.number = TRUE]

MCAnswers ==
    { <<>>,
      <<Sentence("prose", "long", {"f1"}, <<"f1", "f2">>), Sentence("prose", "tiny", {}, <<>>)>>,
      <<Sentence("prose", "long", {"f2"}, <<"f1", "f1", "f2">>),
        Number(Sentence("prose", "long", {"f1"}, <<>>)), Sentence("prose", "long", {}, <<>>)>>,
      <<Sentence("critical_advice", "short", {"f1"}, <<"f1">>)>>,
      <<Sentence("forbidden_advice", "long", {"f2"}, <<"f2">>)>> }

Source(key, words) == [key |-> key, title |-> {}, words |-> words]
S1 == Source("snippet", {"f1"})
S2 == [Source("snippet", {"f1", "f2"}) EXCEPT !.title = {"request", "execute"}]
S3 == Source("text", {"f2"})
Blank == Source("snippet", {})

Entry(answer, stopped, sources, critical, tools, expected) ==
    [answer |-> answer, stopped |-> stopped, sources |-> sources, critical |-> critical,
     tools |-> tools, requires_approval |-> expected]

MCEntries ==
    {Entry(a, TRUE, s, FALSE, {"read"}, FALSE) :
        a \in MCAnswers, s \in {{}, {S1}, {S1, S2}, {S1, S3}, {Blank}}}
    \cup {Entry(a, TRUE, {S1}, FALSE, {"apply"}, e) : a \in MCAnswers, e \in BOOLEAN}
    \cup {Entry(a, FALSE, s, FALSE, {"apply"}, TRUE) : a \in MCAnswers \ {<<>>}, s \in {{S1}, {S1, S2}}}
    \cup {Entry(<<>>, TRUE, {S1, S2}, TRUE, {}, TRUE)}
=============================================================================
