----------------------------- MODULE MCCompiler ------------------------------
(***************************************************************************)
(* Instances of Compiler for TLC: documents with every small graph and no  *)
(* templates, and documents with one or two steps and templates.           *)
(***************************************************************************)
EXTENDS Compiler

Doc(e, s) == [entry |-> e, steps |-> s, schema |-> {}, vars |-> <<>>]

Step(s, ok, fail) == [id |-> s, type |-> "ssh", onSuccess |-> ok, onFailure |-> fail,
                      texts |-> << <<"lit">> >>, marked |-> {}]
End(s) == [id |-> s, type |-> "end", texts |-> <<>>, marked |-> {}]

(* Every runbook of three steps with distinct identifiers and branches     *)
(* among them, whose entry is "a" up to renaming.                          *)
Shapes(s, targets) == {End(s)} \union {Step(s, t, u) : t \in targets, u \in targets}
Three == {"a", "b", "c"}
ThreeSteps == {Doc("a", <<x, y, z>>) : x \in Shapes("a", Three), y \in Shapes("b", Three),
                                       z \in Shapes("c", Three)}

(* A repeated identifier, a missing target, a missing entry.               *)
Loose == {"a", "b", "missing"}
TwoSteps == {Doc(e, <<x, y>>) : e \in Loose, x \in Shapes("a", Loose),
               y \in Shapes("a", {"a"}) \union Shapes("b", Loose)}

(* Chains as long as the recursion limit of four calls, and longer, with   *)
(* cycles among them.                                                      *)
Deep == {Doc("a", <<Step("a", "b", t), Step("b", "c", u), Step("c", v, "d"),
                    IF long THEN Step("d", "e", "e") ELSE End("d"), End("e")>>) :
           t \in {"b", "d"}, u \in {"c", "d"}, v \in {"a", "b", "d"}, long \in BOOLEAN}

(* Variables x and y in either order, whose texts are plain, name one      *)
(* another, one nobody defines or one given with --var, or are malformed.  *)
Values == {<<"lit">>, <<"x">>, <<"y">>, <<"z">>, <<"lit", "y">>, <<"bad">>}
Variable(n, v) == [name |-> n, isText |-> TRUE, value |-> v]
Number(n) == [name |-> n, isText |-> FALSE, value |-> <<"5">>]
Variables ==
  {<<Variable("x", v), Variable("y", w)>> : v \in Values, w \in Values}
    \union {<<Variable("y", w), Variable("x", v)>> : v \in Values, w \in Values}
    \union {<<Variable("x", v), Number("y")>> : v \in Values}
    \union {<<Variable("x", v)>> : v \in Values}

Page(title, message) == [id |-> "a", type |-> "escalate", texts |-> <<title, message>>,
                         marked |-> {}]
Rendered == {[Doc("a", <<Page(title, message)>>) EXCEPT !.vars = v] :
               v \in Variables, title \in {<<"x">>, <<"lit", "y">>, <<"bad">>},
               message \in {<<"lit">>, <<"y", "x">>, <<"z">>}}

(* Markup in a key of a step, or in the channel of an escalation, and a    *)
(* schema issue.                                                           *)
Channel == {[Doc("a", <<[Page(<<"lit">>, <<"z">>) EXCEPT !.marked = m]>>) EXCEPT !.schema = s] :
              m \in {{"slack_channel"}, {"name", "slack_channel"}}, s \in {{}, {"RBK102"}}}
Marked == {[Doc("a", <<[End("a") EXCEPT !.marked = {key}]>>) EXCEPT !.schema = s] :
             key \in Prohibited \union {"name"}, s \in {{}, {"RBK102"}}}
Empty == {[Doc("a", <<>>) EXCEPT !.schema = {"RBK103"}]}

MCDocuments == ThreeSteps \union TwoSteps \union Deep \union Rendered \union Marked
                 \union Channel \union Empty
TemplateDocuments == Rendered
MarkedDocuments == TwoSteps \union Marked \union Channel

MCRuntimeValues == {<<>>, [n \in {"z"} |-> <<"5">>], [n \in {"x", "z"} |-> <<"given">>]}
=============================================================================
