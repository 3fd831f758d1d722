-------------------------------- MODULE MCViews --------------------------------
(* An instance of AgentView.  Of key k, a, b and g exclude each other; c    *)
(* and d apply elsewhere, one after the other, so that g conflicts with    *)
(* them and a and b do not.  Of key j there is z, which a detector finds   *)
(* at odds with c.                                                         *)
EXTENDS AgentView, TLC

CONSTANTS a, b, c, d, g, z, k, j, e, origin, spans, scoped, n, m

At(from, until, context) == [from |-> from, until |-> until, context |-> context]

Here == n :> 1
There == n :> 2

Claims == {a, b, c, d, g, z}
Keys == [x \in Claims |-> IF x = z THEN j ELSE k]
Refs1 == [x \in Claims |-> x]
RefsOf == <<Refs1>>
Values == <<a :> 1 @@ b :> 2 @@ c :> 3 @@ d :> 4 @@ g :> 5 @@ z :> 6>>
ShapesOf ==
  a :> At(None, None, Here) @@ b :> At(1, None, Here @@ m :> 1) @@ c :> At(1, 2, There)
    @@ d :> At(2, None, There) @@ g :> At(None, 2, m :> 1) @@ z :> At(None, None, <<>>)
Pairs == <<{{a, b}, {a, g}, {b, g}, {c, g}}>>
NoKeys == <<{}>>
Kinds == a :> "belief" @@ b :> "belief" @@ c :> "policy" @@ d :> "belief" @@ g :> "fact" @@ z :> "fact"
Ranks == a :> 1 @@ b :> 2 @@ c :> 3 @@ d :> 4 @@ g :> 5 @@ z :> 6
Cites == [x \in Claims |-> IF x = b THEN {e} ELSE {}]
Sources == e :> origin
Findings == {[ref |-> spans, who |-> {c, z}]}
AllKeys == {k, j}
Scopes == {None, scoped}

Shapes ==
  {x \in [from : {None, 1, 2}, until : {None, 1, 2},
          context : UNION {[names -> {1, 2}] : names \in SUBSET {n, m}}] : WellFormed(x)}

Added(x) == [kind |-> "claim", claim |-> x]
Retracted(x) == [kind |-> "retraction", target |-> x, ref |-> None]
Choice ==
  [kind |-> "resolution", id |-> 10, lane |-> <<k, None>>, seen |-> {a, b},
   outcome |-> "select", selected |-> {b}, rejected |-> {a}, retained |-> {}, at |-> 0]

Operations ==
  {Added(x) : x \in Claims} \cup {Retracted(a), Retracted(b), Choice,
                                  [kind |-> "evidence", evidence |-> e]}

Logs ==
  {<<{Added(a), Added(b)}, {}>>, <<{Added(c), Added(d), Added(z)}, Findings>>}
    \cup ({{Added(b), Added(c), Added(g)}} \X {{}, Findings})

EvidenceRanks == [known \in BOOLEAN |-> e :> IF known THEN <<2, 1, 0, 1>> ELSE <<0, 0, 0, 1>>]
Scores == a :> <<2, 1, 0, 0>> @@ b :> <<2, 1, 0, 0>> @@ c :> <<1, 1, 0, 0>>
            @@ d :> <<1, 1, 0, 0>> @@ g :> <<2, 2, 0, 0>> @@ z :> <<1, 1, 0, 0>>
(* a and b read alike.                                                     *)
Texts == a :> 1 @@ b :> 1 @@ c :> 2 @@ d :> 3 @@ g :> 4 @@ z :> 5
Supersedes == Retracted(a) :> <<b, 1>>
Margins == <<1, 1, 1>>

Contenders ==
  [text : {1, 2}, rank : {<<0>>, <<1>>}, own : {<<x, y, 0, 0>> : x \in 0 .. 2, y \in {0, 2}}]
Clocks == UNION {[ids -> 0 .. 2] : ids \in SUBSET {"p", "q"}}

(* Written by p and q apart, except that g has seen a and b.               *)
By(x, time, clock) == [claim |-> x, branch |-> 1, time |-> time, clock |-> clock]
Writes ==
  a :> By(a, 1, [p |-> 1]) @@ b :> By(b, 2, [q |-> 1]) @@ c :> By(c, 3, [p |-> 2])
    @@ d :> By(d, 4, [p |-> 3]) @@ g :> By(g, 5, [p |-> 1, q |-> 2]) @@ z :> By(z, 6, [q |-> 3])

Said(x, why, big) == [chosen |-> x, reason |-> why, big |-> big]
Answers ==
  {Said(a, TRUE, FALSE), Said(b, FALSE, FALSE), Said("made up", TRUE, FALSE), Said(a, TRUE, TRUE)}
===============================================================================
