----------------------------- MODULE MCCompaction -----------------------------
(* An instance of CompactedPeer: three claims of one key, the last two of  *)
(* the same content; logs of four operations that are compacted twice; and *)
(* logs with two ids for the merges.                                       *)
EXTENDS CompactedPeer, TLC

CONSTANTS a, b, c, k, e, origin, r1, r2

Anywhere == [from |-> None, until |-> None, context |-> <<>>]

Added(x) == [kind |-> "claim", claim |-> x]
Cited == [kind |-> "evidence", evidence |-> e]
Origin == [kind |-> "source", source |-> origin]
Gone == [kind |-> "retraction", target |-> a, ref |-> None]
GoneByRef == [kind |-> "retraction", target |-> None, ref |-> r2]
Choice ==
  [kind |-> "resolution", id |-> "choice", lane |-> <<k, None>>, seen |-> {a, b},
   outcome |-> "select", selected |-> {a}, rejected |-> {b}, retained |-> {}, at |-> 1]
Reopening ==
  [kind |-> "event", id |-> "reopening", lane |-> <<k, None>>, seen |-> {a, b},
   status |-> "reopened", resolution |-> None, at |-> 2]

Claims == {a, b, c}
OnlyKey == {k}
OnlyScope == {None}
Keys == [x \in Claims |-> k]
ClaimRefs == <<a :> r1 @@ b :> r2 @@ c :> r2>>
Cites == a :> {e} @@ b :> {} @@ c :> {e}
Sources == e :> origin
Values == <<a :> 1 @@ b :> 2 @@ c :> 2>>
Pairs == <<{{a, b}, {a, c}}>>
NoKeys == <<{}>>
Kinds == [x \in Claims |-> "belief"]
Shapes == {Anywhere}
ShapesOf == [x \in Claims |-> Anywhere]
Ranks == a :> 1 @@ b :> 2 @@ c :> 3
Operations ==
  {Added(a), Added(b), Added(c), Cited, Origin, Gone, GoneByRef, Choice, Reopening}
Citations == [o \in {Gone, GoneByRef, Choice} |-> {}]

NewStream == [ops |-> <<>>, ends |-> {}]
Logged ==
  {FoldLeft(Appended, NewStream, batches) : batches \in
     {<<{Added(a), Cited}, {Added(b)}>>, <<{GoneByRef}, {Added(a)}, {Choice}>>,
      <<{Cited}, {Added(a)}, {Gone}>>}}
Events == {{Added(b), Origin}, {Added(c)}, {Gone}, {Choice}, {Reopening}}

Kept == [kind |-> "claim", body |-> 1, key |-> "key", dated |-> TRUE,
         signature |-> <<"secret", 1>>]
Forged == [Kept EXCEPT !.body = 2]
Decided == [Kept EXCEPT !.kind = "resolution", !.key = "none", !.signature = "none"]
Withdrawn == [Kept EXCEPT !.kind = "retraction", !.key = "old", !.signature = <<"past", 1>>]
Writings == {Kept, Forged, Decided, Withdrawn, [Kept EXCEPT !.dated = FALSE]}
Secrets == [key |-> "secret", old |-> "past"]
Policies ==
  {[secrets |-> Secrets, revoked |-> gone, signed |-> all, timestamps |-> all]
     : gone \in {{}, {"old"}}, all \in BOOLEAN}
===============================================================================
