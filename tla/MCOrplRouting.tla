--------------------------- MODULE MCOrplRouting ---------------------------
(***************************************************************************)
(* Instances of OrplRouting.  Line: a below the root r, b below a.         *)
(* Triangle: c below both a and b, who hear each other, and cost the same  *)
(* (Equal) or not (Staggered).                                             *)
(***************************************************************************)
EXTENDS OrplRouting

CONSTANTS r, a, b, c, p1

Both(pairs) == pairs \cup {<<x[2], x[1]>> : x \in pairs}

LineLinks == Both({<<r, a>>, <<a, b>>})
LineMeetings == {<<b, a>>}
Rising == {[n \in Nodes |-> IF n = b THEN 6 ELSE 4]}

TriangleLinks == Both({<<r, a>>, <<a, b>>}) \cup {<<c, a>>, <<c, b>>}
TriangleMeetings == {<<a, r>>, <<c, a>>, <<c, b>>}
Equal == [n \in Nodes |-> IF n = c THEN 8 ELSE 4]
Staggered == [Equal EXCEPT ![b] = 6]
EqualOrStaggered == {Equal, Staggered}

FromRoot == [p \in Packets |-> r]
ToB == [p \in Packets |-> b]
=============================================================================
