--------------------------- MODULE OrderedForest ---------------------------
(***************************************************************************)
(* What the route promises as a structure: an ordered forest.  A step      *)
(* inserts a run of new versions in one place of one sibling list, or      *)
(* moves one version, with what is below it, within its list.  Nothing     *)
(* else moves, changes its parent or disappears.                           *)
(***************************************************************************)
EXTENDS Naturals, SequencesExt

CONSTANTS Version, Null

VARIABLE lists                  \* per version, and for the top level, its children

Parent == Version \cup {Null}
Present(old) == UNION {ToSet(old[p]) : p \in Parent}

Init == \E top \in {<<>>} \cup {<<v>> : v \in Version} :
          lists = [p \in Parent |-> IF p = Null THEN top ELSE <<>>]

Spliced(list, i, run) == SubSeq(list, 1, i) \o run \o SubSeq(list, i + 1, Len(list))

\* From the lists `old' to the lists `new'.
Insert(old, new, p, i) ==
  LET run == SubSeq(new[p], i + 1, i + Len(new[p]) - Len(old[p]))
  IN  /\ run # <<>>
      /\ p \in Present(old) \cup {Null}
      /\ IsInjective(run) /\ ToSet(run) \subseteq Version \ Present(old)
      /\ new = [old EXCEPT ![p] = Spliced(@, i, run)]

Move(old, new, p, j, i) ==
  new = [old EXCEPT ![p] = Spliced(RemoveAt(@, j), i, <<@[j]>>)]

Next ==
  LET old == lists
      new == lists'
  IN  /\ old # new
      /\ \E p \in Parent : \E i \in 0..Len(old[p]) :
           \/ Insert(old, new, p, i)
           \/ i < Len(old[p]) /\ \E j \in DOMAIN old[p] : Move(old, new, p, j, i)

Spec == Init /\ [][Next]_lists
=============================================================================
