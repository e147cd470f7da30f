---------------------------- MODULE VersionTree ----------------------------
(***************************************************************************)
(* The ordered version tree of packages/core/src/services/                 *)
(* version-tree-service.ts.  `vs' maps the id of each version to a record  *)
(* with its parent, its previous and next sibling and its place `order' in *)
(* the route, beside fields these operators carry along.  The operations   *)
(* read the sibling lists from the pointers, change one list, and write    *)
(* every pointer and every order anew.                                     *)
(***************************************************************************)
EXTENDS Naturals, FiniteSets, SequencesExt

CONSTANT Null                   \* no version: the top level, or no sibling

Children(vs, p) == {v \in DOMAIN vs : vs[v].parent = p}

\* The children of p, from the first along the next pointers.
Siblings(vs, p) ==
  LET children == Children(vs, p)
      from[v \in children] ==
        IF vs[v].next = Null THEN <<v>> ELSE <<v>> \o from[vs[v].next]
  IN  IF children = {} THEN <<>>
      ELSE from[CHOOSE v \in children : vs[v].previous = Null]

Lists(vs) == [p \in DOMAIN vs \cup {Null} |-> Siblings(vs, p)]

\* The versions below the top level, each before its children.
Traversal(lists) ==
  LET below[p \in DOMAIN lists] ==
        LET list == lists[p]
        IN  FlattenSeq([i \in DOMAIN list |-> <<list[i]>> \o below[list[i]]])
  IN  below[Null]

Linked(vs, v) ==
  /\ vs[v].parent \in (DOMAIN vs \cup {Null}) \ {v}
  /\ vs[v].previous # Null =>
       /\ vs[v].previous \in Children(vs, vs[v].parent) \ {v}
       /\ vs[vs[v].previous].next = v
  /\ vs[v].next # Null =>
       /\ vs[v].next \in Children(vs, vs[v].parent) \ {v}
       /\ vs[vs[v].next].previous = v

\* buildOrderedTree returns: no operation on the tree throws before it begins.
Readable(vs) ==
  /\ \A v \in DOMAIN vs : Linked(vs, v)
  /\ \A p \in DOMAIN vs \cup {Null} : Children(vs, p) # {} =>
       /\ Cardinality({v \in Children(vs, p) : vs[v].previous = Null}) = 1
       /\ Len(Siblings(vs, p)) = Cardinality(Children(vs, p))
  /\ Len(Traversal(Lists(vs))) = Cardinality(DOMAIN vs)

-----------------------------------------------------------------------------
(* Where a version may be placed.  A place is a parent and the neighbours  *)
(* named for it; Nowhere is a refusal.                                     *)

Nowhere == {}
At(parent, previous, next) ==
  {[parent |-> parent, previous |-> previous, next |-> next]}

Position(list, v) == CHOOSE i \in DOMAIN list : list[i] = v
Without(list, v) == RemoveAt(list, Position(list, v))
LastOf(list) == IF list = <<>> THEN Null ELSE Last(list)
Mutable(vs, v) == v # Null => vs[v].state # "close"

\* A closed version at the end of the top level takes a successor.
AllowsAppend(vs, v) ==
  \/ Mutable(vs, v)
  \/ vs[v].parent = Null /\ vs[v].next = Null

\* Between, after or before the named members of `list'.  Only the named ones
\* are looked at, not what stands on the other side.
Beside(vs, list, parent, previous, next, successor) ==
  IF /\ {previous, next} # {Null}
     /\ {previous, next} \ {Null} \subseteq ToSet(list)
     /\ \/ Mutable(vs, previous)
        \/ successor /\ next = Null /\ parent = Null /\ AllowsAppend(vs, previous)
     /\ Mutable(vs, next)
     /\ previous # Null /\ next # Null =>
          Position(list, previous) + 1 = Position(list, next)
  THEN At(parent, previous, next)
  ELSE Nowhere

ToCreate(vs) ==
  LET tail == LastOf(Siblings(vs, Null))
  IN  IF AllowsAppend(vs, tail) THEN At(Null, tail, Null) ELSE Nowhere

ToInsert(vs, previous, next) ==
  LET parent == IF previous # Null THEN vs[previous].parent
                ELSE IF next # Null THEN vs[next].parent ELSE Null
  IN  Beside(vs, Siblings(vs, parent), parent, previous, next, TRUE)

ToAddChild(vs, parent, previous, next) ==
  LET list == Siblings(vs, parent)
  IN  IF ~ Mutable(vs, parent) THEN Nowhere
      ELSE IF {previous, next} # {Null}
      THEN Beside(vs, list, parent, previous, next, FALSE)
      ELSE IF Mutable(vs, LastOf(list)) THEN At(parent, LastOf(list), Null)
      ELSE Nowhere

ToReorder(vs, v, previous, next) ==
  LET parent == vs[v].parent
  IN  IF \A u \in {v, vs[v].previous, vs[v].next} : Mutable(vs, u)
      THEN Beside(vs, Without(Siblings(vs, parent), v), parent, previous, next, FALSE)
      ELSE Nowhere

-----------------------------------------------------------------------------
(* Placing a version.                                                      *)

InsertSibling(list, v, place) ==
  LET i == IF place.previous # Null THEN Position(list, place.previous) + 1
           ELSE IF place.next # Null THEN Position(list, place.next)
           ELSE Len(list) + 1
  IN  InsertAt(list, i, v)

\* Faulty variant: versions that have an order keep it.
RebuiltKeepsOrder(vs, lists) ==
  LET parentOf(v) == CHOOSE p \in DOMAIN lists : v \in ToSet(lists[p])
      linked(v, list, i) ==
        [vs[v] EXCEPT !.parent = parentOf(v),
                      !.previous = IF i = 1 THEN Null ELSE list[i - 1],
                      !.next = IF i = Len(list) THEN Null ELSE list[i + 1],
                      !.order = IF @ = 0 THEN Cardinality(DOMAIN vs) ELSE @]
  IN  [v \in DOMAIN vs |-> linked(v, lists[parentOf(v)], Position(lists[parentOf(v)], v))]

\* Faulty variant: counts the route from zero.
RebuiltFromZero(vs, lists) ==
  [v \in DOMAIN vs |->
    [RebuiltKeepsOrder(vs, lists)[v] EXCEPT !.order = Position(Traversal(lists), v) - 1]]

\* Every pointer and order, from the lists (rebuildVersions).
Rebuilt(vs, lists) ==
  LET route == Traversal(lists)
  IN  [v \in DOMAIN vs |->
        LET parent == CHOOSE p \in DOMAIN lists : v \in ToSet(lists[p])
            list == lists[parent]
            i == Position(list, v)
        IN  [vs[v] EXCEPT !.parent = parent,
                          !.previous = IF i = 1 THEN Null ELSE list[i - 1],
                          !.next = IF i = Len(list) THEN Null ELSE list[i + 1],
                          !.order = Position(route, v)]]

\* A version as it is created, before it is placed.
Created == [parent |-> Null, previous |-> Null, next |-> Null, order |-> 0,
            state |-> "wait", isCurrent |-> FALSE]

With(f, x, y) == [z \in DOMAIN f \cup {x} |-> IF z = x THEN y ELSE f[z]]

Added(vs, v, place) ==
  Rebuilt(With(vs, v, Created),
          With([Lists(vs) EXCEPT ![place.parent] = InsertSibling(@, v, place)], v, <<>>))

\* Faulty variant: exchanges the version and the neighbour named for it.
MovedByExchange(vs, v, place) ==
  LET w == IF place.previous # Null THEN place.previous ELSE place.next
      list == Siblings(vs, place.parent)
  IN  Rebuilt(vs, [Lists(vs) EXCEPT ![place.parent] =
        [i \in DOMAIN list |-> IF list[i] = v THEN w ELSE IF list[i] = w THEN v ELSE list[i]]])

Moved(vs, v, place) ==
  Rebuilt(vs, [Lists(vs) EXCEPT ![place.parent] = InsertSibling(Without(@, v), v, place)])
=============================================================================
