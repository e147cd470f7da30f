------------------------- MODULE RouteLedgerProofs -------------------------
(***************************************************************************)
(* Theorems about one project, for any number of versions, todos, deferred *)
(* items and batches: first the lineage of work, in which the route plays  *)
(* no part; then the tree of versions and the current one; the records of  *)
(* work, which refer to versions; what a load accepts; the forest that the *)
(* versions implement; what the read side advises, and where it leads; and *)
(* what a load lets in, whoever made it.                                   *)
(***************************************************************************)
EXTENDS AggregateValidator, RouteGuide, VersionTreeProofs

IsSeq(s) == \E S : s \in Seq(S)

Active(type, id) == [status |-> "active", activeRecord |-> <<type, id>>]
Closed == [status |-> "closed", activeRecord |-> Null]

\* A todo of a work item, which names it as long as it is open.
TodoOK(t) ==
  /\ todos[t] = [workItem |-> todos[t].workItem, version |-> todos[t].version,
                 source |-> todos[t].source, status |-> todos[t].status]
  /\ todos[t].source \in Nat \cup {Null}
  /\ todos[t].workItem \in DOMAIN workItems
  /\ todos[t].status = "wait" => workItems[todos[t].workItem] = Active("todo", t)

\* The same of a deferred item; once activated it has led to a todo.
DeferredOK(d) ==
  LET x == deferredItems[d] IN
  /\ x = [workItem |-> x.workItem, origin |-> x.origin, target |-> x.target,
          status |-> x.status, activatedTodo |-> x.activatedTodo]
  /\ x.workItem \in DOMAIN workItems
  /\ x.status = "pending" => workItems[x.workItem] = Active("deferred", d)
  /\ x.status = "activated" =>
       /\ x.activatedTodo \in DOMAIN todos
       /\ todos[x.activatedTodo].workItem = x.workItem
       /\ todos[x.activatedTodo].source = d

\* An active work item names an open record of its own.
WorkItemOK(w) ==
  \/ workItems[w] = Closed
  \/ \E t \in DOMAIN todos : /\ workItems[w] = Active("todo", t)
                             /\ todos[t].workItem = w /\ todos[t].status = "wait"
  \/ \E d \in DOMAIN deferredItems :
       /\ workItems[w] = Active("deferred", d)
       /\ deferredItems[d].workItem = w /\ deferredItems[d].status = "pending"

\* The inductive invariant.
LineageInv ==
  /\ IsSeq(todos) /\ IsSeq(deferredItems) /\ IsSeq(workItems)
  /\ \A t \in DOMAIN todos : TodoOK(t)
  /\ \A d \in DOMAIN deferredItems : DeferredOK(d)
  /\ \A w \in DOMAIN workItems : WorkItemOK(w)

-----------------------------------------------------------------------------
\* q is s and one more element, e, which leaves what was there in its place.
Appends(q, s, e) ==
  /\ IsSeq(q)
  /\ Len(s) \in Nat /\ DOMAIN s = 1..Len(s)
  /\ DOMAIN q = DOMAIN s \cup {Len(s) + 1}
  /\ Len(s) + 1 \notin DOMAIN s
  /\ \A i \in DOMAIN s : q[i] = s[i]
  /\ q[Len(s) + 1] = e

LEMMA AppendFacts ==
  ASSUME NEW s, IsSeq(s), NEW e
  PROVE  Appends(Append(s, e), s, e)
<1>1. PICK S : s \in Seq(S)
  BY DEF IsSeq
<1>2. s \in Seq(S \cup {e})
  BY <1>1
<1>3. e \in S \cup {e}
  OBVIOUS
<1>4. Append(s, e) \in Seq(S \cup {e}) /\ Len(Append(s, e)) = Len(s) + 1
  BY <1>2, <1>3, AppendProperties
<1> QED
  BY <1>2, <1>3, <1>4, AppendProperties DEF IsSeq, Appends

\* q is s, followed by r.
Extends(q, s, r) ==
  /\ IsSeq(q)
  /\ Len(s) \in Nat /\ DOMAIN s = 1..Len(s)
  /\ Len(r) \in Nat /\ DOMAIN r = 1..Len(r)
  /\ DOMAIN q = 1..(Len(s) + Len(r))
  /\ \A i \in 1..Len(s) : q[i] = s[i]
  /\ \A i \in 1..Len(r) : q[Len(s) + i] = r[i]

LEMMA ConcatFacts ==
  ASSUME NEW s, IsSeq(s), NEW r, IsSeq(r)
  PROVE  Extends(s \o r, s, r)
<1>1. PICK S : s \in Seq(S)
  BY DEF IsSeq
<1>2. PICK R : r \in Seq(R)
  BY DEF IsSeq
<1>3. s \in Seq(S \cup R) /\ r \in Seq(S \cup R)
  BY <1>1, <1>2
<1>4. /\ s \o r \in Seq(S \cup R)
      /\ Len(s \o r) = Len(s) + Len(r)
      /\ \A i \in 1..(Len(s) + Len(r)) :
           (s \o r)[i] = IF i <= Len(s) THEN s[i] ELSE r[i - Len(s)]
  BY <1>3, ConcatProperties
<1>5. /\ Len(s) \in Nat /\ DOMAIN s = 1..Len(s)
      /\ Len(r) \in Nat /\ DOMAIN r = 1..Len(r)
  BY <1>1, <1>2
<1>6. ASSUME NEW i \in 1..Len(r) PROVE (s \o r)[Len(s) + i] = r[i]
  BY <1>4, <1>5, <1>6
<1> QED
  BY <1>4, <1>5, <1>6 DEF IsSeq, Extends

\* A sequence with one element changed.
LEMMA ExceptFacts ==
  ASSUME NEW s, IsSeq(s), NEW j \in DOMAIN s, NEW e
  PROVE  LET r == [s EXCEPT ![j] = e] IN
         /\ IsSeq(r)
         /\ DOMAIN r = DOMAIN s
         /\ r[j] = e
         /\ \A i \in DOMAIN s : i # j => r[i] = s[i]
<1>1. PICK S : s \in Seq(S)
  BY DEF IsSeq
<1>2. s \in Seq(S \cup {e})
  BY <1>1
<1>3. [s EXCEPT ![j] = e] \in Seq(S \cup {e})
  BY <1>2
<1> QED
  BY <1>2, <1>3 DEF IsSeq
-----------------------------------------------------------------------------
LEMMA LineageInitially == Init => LineageInv
<1> SUFFICES ASSUME Init PROVE LineageInv
  OBVIOUS
<1>1. IsSeq(<<>>)
  BY DEF IsSeq
<1> QED
  BY <1>1 DEF Init, LineageInv

\* What LineageInv says beyond its use as an invariant: the set of open records.
LEMMA LineageImplies == LineageInv => LineageIsSound
<1> SUFFICES ASSUME LineageInv PROVE LineageIsSound
  OBVIOUS
<1> DEFINE OpenTodo(t, w) == todos[t].workItem = w /\ todos[t].status = "wait"
           OpenDeferred(d, w) ==
             deferredItems[d].workItem = w /\ deferredItems[d].status = "pending"
<1>a. ASSUME NEW w, NEW r
      PROVE  r \in OpenRecords(w) <=>
               \/ \E t \in DOMAIN todos : r = <<"todo", t>> /\ OpenTodo(t, w)
               \/ \E d \in DOMAIN deferredItems : r = <<"deferred", d>> /\ OpenDeferred(d, w)
  BY DEF OpenRecords
<1>b. ASSUME NEW w, NEW r \in OpenRecords(w)
      PROVE  workItems[w].status = "active" /\ workItems[w].activeRecord = r
  <2>1. ASSUME NEW t \in DOMAIN todos, r = <<"todo", t>>, OpenTodo(t, w)
        PROVE  workItems[w] = Active("todo", t)
    BY <2>1 DEF LineageInv, TodoOK
  <2>2. ASSUME NEW d \in DOMAIN deferredItems, r = <<"deferred", d>>, OpenDeferred(d, w)
        PROVE  workItems[w] = Active("deferred", d)
    BY <2>2 DEF LineageInv, DeferredOK
  <2>3. \/ \E t \in DOMAIN todos : r = <<"todo", t>> /\ OpenTodo(t, w)
        \/ \E d \in DOMAIN deferredItems : r = <<"deferred", d>> /\ OpenDeferred(d, w)
    BY <1>a, <1>b
  <2> HIDE DEF OpenTodo, OpenDeferred
  <2>4. \E type, id : r = <<type, id>> /\ workItems[w] = Active(type, id)
    BY <2>1, <2>2, <2>3
  <2> QED
    BY <2>4 DEF Active
<1>1. ASSUME NEW w \in DOMAIN workItems, workItems[w] = Closed
      PROVE  OpenRecords(w) = {}
  BY <1>1, <1>b DEF Closed
<1>2. ASSUME NEW w \in DOMAIN workItems, NEW type, NEW id,
             workItems[w] = Active(type, id), <<type, id>> \in OpenRecords(w)
      PROVE  OpenRecords(w) = {workItems[w].activeRecord}
  BY <1>2, <1>b
<1>3. ASSUME NEW w \in DOMAIN workItems
      PROVE  OpenRecords(w) = IF workItems[w].status = "active"
                              THEN {workItems[w].activeRecord} ELSE {}
  <2>1. CASE workItems[w] = Closed
    BY <1>1, <2>1 DEF Closed
  <2>2. CASE \E t \in DOMAIN todos : /\ workItems[w] = Active("todo", t)
                                     /\ todos[t].workItem = w /\ todos[t].status = "wait"
    BY <1>2, <1>a, <2>2 DEF Active
  <2>3. CASE \E d \in DOMAIN deferredItems :
               /\ workItems[w] = Active("deferred", d)
               /\ deferredItems[d].workItem = w /\ deferredItems[d].status = "pending"
    BY <1>2, <1>a, <2>3 DEF Active
  <2> QED
    BY <2>1, <2>2, <2>3 DEF LineageInv, WorkItemOK
<1> QED
  BY <1>3 DEF LineageIsSound, LineageInv, DeferredOK

-----------------------------------------------------------------------------
(* One lemma per command that changes the work.                            *)

LEMMA RecordNames ==
  /\ \A a, b, i, j : Active(a, i) = Active(b, j) <=> a = b /\ i = j
  /\ \A a, i : Active(a, i) # Closed
<1>1. ASSUME NEW a, NEW b, NEW i, NEW j
      PROVE  Active(a, i) = Active(b, j) <=> a = b /\ i = j
  BY DEF Active
<1>2. ASSUME NEW a, NEW i PROVE Active(a, i) # Closed
  <2>1. Active(a, i).status # Closed.status
    BY DEF Active, Closed
  <2> QED
    BY <2>1
<1> QED
  BY <1>1, <1>2

LEMMA CloseTodoStep ==
  ASSUME LineageInv, NEW t \in DOMAIN todos, CloseTodo(t)
  PROVE  LineageInv'
<1> DEFINE w == todos[t].workItem
<1>1. w \in DOMAIN workItems /\ workItems[w] = Active("todo", t)
  BY DEF LineageInv, TodoOK, CloseTodo, ActiveTodo
<1>2. /\ IsSeq(todos') /\ DOMAIN todos' = DOMAIN todos
      /\ todos'[t] = [todos[t] EXCEPT !.status = "closed"]
      /\ \A u \in DOMAIN todos : u # t => todos'[u] = todos[u]
  BY ExceptFacts DEF LineageInv, CloseTodo
<1>3. /\ todos'[t] = [workItem |-> w, version |-> todos[t].version,
                      source |-> todos[t].source, status |-> "closed"]
      /\ todos[t].source \in Nat \cup {Null}
  BY <1>2 DEF LineageInv, TodoOK
<1>4. /\ IsSeq(workItems') /\ DOMAIN workItems' = DOMAIN workItems
      /\ workItems'[w] = Closed
      /\ \A v \in DOMAIN workItems : v # w => workItems'[v] = workItems[v]
  BY <1>1, ExceptFacts DEF LineageInv, CloseTodo, Finish, Closed
<1>5. deferredItems' = deferredItems
  BY DEF CloseTodo
<1> HIDE DEF w
<1>6. ASSUME NEW u \in DOMAIN todos PROVE TodoOK(u)'
  <2>1. CASE u = t
    BY <1>1, <1>3, <1>4, <2>1 DEF TodoOK
  <2>2. CASE u # t
    BY <1>1, <1>2, <1>4, <2>2, RecordNames DEF LineageInv, TodoOK
  <2> QED
    BY <2>1, <2>2
<1>7. \A u \in DOMAIN todos : /\ todos'[u].workItem = todos[u].workItem
                            /\ todos'[u].source = todos[u].source
  BY <1>2, <1>3 DEF w
<1>8. ASSUME NEW d \in DOMAIN deferredItems PROVE DeferredOK(d)'
  <2>1. DeferredOK(d)
    BY DEF LineageInv
  <2>2. deferredItems[d].status = "pending" => deferredItems[d].workItem # w
    BY <1>1, <2>1, RecordNames DEF DeferredOK
  <2> QED
    BY <1>2, <1>4, <1>5, <1>7, <2>1, <2>2 DEF DeferredOK
<1>9. ASSUME NEW v \in DOMAIN workItems PROVE WorkItemOK(v)'
  <2>1. CASE v = w
    BY <1>4, <2>1 DEF WorkItemOK, Closed
  <2>2. CASE v # w
    <3>1. WorkItemOK(v)
      BY DEF LineageInv
    <3>2. \A u \in DOMAIN todos : todos[u].workItem = v => todos'[u] = todos[u]
      BY <1>2, <2>2 DEF w
    <3> QED
      BY <1>2, <1>4, <1>5, <2>2, <3>1, <3>2 DEF WorkItemOK, Closed, Active
  <2> QED
    BY <2>1, <2>2
<1> QED
  BY <1>2, <1>4, <1>5, <1>6, <1>8, <1>9 DEF LineageInv

LEMMA WithTodosStep ==
  ASSUME LineageInv, NEW list, IsSeq(list), WithTodos(list), UNCHANGED deferredItems
  PROVE  LineageInv'
<1> DEFINE n == Len(todos)
           m == Len(workItems)
           k == Len(list)
           newTodo(i) == [workItem |-> m + i, version |-> list[i],
                         source |-> Null, status |-> "wait"]
           newWork(i) == [status |-> "active", activeRecord |-> <<"todo", n + i>>]
           more == [i \in DOMAIN list |-> newTodo(i)]
           moreWork == [i \in DOMAIN list |-> newWork(i)]
<1>0. k \in Nat /\ DOMAIN list = 1..k
  BY DEF IsSeq
<1>1. IsSeq(more) /\ Len(more) = k
  <2>1. more \in Seq({newTodo(i) : i \in 1..k}) /\ Len(more) = k
    BY <1>0
  <2> HIDE DEF more, newTodo
  <2> QED
    BY <2>1 DEF IsSeq
<1>2. IsSeq(moreWork) /\ Len(moreWork) = k
  <2>1. moreWork \in Seq({newWork(i) : i \in 1..k}) /\ Len(moreWork) = k
    BY <1>0
  <2> HIDE DEF moreWork, newWork
  <2> QED
    BY <2>1 DEF IsSeq
<1>3. /\ todos' = todos \o more /\ workItems' = workItems \o moreWork
      /\ deferredItems' = deferredItems
  BY DEF WithTodos
<1>4. /\ \A i \in 1..k : more[i] = newTodo(i) /\ moreWork[i] = newWork(i)
  BY <1>0
<1> HIDE DEF more, moreWork
<1>5. /\ IsSeq(todos') /\ n \in Nat /\ DOMAIN todos = 1..n /\ DOMAIN todos' = 1..(n + k)
      /\ \A t \in 1..n : todos'[t] = todos[t]
      /\ \A i \in 1..k : todos'[n + i] = newTodo(i)
  <2>1. IsSeq(todos)
    BY DEF LineageInv
  <2>2. Extends(todos', todos, more)
    BY <1>1, <1>3, <2>1, ConcatFacts
  <2> HIDE DEF newTodo, k
  <2> QED
    BY <1>1, <1>4, <2>2 DEF Extends
<1>6. /\ IsSeq(workItems') /\ m \in Nat
      /\ DOMAIN workItems = 1..m /\ DOMAIN workItems' = 1..(m + k)
      /\ \A w \in 1..m : workItems'[w] = workItems[w]
      /\ \A i \in 1..k : workItems'[m + i] = Active("todo", n + i)
  <2>1. IsSeq(workItems)
    BY DEF LineageInv
  <2>2. \A i \in 1..k : moreWork[i] = Active("todo", n + i)
    BY <1>4 DEF Active
  <2>3. Extends(workItems', workItems, moreWork)
    BY <1>2, <1>3, <2>1, ConcatFacts
  <2> HIDE DEF n, k
  <2> QED
    BY <1>2, <2>2, <2>3 DEF Extends
<1> HIDE DEF n, m, k
<1>7. ASSUME NEW t \in 1..(n + k) PROVE TodoOK(t)'
  <2>1. CASE t \in 1..n
    <3>1. TodoOK(t) /\ todos'[t] = todos[t]
      BY <1>5, <2>1 DEF LineageInv
    <3>2. \A w \in DOMAIN workItems : w \in DOMAIN workItems' /\ workItems'[w] = workItems[w]
      BY <1>0, <1>6
    <3> QED
      BY <3>1, <3>2 DEF TodoOK
  <2>2. CASE t \notin 1..n
    <3>1. PICK i \in 1..k : t = n + i
      <4>1. t - n \in 1..k /\ t = n + (t - n)
        BY <1>0, <1>5, <2>2
      <4> QED
        BY <4>1
    <3>2. m + i \in 1..(m + k) /\ todos'[t] = newTodo(i)
      BY <1>0, <1>5, <1>6, <3>1
    <3>3. workItems'[m + i] = Active("todo", n + i) /\ m + i \in DOMAIN workItems'
      BY <1>6, <3>1, <3>2
    <3> QED
      BY <3>1, <3>2, <3>3 DEF TodoOK
  <2> QED
    BY <2>1, <2>2
<1>8. ASSUME NEW d \in DOMAIN deferredItems PROVE DeferredOK(d)'
  BY <1>0, <1>3, <1>5, <1>6 DEF LineageInv, DeferredOK
<1>9. ASSUME NEW w \in 1..(m + k) PROVE WorkItemOK(w)'
  <2>1. CASE w \in 1..m
    <3>1. WorkItemOK(w) /\ workItems'[w] = workItems[w]
      BY <1>6, <2>1 DEF LineageInv
    <3>2. \A t \in DOMAIN todos : t \in DOMAIN todos' /\ todos'[t] = todos[t]
      BY <1>0, <1>5
    <3> QED
      BY <1>3, <3>1, <3>2 DEF WorkItemOK, Closed, Active
  <2>2. CASE w \notin 1..m
    <3>1. PICK i \in 1..k : w = m + i
      <4>1. w - m \in 1..k /\ w = m + (w - m)
        BY <1>0, <1>6, <2>2
      <4> QED
        BY <4>1
    <3>2. n + i \in 1..(n + k) /\ todos'[n + i] = newTodo(i)
      BY <1>0, <1>5, <3>1
    <3>3. workItems'[w] = Active("todo", n + i)
      BY <1>6, <3>1
    <3>4. /\ n + i \in DOMAIN todos' /\ todos'[n + i].workItem = w
          /\ todos'[n + i].status = "wait"
      BY <1>5, <3>1, <3>2
    <3> QED
      BY <3>3, <3>4 DEF WorkItemOK, Active
  <2> QED
    BY <2>1, <2>2
<1> QED
  BY <1>3, <1>5, <1>6, <1>7, <1>8, <1>9 DEF LineageInv

LEMMA DeferNewWorkStep ==
  ASSUME LineageInv, NEW origin, NEW target, DeferNewWork(origin, target)
  PROVE  LineageInv'
<1> DEFINE w == Len(workItems) + 1
           n == Len(deferredItems) + 1
<1>1. Appends(deferredItems', deferredItems, NewDeferred(w, origin, target))
  BY AppendFacts DEF LineageInv, DeferNewWork
<1>2. Appends(workItems', workItems, Active("deferred", n))
  BY AppendFacts DEF LineageInv, DeferNewWork, Active
<1>3. todos' = todos
  BY DEF DeferNewWork
<1>4. /\ w \in DOMAIN workItems' /\ w \notin DOMAIN workItems
      /\ workItems'[w] = Active("deferred", n)
      /\ DOMAIN workItems' = DOMAIN workItems \cup {w}
      /\ \A v \in DOMAIN workItems : workItems'[v] = workItems[v]
  BY <1>2 DEF Appends
<1>5. /\ DOMAIN deferredItems' = DOMAIN deferredItems \cup {n}
      /\ \A d \in DOMAIN deferredItems : deferredItems'[d] = deferredItems[d]
      /\ deferredItems'[n] = NewDeferred(w, origin, target)
  BY <1>1 DEF Appends
<1> HIDE DEF w, n
<1>6. ASSUME NEW t \in DOMAIN todos' PROVE TodoOK(t)'
  BY <1>3, <1>4 DEF LineageInv, TodoOK
<1>7. ASSUME NEW d \in DOMAIN deferredItems' PROVE DeferredOK(d)'
  <2>1. CASE d = n
    BY <1>4, <1>5, <2>1 DEF DeferredOK, NewDeferred
  <2>2. CASE d # n
    <3>1. d \in DOMAIN deferredItems /\ DeferredOK(d)
      BY <1>5, <2>2 DEF LineageInv
    <3> QED
      BY <1>3, <1>4, <1>5, <3>1 DEF DeferredOK
  <2> QED
    BY <2>1, <2>2
<1>8. ASSUME NEW v \in DOMAIN workItems' PROVE WorkItemOK(v)'
  <2>1. CASE v = w
    BY <1>4, <1>5, <2>1 DEF WorkItemOK, Active, NewDeferred
  <2>2. CASE v # w
    <3>1. v \in DOMAIN workItems /\ WorkItemOK(v)
      BY <1>4, <2>2 DEF LineageInv
    <3> QED
      BY <1>3, <1>4, <1>5, <3>1 DEF WorkItemOK, Active, Closed
  <2> QED
    BY <2>1, <2>2
<1>9. IsSeq(todos') /\ IsSeq(deferredItems') /\ IsSeq(workItems')
  BY <1>1, <1>2, <1>3 DEF LineageInv, Appends
<1> QED
  BY <1>6, <1>7, <1>8, <1>9 DEF LineageInv

LEMMA DeferTodoStep ==
  ASSUME LineageInv, NEW t \in DOMAIN todos, NEW target, DeferTodo(t, target)
  PROVE  LineageInv'
<1> DEFINE w == todos[t].workItem
           n == Len(deferredItems) + 1
           origin == todos[t].version
<1>1. w \in DOMAIN workItems /\ workItems[w] = Active("todo", t)
  BY DEF LineageInv, TodoOK, DeferTodo, ActiveTodo
<1>2. /\ IsSeq(todos') /\ DOMAIN todos' = DOMAIN todos
      /\ todos'[t] = [todos[t] EXCEPT !.status = "converted"]
      /\ \A u \in DOMAIN todos : u # t => todos'[u] = todos[u]
  BY ExceptFacts DEF LineageInv, DeferTodo
<1>3. /\ todos'[t] = [workItem |-> w, version |-> origin,
                      source |-> todos[t].source, status |-> "converted"]
      /\ todos[t].source \in Nat \cup {Null}
  BY <1>2 DEF LineageInv, TodoOK
<1>4. /\ IsSeq(workItems') /\ DOMAIN workItems' = DOMAIN workItems
      /\ workItems'[w] = [workItems[w] EXCEPT !.activeRecord = <<"deferred", n>>]
      /\ \A v \in DOMAIN workItems : v # w => workItems'[v] = workItems[v]
  <2>1. workItems' = [workItems EXCEPT
          ![w] = [workItems[w] EXCEPT !.activeRecord = <<"deferred", n>>]]
    BY DEF DeferTodo
  <2>2. IsSeq(workItems)
    BY DEF LineageInv
  <2> HIDE DEF w, n
  <2> QED
    BY <1>1, <2>1, <2>2, ExceptFacts
<1>5. workItems'[w] = Active("deferred", n)
  BY <1>1, <1>4 DEF Active
<1>6. Appends(deferredItems', deferredItems, NewDeferred(w, origin, target))
  BY AppendFacts DEF LineageInv, DeferTodo
<1>7. /\ DOMAIN deferredItems' = DOMAIN deferredItems \cup {n}
      /\ \A d \in DOMAIN deferredItems : deferredItems'[d] = deferredItems[d]
      /\ deferredItems'[n] = NewDeferred(w, origin, target)
      /\ IsSeq(deferredItems')
  BY <1>6 DEF Appends
<1> HIDE DEF w, n, origin
<1>8. ASSUME NEW u \in DOMAIN todos PROVE TodoOK(u)'
  <2>1. CASE u = t
    BY <1>1, <1>3, <1>4, <2>1 DEF TodoOK
  <2>2. CASE u # t
    BY <1>1, <1>2, <1>4, <2>2, RecordNames DEF LineageInv, TodoOK
  <2> QED
    BY <2>1, <2>2
<1>9. \A u \in DOMAIN todos : /\ todos'[u].workItem = todos[u].workItem
                            /\ todos'[u].source = todos[u].source
  BY <1>2, <1>3 DEF w
<1>10. ASSUME NEW d \in DOMAIN deferredItems' PROVE DeferredOK(d)'
  <2>1. CASE d = n
    BY <1>1, <1>4, <1>5, <1>7, <2>1 DEF DeferredOK, NewDeferred
  <2>2. CASE d # n
    <3>1. d \in DOMAIN deferredItems /\ DeferredOK(d)
      BY <1>7, <2>2 DEF LineageInv
    <3>2. deferredItems[d].status = "pending" => deferredItems[d].workItem # w
      BY <1>1, <3>1, RecordNames DEF DeferredOK
    <3> QED
      BY <1>2, <1>4, <1>7, <1>9, <3>1, <3>2 DEF DeferredOK
  <2> QED
    BY <2>1, <2>2
<1>11. ASSUME NEW v \in DOMAIN workItems PROVE WorkItemOK(v)'
  <2>1. CASE v = w
    BY <1>5, <1>7, <2>1 DEF WorkItemOK, Active, NewDeferred
  <2>2. CASE v # w
    <3>1. WorkItemOK(v)
      BY DEF LineageInv
    <3>2. \A u \in DOMAIN todos : todos[u].workItem = v => todos'[u] = todos[u]
      BY <1>2, <2>2 DEF w
    <3> QED
      BY <1>2, <1>4, <1>7, <2>2, <3>1, <3>2 DEF WorkItemOK, Closed, Active
  <2> QED
    BY <2>1, <2>2
<1> QED
  BY <1>2, <1>4, <1>7, <1>8, <1>10, <1>11 DEF LineageInv

LEMMA ActivateDeferredStep ==
  ASSUME LineageInv, NEW d \in DOMAIN deferredItems, ActivateDeferred(d)
  PROVE  LineageInv'
<1> DEFINE w == deferredItems[d].workItem
           t == Len(todos) + 1
           target == deferredItems[d].target
<1>0. d \in Nat
  BY DEF LineageInv, IsSeq
<1>1. w \in DOMAIN workItems /\ workItems[w] = Active("deferred", d)
  BY DEF LineageInv, DeferredOK, ActivateDeferred, ActiveDeferred
<1>2. Appends(todos', todos, [workItem |-> w, version |-> target, source |-> d, status |-> "wait"])
  BY AppendFacts DEF LineageInv, ActivateDeferred
<1>3. /\ IsSeq(todos') /\ DOMAIN todos' = DOMAIN todos \cup {t}
      /\ todos'[t] = [workItem |-> w, version |-> target, source |-> d, status |-> "wait"]
      /\ \A u \in DOMAIN todos : todos'[u] = todos[u]
  BY <1>2 DEF Appends
<1>4. /\ IsSeq(deferredItems') /\ DOMAIN deferredItems' = DOMAIN deferredItems
      /\ deferredItems'[d] = [deferredItems[d] EXCEPT !.status = "activated", !.activatedTodo = t]
      /\ \A e \in DOMAIN deferredItems : e # d => deferredItems'[e] = deferredItems[e]
  <2>1. deferredItems' = [deferredItems EXCEPT
          ![d] = [deferredItems[d] EXCEPT !.status = "activated", !.activatedTodo = t]]
    BY DEF ActivateDeferred
  <2>2. IsSeq(deferredItems)
    BY DEF LineageInv
  <2> HIDE DEF t
  <2> QED
    BY <2>1, <2>2, ExceptFacts
<1>5. deferredItems'[d] = [workItem |-> w, origin |-> deferredItems[d].origin, target |-> target,
                           status |-> "activated", activatedTodo |-> t]
  <2>1. DeferredOK(d)
    BY DEF LineageInv
  <2> QED
    BY <1>4, <2>1 DEF DeferredOK
<1>6. /\ IsSeq(workItems') /\ DOMAIN workItems' = DOMAIN workItems
      /\ workItems'[w] = [workItems[w] EXCEPT !.activeRecord = <<"todo", t>>]
      /\ \A v \in DOMAIN workItems : v # w => workItems'[v] = workItems[v]
  <2>1. workItems' = [workItems EXCEPT
          ![w] = [workItems[w] EXCEPT !.activeRecord = <<"todo", t>>]]
    BY DEF ActivateDeferred
  <2>2. IsSeq(workItems)
    BY DEF LineageInv
  <2> HIDE DEF w, t
  <2> QED
    BY <1>1, <2>1, <2>2, ExceptFacts
<1>7. workItems'[w] = Active("todo", t)
  BY <1>1, <1>6 DEF Active
<1> HIDE DEF t, target
<1>8. ASSUME NEW u \in DOMAIN todos' PROVE TodoOK(u)'
  <2>1. CASE u = t
    BY <1>0, <1>1, <1>3, <1>6, <1>7, <2>1 DEF TodoOK
  <2>2. CASE u # t
    <3>1. u \in DOMAIN todos /\ TodoOK(u)
      BY <1>3, <2>2 DEF LineageInv
    <3>2. todos[u].status = "wait" => todos[u].workItem # w
      BY <1>1, <3>1, RecordNames DEF TodoOK
    <3> HIDE DEF w
    <3> QED
      BY <1>3, <1>6, <3>1, <3>2 DEF TodoOK
  <2> QED
    BY <2>1, <2>2
<1>9. ASSUME NEW e \in DOMAIN deferredItems PROVE DeferredOK(e)'
  <2>1. CASE e = d
    <3> HIDE DEF w
    <3> QED
      BY <1>1, <1>3, <1>5, <1>6, <2>1 DEF DeferredOK
  <2>2. CASE e # d
    <3>1. DeferredOK(e)
      BY DEF LineageInv
    <3>2. deferredItems[e].status = "pending" => deferredItems[e].workItem # w
      BY <1>1, <2>2, <3>1, RecordNames DEF DeferredOK
    <3> HIDE DEF w
    <3> QED
      BY <1>3, <1>4, <1>6, <2>2, <3>1, <3>2 DEF DeferredOK
  <2> QED
    BY <2>1, <2>2
<1>10. ASSUME NEW v \in DOMAIN workItems PROVE WorkItemOK(v)'
  <2>1. CASE v = w
    <3> HIDE DEF w
    <3> QED
      BY <1>3, <1>7, <2>1 DEF WorkItemOK, Active
  <2>2. CASE v # w
    <3>1. WorkItemOK(v)
      BY DEF LineageInv
    <3>2. \A e \in DOMAIN deferredItems :
            deferredItems[e].workItem = v => deferredItems'[e] = deferredItems[e]
      BY <1>4, <2>2
    <3> HIDE DEF w
    <3> QED
      BY <1>3, <1>4, <1>6, <2>2, <3>1, <3>2 DEF WorkItemOK, Closed, Active
  <2> QED
    BY <2>1, <2>2
<1> QED
  BY <1>3, <1>4, <1>6, <1>8, <1>9, <1>10 DEF LineageInv

LEMMA DeferAgainStep ==
  ASSUME LineageInv, NEW d \in DOMAIN deferredItems, NEW target, DeferAgain(d, target)
  PROVE  LineageInv'
<1>1. /\ IsSeq(deferredItems') /\ DOMAIN deferredItems' = DOMAIN deferredItems
      /\ deferredItems'[d] = [deferredItems[d] EXCEPT !.target = target]
      /\ \A e \in DOMAIN deferredItems : e # d => deferredItems'[e] = deferredItems[e]
  BY ExceptFacts DEF LineageInv, DeferAgain
<1>2. todos' = todos /\ workItems' = workItems
  BY DEF DeferAgain
<1>3. DeferredOK(d)
  BY DEF LineageInv
<1>4. deferredItems'[d] = [workItem |-> deferredItems[d].workItem,
        origin |-> deferredItems[d].origin, target |-> target,
        status |-> deferredItems[d].status, activatedTodo |-> deferredItems[d].activatedTodo]
  BY <1>1, <1>3 DEF DeferredOK
<1>5. ASSUME NEW e \in DOMAIN deferredItems PROVE DeferredOK(e)'
  <2>1. CASE e = d
    BY <1>2, <1>3, <1>4, <2>1 DEF DeferredOK
  <2>2. CASE e # d
    BY <1>1, <1>2, <2>2 DEF LineageInv, DeferredOK
  <2> QED
    BY <2>1, <2>2
<1>6. ASSUME NEW v \in DOMAIN workItems PROVE WorkItemOK(v)'
  <2>1. WorkItemOK(v)
    BY DEF LineageInv
  <2>2. \A e \in DOMAIN deferredItems :
          /\ deferredItems'[e].workItem = deferredItems[e].workItem
          /\ deferredItems'[e].status = deferredItems[e].status
    BY <1>1, <1>4
  <2> QED
    BY <1>1, <1>2, <2>1, <2>2 DEF WorkItemOK, Active, Closed
<1>7. ASSUME NEW t \in DOMAIN todos PROVE TodoOK(t)'
  BY <1>2 DEF LineageInv, TodoOK
<1> QED
  BY <1>1, <1>2, <1>5, <1>6, <1>7 DEF LineageInv

LEMMA ResolveDeferredStep ==
  ASSUME LineageInv, NEW d \in DOMAIN deferredItems, ResolveDeferred(d)
  PROVE  LineageInv'
<1> DEFINE w == deferredItems[d].workItem
<1>1. w \in DOMAIN workItems /\ workItems[w] = Active("deferred", d)
  BY DEF LineageInv, DeferredOK, ResolveDeferred, ActiveDeferred
<1>2. /\ IsSeq(deferredItems') /\ DOMAIN deferredItems' = DOMAIN deferredItems
      /\ deferredItems'[d] = [deferredItems[d] EXCEPT !.status = "resolved"]
      /\ \A e \in DOMAIN deferredItems : e # d => deferredItems'[e] = deferredItems[e]
  BY ExceptFacts DEF LineageInv, ResolveDeferred
<1>3. DeferredOK(d)
  BY DEF LineageInv
<1>4. deferredItems'[d] = [workItem |-> w,
        origin |-> deferredItems[d].origin, target |-> deferredItems[d].target,
        status |-> "resolved", activatedTodo |-> deferredItems[d].activatedTodo]
  BY <1>2, <1>3 DEF DeferredOK
<1>5. /\ IsSeq(workItems') /\ DOMAIN workItems' = DOMAIN workItems
      /\ workItems'[w] = Closed
      /\ \A v \in DOMAIN workItems : v # w => workItems'[v] = workItems[v]
  BY <1>1, ExceptFacts DEF LineageInv, ResolveDeferred, Finish, Closed
<1>6. todos' = todos
  BY DEF ResolveDeferred
<1> HIDE DEF w
<1>7. ASSUME NEW e \in DOMAIN deferredItems PROVE DeferredOK(e)'
  <2>1. CASE e = d
    BY <1>1, <1>4, <1>5, <2>1 DEF DeferredOK
  <2>2. CASE e # d
    <3>1. DeferredOK(e)
      BY DEF LineageInv
    <3>2. deferredItems[e].status = "pending" => deferredItems[e].workItem # w
      BY <1>1, <2>2, <3>1, RecordNames DEF DeferredOK
    <3> QED
      BY <1>2, <1>5, <1>6, <2>2, <3>1, <3>2 DEF DeferredOK
  <2> QED
    BY <2>1, <2>2
<1>8. ASSUME NEW t \in DOMAIN todos PROVE TodoOK(t)'
  BY <1>1, <1>5, <1>6, RecordNames DEF LineageInv, TodoOK
<1>9. ASSUME NEW v \in DOMAIN workItems PROVE WorkItemOK(v)'
  <2>1. CASE v = w
    BY <1>5, <2>1 DEF WorkItemOK, Closed
  <2>2. CASE v # w
    <3>1. WorkItemOK(v)
      BY DEF LineageInv
    <3>2. \A e \in DOMAIN deferredItems :
            deferredItems[e].workItem = v => deferredItems'[e] = deferredItems[e]
      BY <1>2, <2>2 DEF w
    <3> QED
      BY <1>2, <1>5, <1>6, <2>2, <3>1, <3>2 DEF WorkItemOK, Closed, Active
  <2> QED
    BY <2>1, <2>2
<1> QED
  BY <1>2, <1>5, <1>6, <1>7, <1>8, <1>9 DEF LineageInv

-----------------------------------------------------------------------------
LEMMA SameWork ==
  ASSUME LineageInv, UNCHANGED work
  PROVE  LineageInv'
<1>1. todos' = todos /\ deferredItems' = deferredItems /\ workItems' = workItems
  BY DEF work
<1> QED
  BY <1>1 DEF LineageInv, TodoOK, DeferredOK, WorkItemOK

LEMMA LineageStep == LineageInv /\ [Next]_vars => LineageInv'
<1> SUFFICES ASSUME LineageInv, [Next]_vars PROVE LineageInv'
  OBVIOUS
<1>1. CASE UNCHANGED vars
  BY <1>1, SameWork DEF vars, work
<1>2. CASE Lifecycle
  <2>1. UNCHANGED work
    BY <1>2 DEF Lifecycle, PrepareVersion, StartVersion, MarkVersionComplete, CloseVersion,
                ShutdownVersion, ReopenVersion, SetCurrentVersion, AdvanceToVersion
  <2> QED
    BY <2>1, SameWork
<1>3. CASE TreeChange
  <2>1. CASE CreateVersion \/ InsertVersion \/ CreateChildVersion
    BY <2>1, SameWork DEF CreateVersion, InsertVersion, CreateChildVersion
  <2>2. ASSUME NEW v, ReorderVersions(v) PROVE LineageInv'
    BY <2>2, SameWork DEF ReorderVersions
  <2>3. ASSUME NEW n, NEW parent, NEW after, NEW before,
               BatchCreateVersions(n, parent, after, before)
        PROVE  LineageInv'
    <3>1. \E new : \E k \in 0..(MaxTodo - Len(todos)) :
            \E list \in [1..k -> new] : WithTodos(list)
      BY <2>3 DEF BatchCreateVersions
    <3>2. PICK new : \E k \in 0..(MaxTodo - Len(todos)) :
            \E list \in [1..k -> new] : WithTodos(list)
      BY <3>1
    <3>3. PICK k \in 0..(MaxTodo - Len(todos)) : \E list \in [1..k -> new] : WithTodos(list)
      BY <3>2
    <3>4. PICK list \in [1..k -> new] : WithTodos(list)
      BY <3>3
    <3>5. list \in Seq(new)
      BY <3>3, <3>4
    <3>6. UNCHANGED deferredItems
      BY <2>3 DEF BatchCreateVersions
    <3> QED
      BY <3>4, <3>5, <3>6, WithTodosStep DEF IsSeq
  <2> QED
    BY <1>3, <2>1, <2>2, <2>3 DEF TreeChange
<1>4. CASE Work
  <2>1. ASSUME NEW v, CreateTodo(v) PROVE LineageInv'
    <3>1. <<v>> \in Seq({v})
      OBVIOUS
    <3> QED
      BY <2>1, <3>1, WithTodosStep DEF CreateTodo, IsSeq
  <2>2. ASSUME NEW t \in DOMAIN todos, CloseTodo(t) PROVE LineageInv'
    BY <2>2, CloseTodoStep
  <2>3. ASSUME NEW u, NEW v, DeferNewWork(u, v) PROVE LineageInv'
    BY <2>3, DeferNewWorkStep
  <2>4. ASSUME NEW t \in DOMAIN todos, NEW v, DeferTodo(t, v) PROVE LineageInv'
    BY <2>4, DeferTodoStep
  <2>5. ASSUME NEW d \in DOMAIN deferredItems, ActivateDeferred(d) \/ ResolveDeferred(d)
        PROVE  LineageInv'
    BY <2>5, ActivateDeferredStep, ResolveDeferredStep
  <2>6. ASSUME NEW d \in DOMAIN deferredItems, NEW v, DeferAgain(d, v) PROVE LineageInv'
    BY <2>6, DeferAgainStep
  <2> QED
    BY <1>4, <2>1, <2>2, <2>3, <2>4, <2>5, <2>6 DEF Work
<1> QED
  BY <1>1, <1>2, <1>3, <1>4 DEF Next

\* For any number of versions, todos and deferred items, whatever order the
\* commands come in: the open records of a work item (work-item-service.ts,
\* deferred-service.ts) are exactly the one it names, or none once it is closed.
THEOREM LineageSound == Spec => []LineageIsSound
  BY LineageInitially, LineageStep, LineageImplies, PTL DEF Spec

-----------------------------------------------------------------------------
(* The route: the tree of versions and the current one.                    *)

Marks(vs) == \A v \in DOMAIN vs : vs[v].state \in VersionState /\ vs[v].isCurrent \in BOOLEAN

\* The versions numbered as they were created, laid out as a tree.
Numbered(vs, n) ==
  /\ Laid(vs)
  /\ n \in Nat /\ DOMAIN vs = 1..n

RouteInv ==
  /\ \E n \in 0..MaxVersion : Numbered(versions, n)
  /\ Marks(versions)
  /\ currentVersionId \in DOMAIN versions \cup {Null}
  /\ CurrentIsMarked

LEMMA NumberedCardinality ==
  ASSUME NEW vs, NEW n, Numbered(vs, n)
  PROVE  Cardinality(DOMAIN vs) = n /\ n + 1 \notin DOMAIN vs \cup {Null}
<1>1. n \in Nat /\ DOMAIN vs = 1..n
  BY DEF Numbered
<1>2. Cardinality(1..n) = n
  BY <1>1, FS_Interval
<1> QED
  BY <1>1, <1>2, LedgerAssumption

\* No version, and the first one.
LEMMA LaidEmpty == Numbered(<<>>, 0) /\ Ordered(<<>>) /\ Siblings(<<>>, Null) = <<>>
<1> DEFINE vs == <<>>
           lists == Lists(vs)
<1>1. DOMAIN vs = {} /\ vs = [v \in DOMAIN vs |-> vs[v]]
  OBVIOUS
<1> HIDE DEF vs
<1>2. Siblings(vs, Null) = <<>>
  BY <1>1 DEF Siblings, Children
<1>3. /\ DOMAIN lists = {Null} /\ lists[Null] = <<>>
      /\ lists = [p \in DOMAIN lists |-> lists[p]]
  BY <1>1, <1>2 DEF Lists
<1> HIDE DEF lists
<1>4. ListOver(<<>>, {}) /\ ToSet(<<>>) = {}
  BY DEF ListOver, IsInjective, ToSet
<1>5. ForestOf(DOMAIN vs, lists)
  <2>1. ASSUME NEW P \in SUBSET DOMAIN lists, P # {}
        PROVE  \E p \in P : ToSet(lists[p]) \cap P = {}
    BY <1>3, <1>4, <2>1
  <2>2. /\ DOMAIN lists = DOMAIN vs \cup {Null}
        /\ \A p \in DOMAIN lists : ListOver(lists[p], DOMAIN vs)
        /\ \A v \in DOMAIN vs : \E p \in DOMAIN lists : v \in ToSet(lists[p])
        /\ \A p, q \in DOMAIN lists : p # q => ToSet(lists[p]) \cap ToSet(lists[q]) = {}
        /\ \A P \in SUBSET DOMAIN vs : P # {} => \E v \in P : \A p \in P : v \notin ToSet(lists[p])
    BY <1>1, <1>3, <1>4
  <2> QED
    BY <1>3, <2>1, <2>2 DEF ForestOf
<1>6. Drawn(vs, lists)
  BY <1>3 DEF Drawn
<1>7. Records(vs)
  BY <1>1, FS_EmptySet DEF Records
<1>8. Laid(vs)
  BY <1>1, <1>5, <1>6, <1>7 DEF Laid, LaidAlong, lists
<1>9. DOMAIN vs = 1..0 /\ Ordered(vs)
  BY <1>1 DEF Ordered
<1> QED
  BY <1>1, <1>2, <1>8, <1>9 DEF Numbered, vs

First == [parent |-> Null, previous |-> Null, next |-> Null, order |-> 1,
          state |-> "wait", isCurrent |-> TRUE]

LEMMA LaidFirst ==
  /\ Numbered(<<First>>, 1) /\ Ordered(<<First>>)
  /\ Siblings(<<First>>, Null) = <<1>> /\ Siblings(<<First>>, 1) = <<>>
<1> DEFINE vs == <<First>>
           lists == [p \in {1, Null} |-> IF p = Null THEN <<1>> ELSE <<>>]
           route == Traversal(lists)
<1>1. DOMAIN vs = {1} /\ vs = [v \in DOMAIN vs |-> vs[v]] /\ vs[1] = First
  OBVIOUS
<1>2. 1 # Null
  BY LedgerAssumption
<1>3. /\ DOMAIN lists = {1} \cup {Null} /\ lists[Null] = <<1>> /\ lists[1] = <<>>
      /\ lists = [p \in DOMAIN lists |-> lists[p]]
  BY <1>2
<1> HIDE DEF vs, lists
<1>4. /\ ListOver(<<>>, {1}) /\ ToSet(<<>>) = {}
      /\ ListOver(<<1>>, {1}) /\ ToSet(<<1>>) = {1}
  BY DEF ListOver, IsInjective, ToSet
<1>5. ForestOf({1}, lists)
  <2>1. ASSUME NEW P \in SUBSET DOMAIN lists, P # {}
        PROVE  \E p \in P : ToSet(lists[p]) \cap P = {}
    <3>1. CASE 1 \in P
      BY <1>3, <1>4, <3>1
    <3>2. CASE 1 \notin P
      <4>1. Null \in P
        BY <1>3, <2>1, <3>2
      <4> QED
        BY <1>3, <1>4, <3>2, <4>1
    <3> QED
      BY <3>1, <3>2
  <2>2. /\ \A p \in DOMAIN lists : ListOver(lists[p], {1})
        /\ \A v \in {1} : \E p \in DOMAIN lists : v \in ToSet(lists[p])
        /\ \A p, q \in DOMAIN lists : p # q => ToSet(lists[p]) \cap ToSet(lists[q]) = {}
        /\ \A P \in SUBSET {1} : P # {} => \E v \in P : \A p \in P : v \notin ToSet(lists[p])
    BY <1>2, <1>3, <1>4
  <2> QED
    BY <1>3, <2>1, <2>2 DEF ForestOf
<1>6. Drawn(vs, lists)
  <2>1. /\ DOMAIN lists[1] = {}
        /\ DOMAIN lists[Null] = {1} /\ lists[Null][1] = 1 /\ Len(lists[Null]) = 1
    BY <1>3
  <2>2. vs[1].parent = Null /\ vs[1].previous = Null /\ vs[1].next = Null
    BY <1>1 DEF First
  <2>3. \A p \in DOMAIN lists : p = 1 \/ p = Null
    BY <1>3
  <2> QED
    BY <2>1, <2>2, <2>3 DEF Drawn
<1>7. Records(vs)
  <2>1. IsFiniteSet({1})
    BY FS_Singleton
  <2>2. VersionRecord(First)
    BY DEF First, VersionRecord
  <2> QED
    BY <1>1, <1>2, <2>1, <2>2 DEF Records
<1>8. Position(route, 1) = 1
  <2>1. ListOver(route, {1}) /\ ToSet(route) = {1} /\ Len(route) = 1
    BY <1>2, <1>5, TraversalFacts, FS_Singleton
  <2> HIDE DEF route
  <2>2. DOMAIN route = {1}
    BY <2>1 DEF ListOver
  <2>3. Position(route, 1) \in DOMAIN route
    BY <2>1, PositionFacts
  <2> QED
    BY <2>2, <2>3
<1>9. LaidAlong(vs, lists)
  BY <1>1, <1>5, <1>6 DEF LaidAlong
<1>10. Laid(vs) /\ Lists(vs) = lists
  BY <1>7, <1>9, LaidLists
<1>11. DOMAIN vs = 1..1 /\ Ordered(vs)
  BY <1>1, <1>8, <1>10 DEF Ordered, First
<1>12. Siblings(vs, Null) = <<1>> /\ Siblings(vs, 1) = <<>>
  <2>1. Lists(vs)[Null] = Siblings(vs, Null) /\ Lists(vs)[1] = Siblings(vs, 1)
    BY <1>1 DEF Lists
  <2> QED
    BY <1>3, <1>10, <2>1
<1> QED
  BY <1>1, <1>10, <1>11, <1>12 DEF Numbered, vs

LEMMA FirstCreated == [Created EXCEPT !.order = 1, !.isCurrent = TRUE] = First
<1> DEFINE yes == TRUE
           no == FALSE
           a == [Created EXCEPT !.order = 1]
           b == [a EXCEPT !.isCurrent = yes]
<1>1. b = [Created EXCEPT !.order = 1, !.isCurrent = TRUE]
  BY Zenon
<1>2. Created = [parent |-> Null, previous |-> Null, next |-> Null, order |-> 0,
                 state |-> "wait", isCurrent |-> no]
  BY DEF Created
<1>3. First = [parent |-> Null, previous |-> Null, next |-> Null, order |-> 1,
               state |-> "wait", isCurrent |-> yes]
  BY DEF First
<1> HIDE DEF yes, no
<1>4. a = [parent |-> Null, previous |-> Null, next |-> Null, order |-> 1,
           state |-> "wait", isCurrent |-> no]
  BY <1>2
<1> HIDE DEF a
<1>5. b = First
  BY <1>3, <1>4
<1> HIDE DEF b
<1> QED
  BY <1>1, <1>5

LEMMA RouteInitially == Init => RouteInv
<1> SUFFICES ASSUME Init PROVE RouteInv
  OBVIOUS
<1>1. CASE versions = <<>> /\ currentVersionId = Null
  <2>1. 0 \in 0..MaxVersion /\ DOMAIN versions = {}
    BY <1>1, LedgerAssumption
  <2> QED
    BY <1>1, <2>1, LaidEmpty DEF RouteInv, Marks, CurrentIsMarked
<1>2. CASE /\ versions = <<[Created EXCEPT !.order = 1, !.isCurrent = TRUE]>>
           /\ currentVersionId = 1
           /\ MaxVersion > 0
  <2>1. [Created EXCEPT !.order = 1, !.isCurrent = TRUE] = First
    BY FirstCreated
  <2>2. versions = <<First>>
    BY <1>2, <2>1
  <2>3. DOMAIN versions = {1} /\ versions[1] = First
    BY <2>2
  <2>4. 1 \in 0..MaxVersion
    BY <1>2, LedgerAssumption
  <2>5. Numbered(versions, 1)
    BY <2>2, LaidFirst
  <2> QED
    BY ZenonT(60), <1>2, <2>3, <2>4, <2>5 DEF RouteInv, Marks, CurrentIsMarked, First, VersionState
<1> QED
  BY <1>1, <1>2 DEF Init

\* Another state for one version, and the mark passed on to another.
InOneState(vs, v, s) == [vs EXCEPT ![v].state = s]
Restated(new, vs, v, s) ==
  /\ Stays(new, vs)
  /\ new[v].state = s
  /\ \A u \in DOMAIN vs : /\ new[u].isCurrent = vs[u].isCurrent
                          /\ u # v => new[u].state = vs[u].state

LEMMA StateSet ==
  ASSUME NEW vs, Records(vs), NEW v \in DOMAIN vs, NEW s
  PROVE  Restated(InOneState(vs, v, s), vs, v, s)
<1> DEFINE r == InState(vs[v], s)
           new == [vs EXCEPT ![v] = r]
<1>1. \A u \in DOMAIN vs : VersionRecord(vs[u])
  BY DEF Records
<1>2. Alike(r, vs[v]) /\ r.state = s /\ r.isCurrent = vs[v].isCurrent
  BY <1>1, RecordMarked
<1>3. \A u \in DOMAIN vs : Alike(vs[u], vs[u])
  BY <1>1, RecordMarked
<1> HIDE DEF r
<1>4. /\ DOMAIN new = DOMAIN vs /\ new = [u \in DOMAIN new |-> new[u]]
      /\ new[v] = r /\ \A u \in DOMAIN vs : u # v => new[u] = vs[u]
  OBVIOUS
<1> HIDE DEF new
<1>5. Stays(new, vs)
  BY <1>2, <1>3, <1>4 DEF Stays
<1>6. /\ new[v].state = s
      /\ \A u \in DOMAIN vs : /\ new[u].isCurrent = vs[u].isCurrent
                              /\ u # v => new[u].state = vs[u].state
  BY <1>2, <1>4
<1>7. new = InOneState(vs, v, s)
  BY Zenon DEF new, r, InState, InOneState
<1> QED
  BY <1>5, <1>6, <1>7 DEF Restated

MarkedAt(vs, v) == [vs EXCEPT ![v].isCurrent = TRUE]
Remarked(new, vs, v) ==
  /\ Stays(new, vs)
  /\ new[v].isCurrent = TRUE
  /\ \A u \in DOMAIN vs : /\ new[u].state = vs[u].state
                          /\ u # v => new[u].isCurrent = vs[u].isCurrent

LEMMA MarkSet ==
  ASSUME NEW vs, Records(vs), NEW v \in DOMAIN vs
  PROVE  Remarked(MarkedAt(vs, v), vs, v)
<1> DEFINE yes == TRUE
           r == Marked(vs[v], yes)
           new == [vs EXCEPT ![v] = r]
<1>1. \A u \in DOMAIN vs : VersionRecord(vs[u])
  BY DEF Records
<1>2. Alike(r, vs[v]) /\ r.isCurrent = yes /\ r.state = vs[v].state
  <2> HIDE DEF yes
  <2> QED
    BY <1>1, RecordMarked
<1>3. \A u \in DOMAIN vs : Alike(vs[u], vs[u])
  BY <1>1, RecordMarked
<1> HIDE DEF r, yes
<1>4. /\ DOMAIN new = DOMAIN vs /\ new = [u \in DOMAIN new |-> new[u]]
      /\ new[v] = r /\ \A u \in DOMAIN vs : u # v => new[u] = vs[u]
  OBVIOUS
<1> HIDE DEF new
<1>5. Stays(new, vs)
  BY <1>2, <1>3, <1>4 DEF Stays
<1>6. /\ new[v].isCurrent = yes
      /\ \A u \in DOMAIN vs : /\ new[u].state = vs[u].state
                              /\ u # v => new[u].isCurrent = vs[u].isCurrent
  BY <1>2, <1>4
<1>7. new = MarkedAt(vs, v)
  BY Zenon DEF new, r, yes, Marked, MarkedAt
<1> QED
  BY <1>5, <1>6, <1>7 DEF yes, Remarked

Passed(new, vs, v, left) ==
  /\ Stays(new, vs)
  /\ new[v].isCurrent = TRUE /\ new[v].state = vs[v].state
  /\ \A u \in DOMAIN vs \ {v} :
       /\ u = currentVersionId => new[u].isCurrent = FALSE /\ new[u].state = left
       /\ u # currentVersionId => new[u] = vs[u]

LEMMA SwitchedFacts ==
  ASSUME NEW vs, Records(vs), NEW v \in DOMAIN vs, NEW left
  PROVE  Passed(Switched(vs, v, left), vs, v, left)
<1> DEFINE yes == TRUE
           no == FALSE
           r == Marked(vs[v], yes)
           x == Left(vs[currentVersionId], no, left)
           new == Switched(vs, v, left)
<1>1. \A u \in DOMAIN vs : VersionRecord(vs[u])
  BY DEF Records
<1>2. Alike(r, vs[v]) /\ r.isCurrent = yes /\ r.state = vs[v].state
  <2> HIDE DEF yes
  <2> QED
    BY <1>1, RecordMarked
<1>3. currentVersionId \in DOMAIN vs =>
        Alike(x, vs[currentVersionId]) /\ x.isCurrent = no /\ x.state = left
  <2> HIDE DEF no
  <2> QED
    BY <1>1, RecordMarked
<1>4. \A u \in DOMAIN vs : Alike(vs[u], vs[u])
  BY <1>1, RecordMarked
<1>5. new = [u \in DOMAIN vs |-> IF u = v THEN r
                                 ELSE IF u = currentVersionId THEN x ELSE vs[u]]
  <2>1. \A u \in DOMAIN vs :
          /\ u = v => [vs[u] EXCEPT !.isCurrent = TRUE] = r
          /\ u = currentVersionId =>
               [vs[u] EXCEPT !.isCurrent = FALSE, !.state = left] = x
    BY Zenon DEF Marked, Left
  <2> HIDE DEF r, x
  <2> QED
    BY <2>1, Zenon DEF Switched
<1> HIDE DEF new, r, x, yes, no
<1>6. /\ DOMAIN new = DOMAIN vs /\ new = [u \in DOMAIN new |-> new[u]]
      /\ new[v] = r
      /\ \A u \in DOMAIN vs \ {v} : /\ u = currentVersionId => new[u] = x
                                    /\ u # currentVersionId => new[u] = vs[u]
  BY <1>5
<1>7. Stays(new, vs)
  BY <1>2, <1>3, <1>4, <1>6 DEF Stays
<1>8. /\ new[v].isCurrent = yes /\ new[v].state = vs[v].state
      /\ \A u \in DOMAIN vs \ {v} :
           u = currentVersionId => new[u].isCurrent = no /\ new[u].state = left
  BY <1>2, <1>3, <1>6
<1> QED
  BY <1>6, <1>7, <1>8 DEF new, yes, no, Passed

LEMMA RouteKept ==
  ASSUME RouteInv, Stays(versions', versions), Marks(versions'),
         currentVersionId' \in DOMAIN versions \cup {Null}, CurrentIsMarked'
  PROVE  RouteInv' /\ Lists(versions') = Lists(versions)
<1>1. PICK n \in 0..MaxVersion : Numbered(versions, n)
  BY DEF RouteInv
<1>2. Laid(versions') /\ Lists(versions') = Lists(versions)
  BY <1>1, StaysLaid DEF Numbered
<1>3. Numbered(versions', n)
  BY <1>1, <1>2 DEF Numbered, Stays
<1>4. DOMAIN versions' = DOMAIN versions
  BY DEF Stays
<1> QED
  BY <1>2, <1>3, <1>4 DEF RouteInv

LEMMA BecomeStep ==
  ASSUME RouteInv, NEW v \in DOMAIN versions, NEW s \in VersionState,
         Become(v, s), UNCHANGED currentVersionId
  PROVE  RouteInv' /\ Stays(versions', versions)
<1>1. Records(versions)
  BY DEF RouteInv, Numbered, Laid
<1>2. /\ Stays(versions', versions)
      /\ versions'[v].state = s
      /\ \A u \in DOMAIN versions : /\ versions'[u].isCurrent = versions[u].isCurrent
                                    /\ u # v => versions'[u].state = versions[u].state
  <2>1. versions' = InOneState(versions, v, s)
    BY DEF Become, InOneState
  <2>2. Restated(versions', versions, v, s)
    BY <1>1, <2>1, StateSet
  <2> QED
    BY <2>2 DEF Restated
<1>3. DOMAIN versions' = DOMAIN versions /\ currentVersionId' = currentVersionId
  BY <1>2 DEF Stays
<1>4. Marks(versions')
  BY <1>2, <1>3 DEF RouteInv, Marks
<1>5. currentVersionId' \in DOMAIN versions \cup {Null} /\ CurrentIsMarked'
  BY <1>2, <1>3 DEF RouteInv, CurrentIsMarked
<1> QED
  BY <1>2, <1>4, <1>5, RouteKept

LEMMA LeftStateType == RouteInv => LeftState \in VersionState
BY DEF RouteInv, Marks, LeftState, VersionState

\* The mark passes from the version that was current to v.
LEMMA SwitchedStep ==
  ASSUME RouteInv, NEW v \in DOMAIN versions,
         versions' = Switched(versions, v, LeftState), currentVersionId' = v
  PROVE  RouteInv' /\ Stays(versions', versions)
<1>1. Records(versions)
  BY DEF RouteInv, Numbered, Laid
<1>2. /\ Stays(versions', versions)
      /\ versions'[v].isCurrent = TRUE /\ versions'[v].state = versions[v].state
      /\ \A u \in DOMAIN versions \ {v} :
           /\ u = currentVersionId => versions'[u].isCurrent = FALSE /\ versions'[u].state = LeftState
           /\ u # currentVersionId => versions'[u] = versions[u]
  <2>1. Passed(versions', versions, v, LeftState)
    BY <1>1, SwitchedFacts
  <2> QED
    BY <2>1 DEF Passed
<1>3. DOMAIN versions' = DOMAIN versions
  BY <1>2 DEF Stays
<1>4. Marks(versions')
  BY <1>2, <1>3, LeftStateType DEF RouteInv, Marks
<1>5. CurrentIsMarked'
  BY <1>2, <1>3 DEF RouteInv, CurrentIsMarked
<1> QED
  BY <1>2, <1>4, <1>5, RouteKept

LEMMA AdvanceStep ==
  ASSUME RouteInv, NEW v \in DOMAIN versions, AdvanceToVersion(v)
  PROVE  RouteInv' /\ Stays(versions', versions)
<1> DEFINE mid == Switched(versions, v, LeftState)
<1>1. Records(versions) /\ Laid(versions)
  BY DEF RouteInv, Numbered, Laid
<1>2. /\ Stays(mid, versions)
      /\ mid[v].isCurrent = TRUE /\ mid[v].state = versions[v].state
      /\ \A u \in DOMAIN versions \ {v} :
           /\ u = currentVersionId => mid[u].isCurrent = FALSE /\ mid[u].state = LeftState
           /\ u # currentVersionId => mid[u] = versions[u]
  <2>1. Passed(mid, versions, v, LeftState)
    BY <1>1, SwitchedFacts
  <2> HIDE DEF mid
  <2> QED
    BY <2>1 DEF Passed
<1>3. versions' = [mid EXCEPT ![v].state = "running"] /\ currentVersionId' = v
  BY DEF AdvanceToVersion
<1> HIDE DEF mid
<1>4. Records(mid) /\ DOMAIN mid = DOMAIN versions
  BY <1>1, <1>2, StaysLaid DEF Laid, Stays
<1>5. /\ Stays(versions', mid)
      /\ versions'[v].state = "running"
      /\ \A u \in DOMAIN mid : /\ versions'[u].isCurrent = mid[u].isCurrent
                               /\ u # v => versions'[u].state = mid[u].state
  <2>1. versions' = InOneState(mid, v, "running")
    BY <1>3 DEF InOneState
  <2>2. Restated(versions', mid, v, "running")
    BY <1>4, <2>1, StateSet
  <2> QED
    BY <2>2 DEF Restated
<1>6. Stays(versions', versions)
  BY <1>2, <1>5 DEF Stays, Alike
<1>7. DOMAIN versions' = DOMAIN versions
  BY <1>6 DEF Stays
<1>8. Marks(versions')
  <2>1. Marks(versions)
    BY DEF RouteInv
  <2>2. "running" \in VersionState
    BY DEF VersionState
  <2> QED
    BY ZenonT(60), <1>2, <1>4, <1>5, <1>7, <2>1, <2>2, LeftStateType DEF Marks
<1>9. CurrentIsMarked'
  <2>1. CurrentIsMarked
    BY DEF RouteInv
  <2> QED
    BY <1>2, <1>3, <1>4, <1>5, <1>7, <2>1 DEF CurrentIsMarked
<1> QED
  BY <1>3, <1>6, <1>8, <1>9, RouteKept

LEMMA LifecycleStep ==
  ASSUME RouteInv, Lifecycle
  PROVE  RouteInv' /\ Stays(versions', versions)
<1>1. PICK v \in DOMAIN versions :
        \/ PrepareVersion(v) \/ StartVersion(v) \/ MarkVersionComplete(v) \/ CloseVersion(v)
        \/ ShutdownVersion(v) \/ ReopenVersion(v) \/ SetCurrentVersion(v) \/ AdvanceToVersion(v)
  BY DEF Lifecycle
<1>2. CASE \/ PrepareVersion(v) \/ StartVersion(v) \/ MarkVersionComplete(v)
           \/ CloseVersion(v) \/ ShutdownVersion(v) \/ ReopenVersion(v)
  <2>1. \E s \in {"ready", "running", "complete", "close"} : Become(v, s)
    BY <1>2 DEF PrepareVersion, StartVersion, MarkVersionComplete, CloseVersion,
                ShutdownVersion, ReopenVersion
  <2>2. UNCHANGED currentVersionId
    BY <1>2 DEF PrepareVersion, StartVersion, MarkVersionComplete, CloseVersion,
                ShutdownVersion, ReopenVersion
  <2>3. \E s \in VersionState : Become(v, s)
    BY <2>1 DEF VersionState
  <2> QED
    BY <2>2, <2>3, BecomeStep
<1>3. CASE SetCurrentVersion(v)
  BY <1>3, SwitchedStep DEF SetCurrentVersion
<1>4. CASE AdvanceToVersion(v)
  BY <1>4, AdvanceStep
<1> QED
  BY <1>1, <1>2, <1>3, <1>4

-----------------------------------------------------------------------------
(* Commands that add versions, or move one.                                *)

\* new has the versions of vs, as they were, and others just created.
Grown(new, vs) ==
  /\ DOMAIN vs \subseteq DOMAIN new
  /\ \A u \in DOMAIN vs : new[u].state = vs[u].state /\ new[u].isCurrent = vs[u].isCurrent
  /\ \A u \in DOMAIN new \ DOMAIN vs : new[u].state = "wait" /\ new[u].isCurrent = FALSE

LEMMA AddedGrown ==
  ASSUME NEW vs, NEW n, Numbered(vs, n), NEW place, Placed(vs, place)
  PROVE  /\ Numbered(Added(vs, n + 1, place), n + 1)
         /\ Grown(Added(vs, n + 1, place), vs) /\ Ordered(Added(vs, n + 1, place))
<1>1. Laid(vs) /\ n \in Nat /\ DOMAIN vs = 1..n /\ n + 1 \notin DOMAIN vs \cup {Null}
  BY NumberedCardinality DEF Numbered
<1>2. Beyond(Added(vs, n + 1, place), vs, n + 1)
  BY <1>1, AddedLaid
<1> DEFINE new == Added(vs, n + 1, place)
           v == n + 1
<1>3. DOMAIN vs \cup {v} = 1..v /\ v \in Nat
  BY <1>1
<1> HIDE DEF new, v
<1>4. Beyond(new, vs, v)
  BY <1>2 DEF new, v
<1>5. Numbered(new, v) /\ Grown(new, vs) /\ Ordered(new)
  BY <1>3, <1>4 DEF Beyond, Numbered, Grown
<1> QED
  BY <1>5 DEF new, v

LEMMA GrownFurther ==
  ASSUME NEW vs, NEW mid, NEW new, Grown(mid, vs), Grown(new, mid)
  PROVE  Grown(new, vs)
BY DEF Grown

\* The current version stays the current one.
LEMMA RouteGrown ==
  ASSUME RouteInv, DOMAIN versions # {},
         NEW n \in 0..MaxVersion, Numbered(versions', n), Grown(versions', versions),
         UNCHANGED currentVersionId
  PROVE  RouteInv'
<1>1. Marks(versions') /\ currentVersionId' \in DOMAIN versions' \cup {Null}
  BY DEF RouteInv, Marks, Grown, VersionState
<1>2. CurrentIsMarked'
  BY DEF RouteInv, CurrentIsMarked, Grown
<1> QED
  BY <1>1, <1>2 DEF RouteInv

\* A version that was added becomes the current one.
LEMMA RouteSwitched ==
  ASSUME RouteInv, NEW n \in 0..MaxVersion, NEW vs, Numbered(vs, n), Grown(vs, versions),
         NEW v \in DOMAIN vs, NEW left \in VersionState,
         versions' = Switched(vs, v, left), currentVersionId' = v
  PROVE  RouteInv' /\ Stays(versions', vs)
<1>1. Records(vs) /\ Laid(vs)
  BY DEF Numbered, Laid
<1>2. Passed(versions', vs, v, left)
  BY <1>1, SwitchedFacts
<1>3. Stays(versions', vs) /\ DOMAIN versions' = DOMAIN vs
  BY <1>2 DEF Passed, Stays
<1>4. Laid(versions')
  BY <1>1, <1>3, StaysLaid
<1>5. Numbered(versions', n)
  BY <1>3, <1>4 DEF Numbered
<1>6. Marks(vs) /\ \A u \in DOMAIN vs : u # currentVersionId => vs[u].isCurrent = FALSE
  BY DEF RouteInv, Marks, Grown, VersionState, CurrentIsMarked
<1>7. Marks(versions')
  BY <1>2, <1>3, <1>6 DEF Passed, Marks
<1>8. CurrentIsMarked'
  BY <1>2, <1>3, <1>6 DEF Passed, CurrentIsMarked
<1> QED
  BY <1>3, <1>5, <1>7, <1>8 DEF RouteInv

\* The first version of an empty route.
LEMMA RouteBegun ==
  ASSUME RouteInv, DOMAIN versions = {},
         NEW n \in 0..MaxVersion, NEW vs, Numbered(vs, n), Grown(vs, versions),
         NEW v \in DOMAIN vs, versions' = [vs EXCEPT ![v].isCurrent = TRUE],
         currentVersionId' = v
  PROVE  RouteInv' /\ Stays(versions', vs)
<1>1. Records(vs) /\ Laid(vs)
  BY DEF Numbered, Laid
<1>2. versions' = MarkedAt(vs, v)
  BY DEF MarkedAt
<1>3. Remarked(versions', vs, v)
  <2>1. Remarked(MarkedAt(vs, v), vs, v)
    BY <1>1, MarkSet
  <2> QED
    BY <1>2, <2>1, Zenon
<1>4. Stays(versions', vs) /\ DOMAIN versions' = DOMAIN vs
  BY <1>3 DEF Remarked, Stays
<1>5. Numbered(versions', n)
  BY <1>1, <1>4, StaysLaid DEF Numbered
<1>6. \A u \in DOMAIN vs : vs[u].state = "wait" /\ vs[u].isCurrent = FALSE
  BY DEF Grown
<1>7. Marks(versions')
  BY <1>3, <1>4, <1>6 DEF Remarked, Marks, VersionState
<1>8. CurrentIsMarked'
  BY <1>3, <1>4, <1>6 DEF Remarked, CurrentIsMarked
<1> QED
  BY <1>4, <1>5, <1>7, <1>8 DEF RouteInv

\* The three commands that add one version add it at a place of the tree.
LEMMA AddsOne ==
  ASSUME RouteInv, CreateVersion \/ InsertVersion \/ CreateChildVersion
  PROVE  \E place : /\ Placed(versions, place)
                    /\ RouteInv'
                    /\ \/ versions' = Added(versions, NewVersion, place)
                       \/ Stays(versions', Added(versions, NewVersion, place))
<1>1. PICK n \in 0..MaxVersion : Numbered(versions, n)
  BY DEF RouteInv
<1>2. /\ Laid(versions) /\ NewVersion = n + 1 /\ NewVersion \in 0..MaxVersion
      /\ NewVersion \notin DOMAIN versions
  BY <1>1, NumberedCardinality, LedgerAssumption
     DEF Numbered, NewVersion, CreateVersion, InsertVersion, CreateChildVersion, VersionId
<1>3. ASSUME NEW place, Placed(versions, place)
      PROVE  /\ Numbered(Added(versions, NewVersion, place), NewVersion)
             /\ Grown(Added(versions, NewVersion, place), versions)
  BY <1>1, <1>2, <1>3, AddedGrown
<1>4. ASSUME NEW place, Placed(versions, place),
             versions' = Added(versions, NewVersion, place),
             DOMAIN versions # {}, UNCHANGED currentVersionId
      PROVE  RouteInv'
  BY <1>2, <1>3, <1>4, RouteGrown
<1>5. CASE CreateVersion
  <2>1. PICK place \in ToCreate(versions) :
          IF DOMAIN versions = {}
          THEN /\ versions' = [Added(versions, NewVersion, place)
                                EXCEPT ![NewVersion].isCurrent = TRUE]
               /\ currentVersionId' = NewVersion
          ELSE versions' = Added(versions, NewVersion, place) /\ UNCHANGED currentVersionId
    BY <1>5, Zenon DEF CreateVersion
  <2>2. Placed(versions, place)
    BY <1>2, ToCreatePlaced
  <2> DEFINE added == Added(versions, NewVersion, place)
  <2>3. NewVersion \in DOMAIN added
    BY <1>2, <1>3, <2>2 DEF Numbered
  <2>4. CASE DOMAIN versions = {}
    <3>1. /\ versions' = [added EXCEPT ![NewVersion].isCurrent = TRUE]
          /\ currentVersionId' = NewVersion
      BY <2>1, <2>4, Zenon
    <3>2. Numbered(added, NewVersion) /\ Grown(added, versions)
      BY <1>3, <2>2
    <3> HIDE DEF added
    <3>3. RouteInv' /\ Stays(versions', added)
      BY <1>2, <2>3, <2>4, <3>1, <3>2, RouteBegun
    <3> QED
      BY <2>2, <3>3 DEF added
  <2>5. CASE DOMAIN versions # {}
    <3>1. versions' = added /\ UNCHANGED currentVersionId
      BY <2>1, <2>5, Zenon
    <3> QED
      BY <1>4, <2>2, <2>5, <3>1
  <2> QED
    BY <2>4, <2>5
<1>6. CASE InsertVersion
  <2>1. PICK previous \in Neighbour : \E next \in Neighbour :
          \E place \in ToInsert(versions, previous, next) :
            versions' = Added(versions, NewVersion, place)
    BY <1>6 DEF InsertVersion
  <2>2. PICK next \in Neighbour : \E place \in ToInsert(versions, previous, next) :
            versions' = Added(versions, NewVersion, place)
    BY <2>1
  <2>3. PICK place \in ToInsert(versions, previous, next) :
            versions' = Added(versions, NewVersion, place)
    BY <2>2
  <2>4. Placed(versions, place) /\ Named(place) # {}
    BY <1>2, <2>1, <2>2, ToInsertPlaced DEF Neighbour
  <2>5. DOMAIN versions # {}
    <3>1. place.parent \in DOMAIN versions \cup {Null}
      BY <2>4 DEF Placed
    <3>2. ListOver(Siblings(versions, place.parent), DOMAIN versions)
      BY <1>2, <3>1, SiblingsOver
    <3>3. PICK u : u \in ToSet(Siblings(versions, place.parent))
      BY <2>4 DEF Placed
    <3>4. u \in DOMAIN versions
      BY <3>2, <3>3 DEF ListOver, ToSet
    <3> QED
      BY <3>4
  <2>6. UNCHANGED currentVersionId
    BY <1>6 DEF InsertVersion
  <2> QED
    BY <1>4, <2>3, <2>4, <2>5, <2>6
<1>7. CASE CreateChildVersion
  <2>1. PICK parent \in DOMAIN versions, previous \in Neighbour, next \in Neighbour :
          \E place \in ToAddChild(versions, parent, previous, next) :
            versions' = Added(versions, NewVersion, place)
    BY <1>7 DEF CreateChildVersion
  <2>2. PICK place \in ToAddChild(versions, parent, previous, next) :
            versions' = Added(versions, NewVersion, place)
    BY <2>1
  <2>3. Placed(versions, place)
    BY <1>2, <2>1, ToAddChildPlaced
  <2>4. UNCHANGED currentVersionId
    BY <1>7 DEF CreateChildVersion
  <2> QED
    BY <1>4, <2>1, <2>2, <2>3, <2>4
<1> QED
  BY <1>5, <1>6, <1>7

LEMMA ReorderStep ==
  ASSUME RouteInv, NEW v \in DOMAIN versions, ReorderVersions(v)
  PROVE  /\ RouteInv' /\ DOMAIN versions' = DOMAIN versions /\ Ordered(versions')
         /\ \E place :
              /\ place.parent = versions[v].parent
              /\ Named(place) \subseteq ToSet(Without(Siblings(versions, place.parent), v))
              /\ Lists(versions') = [Lists(versions) EXCEPT
                                       ![place.parent] = InsertSibling(Without(@, v), v, place)]
<1>1. PICK n \in 0..MaxVersion : Numbered(versions, n)
  BY DEF RouteInv
<1>2. PICK previous \in Neighbour, next \in Neighbour :
        \E place \in ToReorder(versions, v, previous, next) :
          versions' = Moved(versions, v, place)
  BY DEF ReorderVersions
<1>3. PICK place \in ToReorder(versions, v, previous, next) :
        versions' = Moved(versions, v, place)
  BY <1>2
<1>4. /\ place.parent = versions[v].parent
      /\ Named(place) \subseteq ToSet(Without(Siblings(versions, place.parent), v))
  BY ToReorderPlaced
<1>5. /\ DOMAIN versions' = DOMAIN versions /\ Laid(versions') /\ Ordered(versions')
      /\ Lists(versions') = [Lists(versions) EXCEPT
                               ![place.parent] = InsertSibling(Without(@, v), v, place)]
      /\ \A u \in DOMAIN versions : /\ versions'[u].state = versions[u].state
                                    /\ versions'[u].isCurrent = versions[u].isCurrent
  BY <1>1, <1>3, <1>4, MovedLaid DEF Numbered
<1>6. UNCHANGED currentVersionId
  BY DEF ReorderVersions
<1>7. Numbered(versions', n)
  BY <1>1, <1>5 DEF Numbered
<1>8. Marks(versions') /\ currentVersionId' \in DOMAIN versions' \cup {Null}
  BY <1>5, <1>6 DEF RouteInv, Marks
<1>9. CurrentIsMarked'
  BY <1>5, <1>6 DEF RouteInv, CurrentIsMarked
<1>10. RouteInv'
  BY <1>7, <1>8, <1>9 DEF RouteInv
<1> QED
  BY <1>4, <1>5, <1>10

-----------------------------------------------------------------------------
(* A batch.                                                                *)

PlanPlaces(was, before) ==
  IF {was.parent, was.previous, before} = {Null} THEN ToCreate(was.vs)
  ELSE IF was.parent = Null THEN ToInsert(was.vs, was.previous, before)
  ELSE ToAddChild(was.vs, was.parent, was.previous, before)

PlanItem(was, place, v) ==
  [vs |-> Added(was.vs, v, place), parent |-> place.parent, previous |-> v]

PlanStart(parent, after) == [vs |-> versions, parent |-> parent, previous |-> after]

PlanNext(plan, v, before) ==
  UNION {{PlanItem(was, place, v) : place \in PlanPlaces(was, before)} : was \in plan}

PlanStep(f, i, parent, after, before) ==
  IF i = 0 THEN {PlanStart(parent, after)}
  ELSE PlanNext(f[i - 1], NewVersion + i - 1, before)

HasPlan(n, parent, after, before) ==
  \E f : f = [i \in 0..n |-> PlanStep(f, i, parent, after, before)]

LEMMA PlannedDefined ==
  ASSUME NEW parent, NEW after, NEW before, NEW n \in Nat
  PROVE  HasPlan(n, parent, after, before)
<1> DEFINE Step(f, i) == PlanStep(f, i, parent, after, before)
           S == {k \in Nat : \E f : f = [i \in 0..k |-> Step(f, i)]}
<1>0. \A f, g, i : (i # 0 => f[i - 1] = g[i - 1]) => Step(f, i) = Step(g, i)
  BY DEF PlanStep
<1> HIDE DEF Step
<1>1. 0 \in S
  <2> DEFINE g == [i \in 0..0 |-> Step(<<>>, i)]
  <2>1. \A i \in 0..0 : g[i] = Step(g, i)
    <3>1. \A i \in 0..0 : g[i] = Step(<<>>, i) /\ i = 0
      OBVIOUS
    <3> HIDE DEF g
    <3> QED
      BY <1>0, <3>1
  <2>2. g = [i \in 0..0 |-> g[i]]
    OBVIOUS
  <2> HIDE DEF g
  <2>3. g = [i \in 0..0 |-> Step(g, i)]
    BY <2>1, <2>2
  <2> QED
    BY <2>3
<1>2. ASSUME NEW k \in Nat, k \in S PROVE k + 1 \in S
  <2>1. PICK f : f = [i \in 0..k |-> Step(f, i)]
    BY <1>2
  <2> DEFINE g == [i \in 0..(k + 1) |-> IF i <= k THEN f[i] ELSE Step(f, i)]
  <2>2. ASSUME NEW i \in 0..(k + 1) PROVE g[i] = Step(g, i)
    <3>1. g[i] = Step(f, i)
      <4>1. i \in 0..k => f[i] = Step(f, i)
        BY <2>1
      <4>2. i <= k => i \in 0..k
        OBVIOUS
      <4> QED
        BY <4>1, <4>2
    <3>2. i # 0 => i - 1 \in 0..k /\ g[i - 1] = f[i - 1]
      OBVIOUS
    <3> HIDE DEF g
    <3>3. Step(f, i) = Step(g, i)
      BY <1>0, <3>2
    <3> QED
      BY <3>1, <3>3
  <2>3. g = [i \in 0..(k + 1) |-> Step(g, i)]
    <3>1. g = [i \in 0..(k + 1) |-> g[i]]
      OBVIOUS
    <3> HIDE DEF g
    <3> QED
      BY <2>2, <3>1
  <2> HIDE DEF g
  <2> QED
    BY <2>3
<1>3. n \in S
  <2> HIDE DEF S
  <2> QED
    BY <1>1, <1>2, NatSetInduction
<1> QED
  BY <1>3 DEF Step, HasPlan

\* After i items: the route as it was, with a run of i versions in one place.
Good(m, i, n) ==
  /\ Numbered(m.vs, n + i) /\ Grown(m.vs, versions)
  /\ m.parent \in Neighbour
  /\ i = 0 => m.vs = versions /\ m.previous \in Neighbour
  /\ i > 0 => /\ m.previous = n + i /\ Ordered(m.vs)
              /\ \E k : Grafted(m.vs, versions, m.parent, k, Run(n, i))

LEMMA PlanPlaced ==
  ASSUME NEW n, Numbered(versions, n), NEW before \in Neighbour,
         NEW i \in Nat, NEW was, Good(was, i, n), NEW place \in PlanPlaces(was, before)
  PROVE  /\ Placed(was.vs, place) /\ place.parent \in Neighbour
         /\ i > 0 => place.parent = was.parent /\ place.previous = n + i
<1>1. /\ Laid(was.vs) /\ n \in Nat /\ DOMAIN was.vs = 1..(n + i) /\ Null \notin Nat
      /\ Laid(versions) /\ DOMAIN versions = 1..n
  BY LedgerAssumption DEF Good, Numbered
<1>2. /\ was.parent \in DOMAIN versions \cup {Null} /\ DOMAIN versions \subseteq DOMAIN was.vs
      /\ was.previous \in DOMAIN was.vs \cup {Null} /\ before \in DOMAIN was.vs \cup {Null}
  BY <1>1 DEF Good, Neighbour
<1>3. CASE i = 0
  <2>1. Placed(was.vs, place)
    <3>1. \/ place \in ToCreate(was.vs)
          \/ place \in ToInsert(was.vs, was.previous, before)
          \/ place \in ToAddChild(was.vs, was.parent, was.previous, before)
      BY DEF PlanPlaces
    <3> QED
      BY <1>1, <1>2, <3>1, ToCreatePlaced, ToInsertPlaced, ToAddChildPlaced
  <2>2. was.vs = versions
    BY <1>3 DEF Good
  <2> QED
    BY <1>3, <2>1, <2>2 DEF Placed, Neighbour
<1>4. CASE i > 0
  <2>1. was.previous = n + i /\ n + i # Null
    BY <1>1, <1>4 DEF Good
  <2>2. PICK k : Grafted(was.vs, versions, was.parent, k, Run(n, i))
    BY <1>4 DEF Good
  <2>3. CASE was.parent = Null /\ place \in ToInsert(was.vs, was.previous, before)
    <3>1. /\ Placed(was.vs, place) /\ place.previous = was.previous
          /\ place.parent = was.vs[was.previous].parent
      BY <1>1, <1>2, <2>1, <2>3, ToInsertPlaced
    <3>2. was.vs[n + i].parent = was.parent
      BY <1>1, <1>2, <1>4, <2>2, RunParent
    <3> QED
      BY <1>2, <2>1, <3>1, <3>2 DEF Neighbour
  <2>4. CASE place \in ToAddChild(was.vs, was.parent, was.previous, before)
    <3> DEFINE parent == was.parent
               previous == was.previous
               vs == was.vs
    <3>2. /\ Laid(vs) /\ parent \in DOMAIN vs \cup {Null} /\ previous # Null
          /\ place \in ToAddChild(vs, parent, previous, before)
      BY <1>1, <1>2, <2>1, <2>4
    <3> HIDE DEF parent, previous, vs
    <3>3. /\ Placed(vs, place) /\ place.parent = parent
          /\ place.previous = previous
      BY <3>2, ToAddChildPlaced
    <3>1. /\ Placed(was.vs, place) /\ place.parent = was.parent
          /\ place.previous = was.previous
      BY <3>3 DEF parent, previous, vs
    <3> QED
      BY <1>2, <2>1, <3>1 DEF Neighbour
  <2> QED
    BY <2>1, <2>3, <2>4 DEF PlanPlaces
<1> QED
  BY <1>3, <1>4

LEMMA PlanItemGood ==
  ASSUME NEW n, Numbered(versions, n), NEW before \in Neighbour,
         NEW i \in Nat, NEW was, Good(was, i, n), NEW place \in PlanPlaces(was, before)
  PROVE  Good(PlanItem(was, place, n + i + 1), i + 1, n)
<1> DEFINE v == n + i + 1
           m == PlanItem(was, place, v)
<1>1. /\ Laid(was.vs) /\ n \in Nat /\ DOMAIN was.vs = 1..(n + i) /\ Null \notin Nat
      /\ Laid(versions) /\ DOMAIN versions = 1..n /\ Numbered(was.vs, n + i)
      /\ Grown(was.vs, versions)
  BY LedgerAssumption DEF Good, Numbered
<1>2. /\ Placed(was.vs, place) /\ place.parent \in Neighbour
      /\ i > 0 => place.parent = was.parent /\ place.previous = n + i
  BY PlanPlaced
<1>3. m.vs = Added(was.vs, v, place) /\ m.parent = place.parent /\ m.previous = v
  BY DEF PlanItem
<1>4. v \notin DOMAIN was.vs \cup {Null} /\ v = (n + i) + 1 /\ v = n + (i + 1)
  BY <1>1
<1>5. Numbered(m.vs, v) /\ Grown(m.vs, was.vs) /\ Ordered(m.vs)
  BY <1>1, <1>2, <1>3, <1>4, AddedGrown
<1> HIDE DEF m
<1>6. Grown(m.vs, versions)
  BY <1>1, <1>5, GrownFurther
<1>7. \E k : Grafted(m.vs, versions, m.parent, k, Run(n, i + 1))
  <2>1. CASE i = 0
    <3>1. was.vs = versions /\ v = n + 1 /\ i + 1 = 1
      BY <1>1, <2>1 DEF Good
    <3>2. n + 1 \notin DOMAIN versions \cup {Null} /\ Placed(versions, place)
      BY <1>2, <1>4, <3>1
    <3>3. \E k : Grafted(Added(versions, n + 1, place), versions, place.parent, k, Run(n, 1))
      BY <1>1, <3>2, AddedGrafts
    <3> QED
      BY <1>3, <3>1, <3>3
  <2>2. CASE i > 0
    <3>1. PICK k : Grafted(was.vs, versions, was.parent, k, Run(n, i))
      BY <2>2 DEF Good
    <3>2. Grafted(was.vs, versions, place.parent, k, Run(n, i)) /\ place.previous = n + i
      BY <1>2, <2>2, <3>1
    <3>3. place.parent \in DOMAIN versions \cup {Null} /\ n + i # Null
      BY <1>1, <1>2 DEF Neighbour
    <3>4. Grafted(Added(was.vs, n + i + 1, place), versions, place.parent, k, Run(n, i + 1))
      BY <1>1, <1>2, <1>4, <2>2, <3>2, <3>3, AddedToRun
    <3> QED
      BY <1>3, <3>4
  <2> QED
    BY <2>1, <2>2
<1>8. /\ Numbered(m.vs, n + (i + 1)) /\ m.previous = n + (i + 1)
      /\ m.parent \in Neighbour
  BY <1>2, <1>3, <1>4, <1>5
<1>9. Good(m, i + 1, n)
  BY <1>5, <1>6, <1>7, <1>8 DEF Good
<1> QED
  BY <1>9 DEF m

LEMMA PlannedGood ==
  ASSUME NEW n, Numbered(versions, n), NEW parent \in Neighbour, NEW after \in Neighbour,
         NEW before \in Neighbour, NEW k \in Nat, NEW m \in Planned(k, parent, after, before)
  PROVE  Good(m, k, n)
<1> DEFINE Step(f, i) == PlanStep(f, i, parent, after, before)
           plan == CHOOSE f : f = [i \in 0..k |-> Step(f, i)]
           S == {i \in Nat : i \in 0..k => \A x \in plan[i] : Good(x, i, n)}
<1>1. Planned(k, parent, after, before) = plan[k]
  BY Zenon DEF Planned, PlanStep, PlanStart, PlanNext, PlanItem, PlanPlaces
<1>2. plan = [i \in 0..k |-> Step(plan, i)]
  <2>1. HasPlan(k, parent, after, before)
    BY PlannedDefined
  <2>2. \E f : f = [i \in 0..k |-> Step(f, i)]
    BY <2>1, Zenon DEF HasPlan
  <2> HIDE DEF Step
  <2> QED
    BY <2>2
<1> HIDE DEF plan
<1>3. \A i \in 0..k : plan[i] = Step(plan, i)
  <2> HIDE DEF Step
  <2> QED
    BY <1>2
<1>4. n \in Nat /\ NewVersion = n + 1
  BY NumberedCardinality DEF NewVersion, Numbered
<1>5. 0 \in S
  <2> DEFINE x == PlanStart(parent, after)
  <2>1. plan[0] = {x}
    BY <1>3 DEF PlanStep
  <2>2. x.vs = versions /\ x.parent \in Neighbour /\ x.previous \in Neighbour
    BY DEF PlanStart
  <2> HIDE DEF x
  <2>3. Good(x, 0, n)
    BY <1>4, <2>2 DEF Good, Grown
  <2> QED
    BY <2>1, <2>3
<1>6. ASSUME NEW i \in Nat, i \in S PROVE i + 1 \in S
  <2> SUFFICES ASSUME i + 1 \in 0..k, NEW x \in plan[i + 1] PROVE Good(x, i + 1, n)
    OBVIOUS
  <2>1. /\ i + 1 # 0 /\ (i + 1) - 1 = i /\ NewVersion + (i + 1) - 1 = n + i + 1
        /\ i \in 0..k
    BY <1>4
  <2>2. plan[i + 1] = PlanNext(plan[i], n + i + 1, before)
    BY <1>3, <2>1 DEF PlanStep
  <2>3. PICK was \in plan[i] : x \in {PlanItem(was, place, n + i + 1)
                                      : place \in PlanPlaces(was, before)}
    BY <2>2 DEF PlanNext
  <2>4. PICK place \in PlanPlaces(was, before) : x = PlanItem(was, place, n + i + 1)
    BY <2>3
  <2>5. Good(was, i, n)
    BY <1>6, <2>1, <2>3
  <2> QED
    BY <2>4, <2>5, PlanItemGood
<1>7. k \in S
  <2> HIDE DEF S
  <2> QED
    BY <1>5, <1>6, NatSetInduction
<1> QED
  BY <1>1, <1>7

LEMMA BatchStep ==
  ASSUME RouteInv, NEW n, Numbered(versions, n),
         NEW k \in 1..MaxBatch, NewVersion + k - 1 \in VersionId,
         NEW parent \in Neighbour, NEW after \in Neighbour, NEW before \in Neighbour,
         BatchCreateVersions(k, parent, after, before)
  PROVE  /\ RouteInv'
         /\ \E plan : /\ Good(plan, k, n)
                      /\ versions' = plan.vs \/ Stays(versions', plan.vs)
<1>1. PICK plan \in Planned(k, parent, after, before) :
        \/ DOMAIN versions # {} /\ versions' = plan.vs /\ UNCHANGED currentVersionId
        \/ \E setCurrentTo \in DOMAIN plan.vs \ DOMAIN versions :
             /\ versions' = Switched(plan.vs, setCurrentTo,
                  IF currentVersionId = Null THEN "wait"
                  ELSE versions[currentVersionId].state)
             /\ currentVersionId' = setCurrentTo
  BY Zenon DEF BatchCreateVersions
<1>2. k \in Nat /\ k > 0
  BY LedgerAssumption
<1>3. Good(plan, k, n)
  BY <1>1, <1>2, PlannedGood
<1>4. n + k \in 0..MaxVersion
  <2>1. n \in Nat /\ NewVersion = n + 1
    BY NumberedCardinality DEF NewVersion, Numbered
  <2> QED
    BY <1>2, <2>1, LedgerAssumption DEF VersionId
<1>5. Numbered(plan.vs, n + k) /\ Grown(plan.vs, versions)
  BY <1>3 DEF Good
<1>6. CASE DOMAIN versions # {} /\ versions' = plan.vs /\ UNCHANGED currentVersionId
  <2>1. RouteInv'
    BY <1>4, <1>5, <1>6, RouteGrown
  <2> QED
    BY <1>3, <1>6, <2>1
<1>7. ASSUME NEW v \in DOMAIN plan.vs \ DOMAIN versions,
             versions' = Switched(plan.vs, v,
               IF currentVersionId = Null THEN "wait" ELSE versions[currentVersionId].state),
             currentVersionId' = v
      PROVE  RouteInv' /\ Stays(versions', plan.vs)
  <2> DEFINE left == IF currentVersionId = Null THEN "wait"
                     ELSE versions[currentVersionId].state
             vs == plan.vs
  <2>1. left \in VersionState
    BY DEF RouteInv, Marks, VersionState
  <2>2. versions' = Switched(vs, v, left) /\ v \in DOMAIN vs
    BY <1>7
  <2>3. Numbered(vs, n + k) /\ Grown(vs, versions)
    BY <1>5
  <2> HIDE DEF left, vs
  <2>4. RouteInv' /\ Stays(versions', vs)
    BY <1>4, <1>7, <2>1, <2>2, <2>3, RouteSwitched
  <2> QED
    BY <2>4 DEF vs
<1> QED
  BY <1>1, <1>3, <1>6, <1>7

LEMMA RouteStep == RouteInv /\ [Next]_vars => RouteInv'
<1> SUFFICES ASSUME RouteInv, [Next]_vars PROVE RouteInv'
  OBVIOUS
<1>1. CASE Lifecycle
  BY <1>1, LifecycleStep
<1>2. CASE TreeChange
  <2>1. CASE CreateVersion \/ InsertVersion \/ CreateChildVersion
    BY <2>1, AddsOne
  <2>2. ASSUME NEW v \in DOMAIN versions, ReorderVersions(v) PROVE RouteInv'
    BY <2>2, ReorderStep
  <2>3. ASSUME NEW k \in 1..MaxBatch, NewVersion + k - 1 \in VersionId,
               NEW parent \in Neighbour, NEW after \in Neighbour, NEW before \in Neighbour,
               BatchCreateVersions(k, parent, after, before)
        PROVE  RouteInv'
    <3>1. PICK n \in 0..MaxVersion : Numbered(versions, n)
      BY DEF RouteInv
    <3> QED
      BY <2>3, <3>1, BatchStep
  <2> QED
    BY <1>2, <2>1, <2>2, <2>3 DEF TreeChange
<1>3. CASE Work \/ UNCHANGED vars
  <2>1. UNCHANGED <<versions, currentVersionId>>
    BY <1>3 DEF Work, vars, CreateTodo, CloseTodo, DeferNewWork, DeferTodo, ActivateDeferred,
               ResolveDeferred, DeferAgain
  <2> QED
    BY <2>1 DEF RouteInv, CurrentIsMarked
<1> QED
  BY <1>1, <1>2, <1>3 DEF Next

LEMMA RouteAlways == Spec => []RouteInv
BY RouteInitially, RouteStep, PTL DEF Spec

LEMMA OrderInitially == Init => Ordered(versions)
<1> SUFFICES ASSUME Init PROVE Ordered(versions)
  OBVIOUS
<1>1. CASE versions = <<>>
  BY <1>1, LaidEmpty
<1>2. CASE versions = <<[Created EXCEPT !.order = 1, !.isCurrent = TRUE]>>
  <2>1. versions = <<First>>
    BY <1>2, FirstCreated
  <2> QED
    BY <2>1, LaidFirst
<1> QED
  BY <1>1, <1>2 DEF Init

\* Every change of the tree puts the orders right, whatever they were before.
LEMMA TreeChangeOrders ==
  ASSUME RouteInv, TreeChange
  PROVE  Ordered(versions')
<1>1. ASSUME NEW vs, Laid(vs), Ordered(vs), versions' = vs \/ Stays(versions', vs)
      PROVE  Ordered(versions')
  BY <1>1, StaysLaid
<1>2. CASE CreateVersion \/ InsertVersion \/ CreateChildVersion
  <2>1. PICK place : /\ Placed(versions, place)
                     /\ \/ versions' = Added(versions, NewVersion, place)
                        \/ Stays(versions', Added(versions, NewVersion, place))
    BY <1>2, AddsOne
  <2>2. PICK n \in 0..MaxVersion : Numbered(versions, n)
    BY DEF RouteInv
  <2>3. NewVersion = n + 1
    BY <2>2, NumberedCardinality DEF NewVersion
  <2> DEFINE vs == Added(versions, NewVersion, place)
  <2>4. Laid(vs) /\ Ordered(vs)
    BY <2>1, <2>2, <2>3, AddedGrown DEF Numbered
  <2>5. versions' = vs \/ Stays(versions', vs)
    BY <2>1
  <2> HIDE DEF vs
  <2> QED
    BY <1>1, <2>4, <2>5
<1>3. ASSUME NEW v \in DOMAIN versions, ReorderVersions(v) PROVE Ordered(versions')
  BY <1>3, ReorderStep
<1>4. ASSUME NEW k \in 1..MaxBatch, NewVersion + k - 1 \in VersionId,
             NEW parent \in Neighbour, NEW after \in Neighbour, NEW before \in Neighbour,
             BatchCreateVersions(k, parent, after, before)
      PROVE  Ordered(versions')
  <2>1. PICK n \in 0..MaxVersion : Numbered(versions, n)
    BY DEF RouteInv
  <2>2. PICK plan : /\ Good(plan, k, n)
                    /\ versions' = plan.vs \/ Stays(versions', plan.vs)
    BY <1>4, <2>1, BatchStep
  <2>3. k > 0
    BY LedgerAssumption
  <2>4. Laid(plan.vs) /\ Ordered(plan.vs)
    BY <2>2, <2>3 DEF Good, Numbered
  <2> QED
    BY <1>1, <2>2, <2>4
<1> QED
  BY <1>2, <1>3, <1>4 DEF TreeChange

LEMMA OrderStep == RouteInv /\ Ordered(versions) /\ [Next]_vars => Ordered(versions)'
<1> SUFFICES ASSUME RouteInv, Ordered(versions), [Next]_vars PROVE Ordered(versions')
  OBVIOUS
<1>1. CASE Lifecycle
  <2>1. Laid(versions) /\ Stays(versions', versions)
    BY <1>1, LifecycleStep DEF RouteInv, Numbered
  <2> QED
    BY <2>1, StaysLaid
<1>2. CASE TreeChange
  BY <1>2, TreeChangeOrders
<1>3. CASE Work \/ UNCHANGED vars
  <2>1. versions' = versions
    BY <1>3 DEF Work, vars, CreateTodo, CloseTodo, DeferNewWork, DeferTodo, ActivateDeferred,
               ResolveDeferred, DeferAgain
  <2> QED
    BY <2>1
<1> QED
  BY <1>1, <1>2, <1>3 DEF Next

LEMMA OrderAlways == Spec => []Ordered(versions)
<1>1. Spec => [](RouteInv /\ Ordered(versions))
  BY RouteInitially, RouteStep, OrderInitially, OrderStep, PTL DEF Spec
<1> QED
  BY <1>1, PTL

\* The version that project.currentVersionId names is the one that is marked
\* isCurrent, in a route of any length, whatever the commands that led to it.
THEOREM CurrentMarked == Spec => []CurrentIsMarked
<1>1. RouteInv => CurrentIsMarked
  BY DEF RouteInv
<1> QED
  BY <1>1, RouteAlways, PTL

LEMMA OrderedReadable == RouteInv => (RouteIsReadable <=> Ordered(versions))
<1> SUFFICES ASSUME RouteInv PROVE RouteIsReadable <=> Ordered(versions)
  OBVIOUS
<1> DEFINE route == Traversal(Lists(versions))
<1>1. Laid(versions)
  BY DEF RouteInv, Numbered
<1>2. Ordered(versions) => RouteIsReadable
  BY <1>1, LaidReadable, LaidOrders DEF RouteIsReadable
<1>3. ASSUME RouteIsReadable, NEW v \in DOMAIN versions
      PROVE  versions[v].order = Position(route, v)
  <2>1. ToSet(route) = DOMAIN versions
    BY <1>1, TraversalFacts DEF Laid, LaidAlong, Records
  <2>2. \A i \in DOMAIN route : versions[route[i]].order = i
    BY <1>3 DEF RouteIsReadable
  <2> HIDE DEF route
  <2>3. Position(route, v) \in DOMAIN route /\ route[Position(route, v)] = v
    BY <2>1, PositionFacts
  <2> QED
    BY <2>2, <2>3
<1> QED
  BY <1>2, <1>3 DEF Ordered

\* No sequence of creations, insertions, batches and moves leaves a tree that the
\* next command cannot read, or an order that is not the place along the route.
THEOREM RouteReadable == Spec => []RouteIsReadable
<1>1. RouteInv /\ Ordered(versions) => RouteIsReadable
  BY OrderedReadable
<1> QED
  BY <1>1, RouteAlways, OrderAlways, PTL

-----------------------------------------------------------------------------
(* The records of the work name versions of the route.                     *)

TodoStatus == {"wait", "closed", "converted"}
DeferredStatus == {"pending", "activated", "resolved"}

TodoAt(t) == todos[t].version \in DOMAIN versions /\ todos[t].status \in TodoStatus

DeferredAt(d) ==
  /\ deferredItems[d].origin \in DOMAIN versions
  /\ deferredItems[d].target \in DOMAIN versions
  /\ deferredItems[d].status \in DeferredStatus
  /\ deferredItems[d].status # "activated" => deferredItems[d].activatedTodo = Null

RecordInv ==
  /\ \A t \in DOMAIN todos : TodoAt(t)
  /\ \A d \in DOMAIN deferredItems : DeferredAt(d)

LedgerInv == LineageInv /\ RouteInv /\ RecordInv

\* What a step may do to the todos and the deferred items.
TodosFollow ==
  \A t \in DOMAIN todos' :
    \/ /\ t \in DOMAIN todos /\ todos'[t].version = todos[t].version
       /\ todos'[t].status \in {todos[t].status, "closed", "converted"}
    \/ todos'[t].version \in DOMAIN versions' /\ todos'[t].status = "wait"

\* The same deferral, in the same place or further down the route.
DeferredFollows(new, old) ==
  /\ new.origin = old.origin
  /\ \/ new.target = old.target
     \/ new.target \in DOMAIN versions /\ Downstream(old.target, new.target)
  /\ \/ new.status = old.status /\ new.activatedTodo = old.activatedTodo
     \/ new.status = "activated"
     \/ /\ new.status = "resolved" /\ old.status = "pending"
        /\ new.activatedTodo = old.activatedTodo

DeferredBegins(new) ==
  /\ new.origin \in DOMAIN versions /\ new.target \in DOMAIN versions
  /\ Downstream(new.origin, new.target)
  /\ new.status = "pending" /\ new.activatedTodo = Null

DeferredItemsFollow ==
  \/ deferredItems' = deferredItems
  \/ /\ versions' = versions
     /\ \A d \in DOMAIN deferredItems' :
          \/ d \in DOMAIN deferredItems /\ DeferredFollows(deferredItems'[d], deferredItems[d])
          \/ d \notin DOMAIN deferredItems /\ DeferredBegins(deferredItems'[d])

Follow == /\ DOMAIN versions \subseteq DOMAIN versions'
          /\ TodosFollow /\ DeferredItemsFollow

LEMMA SameWorkFollows ==
  ASSUME UNCHANGED work, DOMAIN versions \subseteq DOMAIN versions'
  PROVE  Follow
BY DEF work, Follow, TodosFollow, DeferredItemsFollow

LEMMA WithTodosFollow ==
  ASSUME LineageInv, NEW k \in Nat, NEW list \in [1..k -> DOMAIN versions'], WithTodos(list)
  PROVE  TodosFollow
<1> DEFINE n == Len(todos)
           m == Len(workItems)
           newTodo(i) == [workItem |-> m + i, version |-> list[i],
                         source |-> Null, status |-> "wait"]
           more == [i \in DOMAIN list |-> newTodo(i)]
<1>1. IsSeq(more) /\ Len(more) = k
  <2>1. more \in Seq({newTodo(i) : i \in 1..k}) /\ Len(more) = k
    OBVIOUS
  <2> HIDE DEF more, newTodo
  <2> QED
    BY <2>1 DEF IsSeq
<1>2. \A i \in 1..k : more[i].version \in DOMAIN versions' /\ more[i].status = "wait"
  OBVIOUS
<1>3. todos' = todos \o more
  BY DEF WithTodos
<1> HIDE DEF more, n
<1>4. Extends(todos', todos, more)
  BY <1>1, <1>3, ConcatFacts DEF LineageInv
<1>5. /\ n \in Nat /\ DOMAIN todos = 1..n /\ DOMAIN todos' = 1..(n + k)
      /\ \A t \in 1..n : todos'[t] = todos[t]
      /\ \A i \in 1..k : todos'[n + i] = more[i]
  BY <1>1, <1>4 DEF Extends, n
<1>6. ASSUME NEW t \in 1..(n + k), t \notin 1..n
      PROVE  todos'[t].version \in DOMAIN versions' /\ todos'[t].status = "wait"
  <2>1. t - n \in 1..k /\ n + (t - n) = t
    BY <1>5, <1>6
  <2> QED
    BY <1>2, <1>5, <2>1
<1> QED
  BY <1>5, <1>6 DEF TodosFollow

LEMMA CloseTodoFollows ==
  ASSUME LineageInv, NEW t \in DOMAIN todos, CloseTodo(t)
  PROVE  Follow
<1>1. /\ DOMAIN todos' = DOMAIN todos
      /\ todos'[t] = [todos[t] EXCEPT !.status = "closed"]
      /\ \A u \in DOMAIN todos : u # t => todos'[u] = todos[u]
  BY ExceptFacts DEF LineageInv, CloseTodo
<1>2. todos'[t].version = todos[t].version /\ todos'[t].status = "closed"
  BY <1>1 DEF LineageInv, TodoOK
<1> QED
  BY <1>1, <1>2 DEF Follow, TodosFollow, DeferredItemsFollow, CloseTodo

LEMMA DeferNewWorkFollows ==
  ASSUME LineageInv, NEW u \in DOMAIN versions, NEW v \in DOMAIN versions, DeferNewWork(u, v)
  PROVE  Follow
<1> DEFINE new == NewDeferred(Len(workItems) + 1, u, v)
<1>1. Appends(deferredItems', deferredItems, new)
  BY AppendFacts DEF LineageInv, DeferNewWork
<1>2. DeferredBegins(new)
  BY DEF NewDeferred, DeferNewWork, DeferredBegins
<1> HIDE DEF new
<1>3. versions' = versions /\ todos' = todos
  BY DEF DeferNewWork
<1>4. ASSUME NEW d \in DOMAIN deferredItems
      PROVE  DeferredFollows(deferredItems[d], deferredItems[d])
  BY DEF DeferredFollows
<1> QED
  BY <1>1, <1>2, <1>3, <1>4 DEF Appends, Follow, TodosFollow, DeferredItemsFollow

LEMMA DeferTodoFollows ==
  ASSUME LineageInv, RecordInv, NEW t \in DOMAIN todos, NEW v \in DOMAIN versions,
         DeferTodo(t, v)
  PROVE  Follow
<1> DEFINE new == NewDeferred(todos[t].workItem, todos[t].version, v)
<1>1. Appends(deferredItems', deferredItems, new)
  BY AppendFacts DEF LineageInv, DeferTodo
<1>2. DeferredBegins(new)
  BY DEF NewDeferred, DeferTodo, DeferredBegins, RecordInv, TodoAt
<1> HIDE DEF new
<1>3. versions' = versions
  BY DEF DeferTodo
<1>4. ASSUME NEW d \in DOMAIN deferredItems
      PROVE  DeferredFollows(deferredItems[d], deferredItems[d])
  BY DEF DeferredFollows
<1>5. /\ DOMAIN todos' = DOMAIN todos
      /\ todos'[t] = [todos[t] EXCEPT !.status = "converted"]
      /\ \A u \in DOMAIN todos : u # t => todos'[u] = todos[u]
  BY ExceptFacts DEF LineageInv, DeferTodo
<1>6. todos'[t].version = todos[t].version /\ todos'[t].status = "converted"
  BY <1>5 DEF LineageInv, TodoOK
<1>7. TodosFollow
  BY <1>5, <1>6 DEF TodosFollow
<1> QED
  BY <1>1, <1>2, <1>3, <1>4, <1>7 DEF Appends, Follow, DeferredItemsFollow

\* One deferred item is changed.
LEMMA DeferredChanged ==
  ASSUME LineageInv, NEW d \in DOMAIN deferredItems, NEW new,
         deferredItems' = [deferredItems EXCEPT ![d] = new],
         DeferredFollows(new, deferredItems[d]), versions' = versions
  PROVE  DeferredItemsFollow
<1>1. /\ DOMAIN deferredItems' = DOMAIN deferredItems /\ deferredItems'[d] = new
      /\ \A e \in DOMAIN deferredItems : e # d => deferredItems'[e] = deferredItems[e]
  BY ExceptFacts DEF LineageInv
<1>2. ASSUME NEW e \in DOMAIN deferredItems
      PROVE  DeferredFollows(deferredItems[e], deferredItems[e])
  BY DEF DeferredFollows
<1>3. ASSUME NEW e \in DOMAIN deferredItems
      PROVE  DeferredFollows(deferredItems'[e], deferredItems[e])
  BY <1>1, <1>2
<1> QED
  BY <1>1, <1>3 DEF DeferredItemsFollow

LEMMA ActivateDeferredFollows ==
  ASSUME LineageInv, RecordInv, NEW d \in DOMAIN deferredItems, ActivateDeferred(d)
  PROVE  Follow
<1> DEFINE t == Len(todos) + 1
           old == deferredItems[d]
           new == [old EXCEPT !.status = "activated", !.activatedTodo = t]
           todo == [workItem |-> old.workItem, version |-> old.target,
                    source |-> d, status |-> "wait"]
<1>1. versions' = versions /\ old.target \in DOMAIN versions
  BY DEF ActivateDeferred, RecordInv, DeferredAt
<1>2. Appends(todos', todos, todo)
  BY AppendFacts DEF LineageInv, ActivateDeferred
<1>3. todo.version \in DOMAIN versions' /\ todo.status = "wait"
  BY <1>1
<1>4. DeferredItemsFollow
  <2>1. deferredItems' = [deferredItems EXCEPT ![d] = new]
    BY DEF ActivateDeferred
  <2>2. old = [workItem |-> old.workItem, origin |-> old.origin, target |-> old.target,
               status |-> old.status, activatedTodo |-> old.activatedTodo]
    BY DEF LineageInv, DeferredOK
  <2> HIDE DEF t, old
  <2>3. DeferredFollows(new, old)
    BY <2>2 DEF DeferredFollows
  <2> HIDE DEF new
  <2>4. DeferredFollows(new, deferredItems[d])
    BY <2>3 DEF old
  <2> QED
    BY <1>1, <2>1, <2>4, DeferredChanged
<1> HIDE DEF todo
<1>5. TodosFollow
  BY <1>2, <1>3 DEF Appends, TodosFollow
<1> QED
  BY <1>1, <1>4, <1>5 DEF Follow

LEMMA DeferAgainFollows ==
  ASSUME LineageInv, NEW d \in DOMAIN deferredItems, NEW v \in DOMAIN versions,
         DeferAgain(d, v)
  PROVE  Follow
<1> DEFINE old == deferredItems[d]
           new == [old EXCEPT !.target = v]
<1>1. versions' = versions /\ todos' = todos /\ Downstream(old.target, v)
  BY DEF DeferAgain
<1>2. deferredItems' = [deferredItems EXCEPT ![d] = new]
  BY DEF DeferAgain
<1>3. old = [workItem |-> old.workItem, origin |-> old.origin, target |-> old.target,
             status |-> old.status, activatedTodo |-> old.activatedTodo]
  BY DEF LineageInv, DeferredOK
<1> HIDE DEF old
<1>4. DeferredFollows(new, old)
  BY <1>1, <1>3 DEF DeferredFollows
<1> HIDE DEF new
<1>5. DeferredFollows(new, deferredItems[d])
  BY <1>4 DEF old
<1>6. DeferredItemsFollow
  BY <1>1, <1>2, <1>5, DeferredChanged
<1> QED
  BY <1>1, <1>6 DEF Follow, TodosFollow

LEMMA ResolveDeferredFollows ==
  ASSUME LineageInv, NEW d \in DOMAIN deferredItems, ResolveDeferred(d)
  PROVE  Follow
<1> DEFINE old == deferredItems[d]
           new == [old EXCEPT !.status = "resolved"]
<1>1. versions' = versions /\ todos' = todos /\ old.status = "pending"
  BY DEF ResolveDeferred, ActiveDeferred
<1>2. deferredItems' = [deferredItems EXCEPT ![d] = new]
  BY DEF ResolveDeferred
<1>3. old = [workItem |-> old.workItem, origin |-> old.origin, target |-> old.target,
             status |-> old.status, activatedTodo |-> old.activatedTodo]
  BY DEF LineageInv, DeferredOK
<1> HIDE DEF old
<1>4. DeferredFollows(new, old)
  BY <1>1, <1>3 DEF DeferredFollows
<1> HIDE DEF new
<1>5. DeferredFollows(new, deferredItems[d])
  BY <1>4 DEF old
<1>6. DeferredItemsFollow
  BY <1>1, <1>2, <1>5, DeferredChanged
<1> QED
  BY <1>1, <1>6 DEF Follow, TodosFollow

LEMMA BatchFollows ==
  ASSUME LineageInv, RouteInv, NEW k \in 1..MaxBatch, NewVersion + k - 1 \in VersionId,
         NEW parent \in Neighbour, NEW after \in Neighbour, NEW before \in Neighbour,
         BatchCreateVersions(k, parent, after, before)
  PROVE  Follow
<1>1. PICK plan \in Planned(k, parent, after, before) :
        /\ \/ versions' = plan.vs
           \/ \E setCurrentTo :
                versions' = Switched(plan.vs, setCurrentTo,
                  IF currentVersionId = Null THEN "wait"
                  ELSE versions[currentVersionId].state)
        /\ \E i \in 0..(MaxTodo - Len(todos)) :
             \E list \in [1..i -> DOMAIN plan.vs \ DOMAIN versions] : WithTodos(list)
  BY Zenon DEF BatchCreateVersions
<1>2. PICK n \in 0..MaxVersion : Numbered(versions, n)
  BY DEF RouteInv
<1>3. Grown(plan.vs, versions)
  BY <1>1, <1>2, PlannedGood, LedgerAssumption DEF Good
<1>4. DOMAIN versions' = DOMAIN plan.vs /\ DOMAIN versions \subseteq DOMAIN versions'
  BY <1>1, <1>3 DEF Grown, Switched
<1>5. PICK i \in 0..(MaxTodo - Len(todos)) :
        \E list \in [1..i -> DOMAIN plan.vs \ DOMAIN versions] : WithTodos(list)
  BY <1>1
<1>6. PICK list \in [1..i -> DOMAIN plan.vs \ DOMAIN versions] : WithTodos(list)
  BY <1>5
<1>7. list \in [1..i -> DOMAIN versions'] /\ i \in Nat
  BY <1>4, <1>5, <1>6
<1>8. TodosFollow
  BY <1>6, <1>7, WithTodosFollow
<1>9. UNCHANGED deferredItems
  BY DEF BatchCreateVersions
<1> QED
  BY <1>4, <1>8, <1>9 DEF Follow, DeferredItemsFollow

LEMMA StepFollows ==
  ASSUME LedgerInv, [Next]_vars
  PROVE  Follow
<1> USE DEF LedgerInv
<1>1. CASE UNCHANGED vars
  BY <1>1, SameWorkFollows DEF vars, work
<1>2. CASE Lifecycle
  <2>1. UNCHANGED work
    BY <1>2 DEF Lifecycle, PrepareVersion, StartVersion, MarkVersionComplete, CloseVersion,
                ShutdownVersion, ReopenVersion, SetCurrentVersion, AdvanceToVersion
  <2>2. Stays(versions', versions)
    BY <1>2, LifecycleStep
  <2> QED
    BY <2>1, <2>2, SameWorkFollows DEF Stays
<1>3. CASE TreeChange
  <2>1. CASE CreateVersion \/ InsertVersion \/ CreateChildVersion
    <3>1. UNCHANGED work
      BY <2>1 DEF CreateVersion, InsertVersion, CreateChildVersion
    <3>2. PICK place : \/ versions' = Added(versions, NewVersion, place)
                       \/ Stays(versions', Added(versions, NewVersion, place))
      BY <2>1, AddsOne
    <3>3. DOMAIN versions' = DOMAIN versions \cup {NewVersion}
      BY <3>2 DEF Stays, Added, Rebuilt, With
    <3> QED
      BY <3>1, <3>3, SameWorkFollows
  <2>2. ASSUME NEW v \in DOMAIN versions, ReorderVersions(v) PROVE Follow
    BY <2>2, ReorderStep, SameWorkFollows DEF ReorderVersions
  <2>3. ASSUME NEW k \in 1..MaxBatch, NewVersion + k - 1 \in VersionId,
               NEW parent \in Neighbour, NEW after \in Neighbour, NEW before \in Neighbour,
               BatchCreateVersions(k, parent, after, before)
        PROVE  Follow
    BY <2>3, BatchFollows
  <2> QED
    BY <1>3, <2>1, <2>2, <2>3 DEF TreeChange
<1>4. CASE Work
  <2>1. ASSUME NEW v \in DOMAIN versions, CreateTodo(v) PROVE Follow
    <3>1. UNCHANGED <<versions, deferredItems>> /\ WithTodos(<<v>>)
      BY <2>1 DEF CreateTodo
    <3>2. <<v>> \in [1..1 -> DOMAIN versions'] /\ 1 \in Nat
      BY <3>1
    <3>3. TodosFollow
      BY <3>1, <3>2, WithTodosFollow
    <3> QED
      BY <3>1, <3>3 DEF Follow, DeferredItemsFollow
  <2>2. ASSUME NEW t \in DOMAIN todos, CloseTodo(t) PROVE Follow
    BY <2>2, CloseTodoFollows
  <2>3. ASSUME NEW u \in DOMAIN versions, NEW v \in DOMAIN versions, DeferNewWork(u, v)
        PROVE  Follow
    BY <2>3, DeferNewWorkFollows
  <2>4. ASSUME NEW t \in DOMAIN todos, NEW v \in DOMAIN versions, DeferTodo(t, v)
        PROVE  Follow
    BY <2>4, DeferTodoFollows
  <2>5. ASSUME NEW d \in DOMAIN deferredItems, ActivateDeferred(d) \/ ResolveDeferred(d)
        PROVE  Follow
    BY <2>5, ActivateDeferredFollows, ResolveDeferredFollows
  <2>6. ASSUME NEW d \in DOMAIN deferredItems, NEW v \in DOMAIN versions, DeferAgain(d, v)
        PROVE  Follow
    BY <2>6, DeferAgainFollows
  <2> QED
    BY <1>4, <2>1, <2>2, <2>3, <2>4, <2>5, <2>6 DEF Work
<1> QED
  BY <1>1, <1>2, <1>3, <1>4 DEF Next

LEMMA RecordStep ==
  ASSUME LedgerInv, [Next]_vars
  PROVE  RecordInv'
<1>1. Follow /\ RecordInv
  BY StepFollows DEF LedgerInv
<1>2. ASSUME NEW t \in DOMAIN todos' PROVE TodoAt(t)'
  BY <1>1 DEF Follow, TodosFollow, RecordInv, TodoAt, TodoStatus
<1>3. ASSUME NEW d \in DOMAIN deferredItems' PROVE DeferredAt(d)'
  <2>1. CASE deferredItems' = deferredItems
    BY <1>1, <2>1 DEF Follow, RecordInv, DeferredAt
  <2>2. CASE d \in DOMAIN deferredItems /\ DeferredFollows(deferredItems'[d], deferredItems[d])
    BY <1>1, <2>2 DEF Follow, RecordInv, DeferredAt, DeferredFollows, DeferredStatus
  <2>3. CASE DeferredBegins(deferredItems'[d])
    BY <1>1, <2>3 DEF Follow, DeferredAt, DeferredBegins, DeferredStatus
  <2> QED
    BY <1>1, <2>1, <2>2, <2>3 DEF Follow, DeferredItemsFollow
<1> QED
  BY <1>2, <1>3 DEF RecordInv

LEMMA LedgerStep == LedgerInv /\ [Next]_vars => LedgerInv'
BY LineageStep, RouteStep, RecordStep DEF LedgerInv

LEMMA LedgerAlways == Spec => []LedgerInv
<1>1. Init => LedgerInv
  <2>1. Init => RecordInv
    BY DEF Init, RecordInv
  <2> QED
    BY <2>1, LineageInitially, RouteInitially DEF LedgerInv
<1> QED
  BY <1>1, LedgerStep, PTL DEF Spec

LEMMA SeqOver ==
  ASSUME NEW s, IsSeq(s), NEW T, \A i \in DOMAIN s : s[i] \in T
  PROVE  s \in Seq(T)
<1>1. PICK S : s \in Seq(S)
  BY DEF IsSeq
<1> QED
  BY <1>1

\* Every record keeps its shape, and names versions, todos and work items by ids
\* that have been given out.
THEOREM LedgerTypeOK == Spec => []TypeOK
<1>1. LedgerInv /\ Ordered(versions) => TypeOK
  <2> SUFFICES ASSUME LedgerInv, Ordered(versions) PROVE TypeOK
    OBVIOUS
  <2>1. LineageInv /\ RouteInv /\ RecordInv
    BY DEF LedgerInv
  <2>2. PICK n \in 0..MaxVersion : Numbered(versions, n)
    BY <2>1 DEF RouteInv
  <2>3. /\ Laid(versions) /\ DOMAIN versions = 1..n /\ Cardinality(DOMAIN versions) = n
        /\ DOMAIN versions \subseteq VersionId /\ 1..n \subseteq VersionId
    BY <2>2, NumberedCardinality, LedgerAssumption DEF Numbered, VersionId
  <2>4. ASSUME NEW v \in DOMAIN versions PROVE versions[v] \in Version
    <3> DEFINE r == versions[v]
    <3>1. Linked(versions, v)
      BY <2>3, LaidLinked
    <3>2. r.parent \in DOMAIN versions \cup {Null}
      BY <3>1 DEF Linked
    <3>3. r.previous \in DOMAIN versions \cup {Null} /\ r.next \in DOMAIN versions \cup {Null}
      BY <3>1 DEF Linked, Children
    <3>4. r.order \in 1..n
      BY <2>3, LaidOrders
    <3>5. VersionRecord(r)
      BY <2>3 DEF Laid, Records
    <3>6. r.state \in VersionState /\ r.isCurrent \in BOOLEAN
      BY <2>1 DEF RouteInv, Marks
    <3> HIDE DEF r
    <3>7. r \in Version
      BY <2>3, <3>2, <3>3, <3>4, <3>5, <3>6 DEF VersionRecord, Version
    <3> QED
      BY <3>7 DEF r
  <2>5. versions \in [1..n -> Version]
    BY <2>3, <2>4 DEF Laid, Records
  <2>6. /\ DOMAIN todos \subseteq Nat /\ DOMAIN deferredItems \subseteq Nat
        /\ DOMAIN workItems \subseteq Nat
    BY <2>1 DEF LineageInv, IsSeq
  <2>7. ASSUME NEW t \in DOMAIN todos PROVE todos[t] \in Todo
    BY <2>1, <2>3, <2>6 DEF LineageInv, TodoOK, RecordInv, TodoAt, TodoStatus, Todo
  <2>8. ASSUME NEW d \in DOMAIN deferredItems PROVE deferredItems[d] \in Deferred
    <3>1. DeferredOK(d) /\ DeferredAt(d)
      BY <2>1 DEF LineageInv, RecordInv
    <3>2. deferredItems[d].activatedTodo \in Nat \cup {Null}
      BY <2>6, <3>1 DEF DeferredOK, DeferredAt
    <3> QED
      BY <2>3, <2>6, <3>1, <3>2 DEF DeferredOK, DeferredAt, DeferredStatus, Deferred
  <2>9. ASSUME NEW w \in DOMAIN workItems PROVE workItems[w] \in WorkItem
    <3>1. Closed \in WorkItem
      BY DEF Closed, WorkItem
    <3>2. \A i \in Nat : Active("todo", i) \in WorkItem /\ Active("deferred", i) \in WorkItem
      BY DEF Active, WorkItem
    <3> QED
      BY <2>1, <2>6, <3>1, <3>2 DEF LineageInv, WorkItemOK
  <2>10. /\ todos \in Seq(Todo) /\ deferredItems \in Seq(Deferred)
         /\ workItems \in Seq(WorkItem)
    BY <2>1, <2>7, <2>8, <2>9, SeqOver DEF LineageInv
  <2>11. currentVersionId \in DOMAIN versions \cup {Null}
    BY <2>1 DEF RouteInv
  <2> QED
    BY <2>5, <2>10, <2>11 DEF TypeOK
<1> QED
  BY <1>1, LedgerAlways, OrderAlways, PTL

KeptAhead ==
  OrderKept => \A d \in DOMAIN deferredItems' :
                 (d \in DOMAIN deferredItems => Forward(d)) => Forward(d)'

LEMMA AheadStep == LedgerInv /\ [Next]_vars => KeptAhead
<1> SUFFICES ASSUME LedgerInv, [Next]_vars, OrderKept,
                    NEW d \in DOMAIN deferredItems',
                    d \in DOMAIN deferredItems => Forward(d)
             PROVE  Forward(d)'
  BY DEF KeptAhead
<1>1. Follow /\ RecordInv /\ RouteInv
  BY StepFollows DEF LedgerInv
<1>2. \A v \in DOMAIN versions : versions[v].order \in Int
  BY <1>1 DEF RouteInv, Numbered, Laid, Records, VersionRecord
<1>3. CASE deferredItems' = deferredItems
  BY <1>1, <1>3 DEF RecordInv, DeferredAt, Forward, Downstream, OrderKept
<1>4. CASE /\ versions' = versions /\ d \in DOMAIN deferredItems
           /\ DeferredFollows(deferredItems'[d], deferredItems[d])
  BY <1>1, <1>2, <1>4 DEF RecordInv, DeferredAt, Forward, Downstream, DeferredFollows
<1>5. CASE versions' = versions /\ DeferredBegins(deferredItems'[d])
  BY <1>5 DEF Forward, Downstream, DeferredBegins
<1> QED
  BY <1>1, <1>3, <1>4, <1>5 DEF Follow, DeferredItemsFollow

LEMMA AheadFollows == []LedgerInv /\ [][Next]_vars => DeferredStaysAhead
<1>1. []LedgerInv /\ [][Next]_vars => [][KeptAhead]_vars
  BY AheadStep, PTL
<1> QED
  BY <1>1 DEF DeferredStaysAhead, KeptAhead

\* However often work is deferred again, and whatever is inserted into the route
\* in between, its review stays downstream of its origin, in a route and for
\* deferrals of any number.
THEOREM DeferredAhead == Spec => DeferredStaysAhead
BY AheadFollows, LedgerAlways, PTL DEF Spec

-----------------------------------------------------------------------------
(* The validator of the next load.                                         *)

\* The first and the last element of a list that are in a set.
LEMMA ListEnds ==
  ASSUME NEW n \in Nat, NEW list, NEW P, NEW k \in 1..n, list[k] \in P
  PROVE  /\ \E i \in 1..n : list[i] \in P /\ \A j \in 1..n : j < i => list[j] \notin P
         /\ \E i \in 1..n : list[i] \in P /\ \A j \in 1..n : j > i => list[j] \notin P
<1>1. ASSUME \A i \in 1..n : list[i] \in P => \E j \in 1..n : j < i /\ list[j] \in P
      PROVE  FALSE
  <2> DEFINE S == {m \in Nat : \A j \in 1..n : j <= m => list[j] \notin P}
  <2>1. 0 \in S
    OBVIOUS
  <2>2. ASSUME NEW m \in Nat, m \in S PROVE m + 1 \in S
    <3> SUFFICES ASSUME m + 1 \in 1..n, list[m + 1] \in P PROVE FALSE
      BY <2>2
    <3>1. PICK j \in 1..n : j < m + 1 /\ list[j] \in P
      BY <1>1
    <3> QED
      BY <2>2, <3>1
  <2>3. n \in S
    <3> HIDE DEF S
    <3> QED
      BY <2>1, <2>2, NatSetInduction
  <2> QED
    BY <2>3
<1>2. ASSUME \A i \in 1..n : list[i] \in P => \E j \in 1..n : j > i /\ list[j] \in P
      PROVE  FALSE
  <2> DEFINE S == {m \in Nat : \A j \in 1..n : j > n - m => list[j] \notin P}
  <2>1. 0 \in S
    OBVIOUS
  <2>2. ASSUME NEW m \in Nat, m \in S PROVE m + 1 \in S
    <3> SUFFICES ASSUME n - m \in 1..n, list[n - m] \in P PROVE FALSE
      BY <2>2
    <3>1. PICK j \in 1..n : j > n - m /\ list[j] \in P
      BY <1>2
    <3> QED
      BY <2>2, <3>1
  <2>3. n \in S
    <3> HIDE DEF S
    <3> QED
      BY <2>1, <2>2, NatSetInduction
  <2> QED
    BY <2>3
<1> QED
  BY <1>1, <1>2

\* A list of children, and their pointers.
ListAlong(vs, list) ==
  /\ Len(list) \in Nat /\ DOMAIN list = 1..Len(list) /\ IsInjective(list)
  /\ \A i \in 1..Len(list) :
       /\ list[i] \in DOMAIN vs
       /\ i = 1 => vs[list[i]].previous = Null
       /\ i # 1 => vs[list[i]].previous = list[i - 1]
       /\ i = Len(list) => vs[list[i]].next = Null
       /\ i # Len(list) => vs[list[i]].next = list[i + 1]

LEMMA DrawnAlong ==
  ASSUME NEW vs, NEW lists, ForestOf(DOMAIN vs, lists), Drawn(vs, lists),
         NEW p \in DOMAIN lists
  PROVE  ListAlong(vs, lists[p])
<1> DEFINE list == lists[p]
           n == Len(list)
<1>1. ListOver(list, DOMAIN vs)
  BY DEF ForestOf
<1>2. \A i \in DOMAIN list :
        /\ i = 1 => vs[list[i]].previous = Null
        /\ i # 1 => vs[list[i]].previous = list[i - 1]
        /\ i = Len(list) => vs[list[i]].next = Null
        /\ i # Len(list) => vs[list[i]].next = list[i + 1]
  BY DEF Drawn
<1> HIDE DEF list
<1>3. /\ Len(list) \in Nat /\ DOMAIN list = 1..Len(list) /\ IsInjective(list)
      /\ \A i \in 1..Len(list) : list[i] \in DOMAIN vs
  BY <1>1 DEF ListOver
<1>4. ListAlong(vs, list)
  BY <1>2, <1>3 DEF ListAlong
<1> QED
  BY <1>4 DEF list

LEMMA LaidAcyclic ==
  ASSUME NEW vs, Laid(vs), NEW pointer \in Pointers
  PROVE  Acyclic(vs, pointer)
<1> DEFINE lists == Lists(vs)
<1>1. ForestOf(DOMAIN vs, lists) /\ Drawn(vs, lists) /\ Null \notin DOMAIN vs
  BY DEF Laid, LaidAlong, Records
<1> HIDE DEF lists
<1> SUFFICES ASSUME NEW loop \in SUBSET DOMAIN vs, loop # {}
             PROVE  \E v \in loop : vs[v][pointer] \notin loop
  BY DEF Acyclic
<1>2. ASSUME NEW v \in loop
      PROVE  \E p \in DOMAIN lists : \E k \in DOMAIN lists[p] :
               v = lists[p][k] /\ vs[v].parent = p
  BY <1>1, DrawnPlace
<1>3. CASE pointer = "parent"
  <2>1. PICK v \in loop : \A p \in loop : v \notin ToSet(lists[p])
    BY <1>1 DEF ForestOf
  <2>2. v \in ToSet(lists[vs[v].parent])
    BY <1>2 DEF ToSet
  <2> QED
    BY <1>3, <2>1, <2>2
<1>4. CASE pointer \in {"previous", "next"}
  <2>1. PICK u \in loop : TRUE
    OBVIOUS
  <2>2. PICK p \in DOMAIN lists : \E k \in DOMAIN lists[p] : u = lists[p][k]
    BY <1>2
  <2>3. PICK k \in DOMAIN lists[p] : lists[p][k] \in loop
    BY <2>2
  <2> DEFINE list == lists[p]
             n == Len(list)
  <2>4. ListAlong(vs, list) /\ k \in DOMAIN list /\ list[k] \in loop
    BY <1>1, <2>3, DrawnAlong
  <2> HIDE DEF list
  <2>5. n \in Nat /\ k \in 1..n
    BY <2>4 DEF ListAlong
  <2>6. \A i \in 1..n :
          /\ i = 1 => vs[list[i]].previous = Null
          /\ i # 1 => vs[list[i]].previous = list[i - 1]
          /\ i = n => vs[list[i]].next = Null
          /\ i # n => vs[list[i]].next = list[i + 1]
    BY <2>4 DEF ListAlong
  <2> HIDE DEF n
  <2>7. CASE pointer = "previous"
    <3>1. PICK i \in 1..n : list[i] \in loop /\ \A j \in 1..n : j < i => list[j] \notin loop
      BY <2>4, <2>5, ListEnds
    <3>2. i # 1 => i - 1 \in 1..n /\ i - 1 < i
      BY <2>5
    <3>3. vs[list[i]].previous \notin loop
      BY <1>1, <2>6, <3>1, <3>2
    <3> QED
      BY <2>7, <3>1, <3>3
  <2>8. CASE pointer = "next"
    <3>1. PICK i \in 1..n : list[i] \in loop /\ \A j \in 1..n : j > i => list[j] \notin loop
      BY <2>4, <2>5, ListEnds
    <3>2. i # n => i + 1 \in 1..n /\ i + 1 > i
      BY <2>5
    <3>3. vs[list[i]].next \notin loop
      BY <1>1, <2>6, <3>1, <3>2
    <3> QED
      BY <2>8, <3>1, <3>3
  <2> QED
    BY <1>4, <2>7, <2>8
<1> QED
  BY <1>3, <1>4 DEF Pointers

LEMMA LaidReferenced ==
  ASSUME NEW vs, Laid(vs), NEW v \in DOMAIN vs
  PROVE  /\ \A pointer \in Pointers : Referenced(vs, v, pointer)
         /\ Mirrored(vs, v, "previous", "next") /\ Mirrored(vs, v, "next", "previous")
<1>1. Linked(vs, v) /\ Null \notin DOMAIN vs
  BY LaidLinked DEF Laid, Records
<1>2. /\ vs[v].parent \in (DOMAIN vs \cup {Null}) \ {v}
      /\ vs[v].previous \in (DOMAIN vs \cup {Null}) \ {v}
      /\ vs[v].next \in (DOMAIN vs \cup {Null}) \ {v}
  BY <1>1 DEF Linked, Children
<1>3. \A pointer \in Pointers : Referenced(vs, v, pointer)
  BY <1>2 DEF Pointers, Referenced
<1>4. Mirrored(vs, v, "previous", "next") /\ Mirrored(vs, v, "next", "previous")
  BY <1>1 DEF Mirrored, Linked, Children
<1> QED
  BY <1>3, <1>4

\* The way from the head through the children of one version.
Further(vs, group, visited) == visited \cup ({vs[v].next : v \in visited} \cap group)

VisitStep(f, i, vs, group, heads) == IF i = 0 THEN heads ELSE Further(vs, group, f[i - 1])

Visits(f, n, vs, group, heads) == f = [i \in 0..n |-> VisitStep(f, i, vs, group, heads)]

HasVisits(n, vs, group, heads) == \E f : Visits(f, n, vs, group, heads)

LEMMA VisitsDefined ==
  ASSUME NEW vs, NEW group, NEW heads, NEW n \in Nat
  PROVE  HasVisits(n, vs, group, heads)
<1> DEFINE Step(f, i) == VisitStep(f, i, vs, group, heads)
           S == {k \in Nat : \E f : f = [i \in 0..k |-> Step(f, i)]}
<1>0. \A f, g, i : (i # 0 => f[i - 1] = g[i - 1]) => Step(f, i) = Step(g, i)
  BY DEF VisitStep
<1> HIDE DEF Step
<1>1. 0 \in S
  <2> DEFINE g == [i \in 0..0 |-> Step(<<>>, i)]
  <2>1. \A i \in 0..0 : g[i] = Step(g, i)
    <3>1. \A i \in 0..0 : g[i] = Step(<<>>, i) /\ i = 0
      OBVIOUS
    <3> HIDE DEF g
    <3> QED
      BY <1>0, <3>1
  <2>2. g = [i \in 0..0 |-> g[i]]
    OBVIOUS
  <2> HIDE DEF g
  <2>3. g = [i \in 0..0 |-> Step(g, i)]
    BY <2>1, <2>2
  <2> QED
    BY <2>3
<1>2. ASSUME NEW k \in Nat, k \in S PROVE k + 1 \in S
  <2>1. PICK f : f = [i \in 0..k |-> Step(f, i)]
    BY <1>2
  <2> DEFINE g == [i \in 0..(k + 1) |-> IF i <= k THEN f[i] ELSE Step(f, i)]
  <2>2. ASSUME NEW i \in 0..(k + 1) PROVE g[i] = Step(g, i)
    <3>1. g[i] = Step(f, i)
      <4>1. i \in 0..k => f[i] = Step(f, i)
        BY <2>1
      <4>2. i <= k => i \in 0..k
        OBVIOUS
      <4> QED
        BY <4>1, <4>2
    <3>2. i # 0 => i - 1 \in 0..k /\ g[i - 1] = f[i - 1]
      OBVIOUS
    <3> HIDE DEF g
    <3>3. Step(f, i) = Step(g, i)
      BY <1>0, <3>2
    <3> QED
      BY <3>1, <3>3
  <2>3. g = [i \in 0..(k + 1) |-> Step(g, i)]
    <3>1. g = [i \in 0..(k + 1) |-> g[i]]
      OBVIOUS
    <3> HIDE DEF g
    <3> QED
      BY <2>2, <3>1
  <2> HIDE DEF g
  <2> QED
    BY <2>3
<1>3. n \in S
  <2> HIDE DEF S
  <2> QED
    BY <1>1, <1>2, NatSetInduction
<1> QED
  BY <1>3 DEF Step, HasVisits, Visits

\* The way passes through the list, and through nothing else.
LEMMA VisitsList ==
  ASSUME NEW vs, NEW list, ListAlong(vs, list), NEW group, group = ToSet(list),
         NEW heads, heads \subseteq group, 1 \in DOMAIN list => list[1] \in heads,
         NEW visited, Visits(visited, Len(list), vs, group, heads)
  PROVE  visited[Len(list)] = group
<1> DEFINE n == Len(list)
           S == {i \in Nat : i \in 0..n => /\ visited[i] \subseteq group
                                           /\ \A j \in 1..n : j <= i + 1 => list[j] \in visited[i]}
<1>1. /\ n \in Nat /\ DOMAIN list = 1..n
      /\ \A i \in 1..n : i # n => vs[list[i]].next = list[i + 1]
  BY DEF ListAlong
<1>2. \A i \in 0..n : visited[i] = VisitStep(visited, i, vs, group, heads)
  <2>1. visited = [i \in 0..n |-> VisitStep(visited, i, vs, group, heads)]
    BY DEF Visits
  <2> HIDE DEF n
  <2> QED
    BY <2>1
<1> HIDE DEF n
<1>3. group = {list[j] : j \in 1..n}
  BY <1>1 DEF ToSet
<1>4. 0 \in S
  <2>1. 0 \in 0..n /\ visited[0] = heads
    BY <1>1, <1>2 DEF VisitStep
  <2>2. \A j \in 1..n : j <= 0 + 1 => j = 1 /\ list[j] \in heads
    BY <1>1
  <2> QED
    BY <2>1, <2>2
<1>5. ASSUME NEW i \in Nat, i \in S PROVE i + 1 \in S
  <2> SUFFICES ASSUME i + 1 \in 0..n
               PROVE  /\ visited[i + 1] \subseteq group
                      /\ \A j \in 1..n : j <= (i + 1) + 1 => list[j] \in visited[i + 1]
    OBVIOUS
  <2>1. i \in 0..n /\ i + 1 # 0 /\ (i + 1) - 1 = i
    BY <1>1
  <2>2. /\ visited[i] \subseteq group
        /\ \A j \in 1..n : j <= i + 1 => list[j] \in visited[i]
    BY <1>5, <2>1
  <2>3. visited[i + 1] = Further(vs, group, visited[i])
    BY <1>2, <2>1 DEF VisitStep
  <2>4. visited[i + 1] \subseteq group /\ visited[i] \subseteq visited[i + 1]
    BY <2>2, <2>3 DEF Further
  <2>5. ASSUME NEW j \in 1..n, j <= (i + 1) + 1 PROVE list[j] \in visited[i + 1]
    <3>1. CASE j <= i + 1
      BY <2>2, <2>4, <3>1
    <3>2. CASE j = i + 2
      <4>1. i + 1 \in 1..n /\ i + 1 # n /\ (i + 1) + 1 = j
        BY <1>1, <2>5, <3>2
      <4>2. list[i + 1] \in visited[i]
        BY <2>2, <4>1
      <4>3. vs[list[i + 1]].next = list[j]
        BY <1>1, <4>1
      <4> QED
        BY <1>3, <2>3, <4>2, <4>3 DEF Further
    <3> QED
      BY <1>1, <2>5, <3>1, <3>2
  <2> QED
    BY <2>4, <2>5
<1>6. n \in S
  <2> HIDE DEF S
  <2> QED
    BY <1>1, <1>4, <1>5, NatSetInduction
<1>7. /\ visited[n] \subseteq group
      /\ \A j \in 1..n : list[j] \in visited[n]
  <2>1. n \in 0..n /\ \A j \in 1..n : j <= n + 1
    BY <1>1
  <2> QED
    BY <1>6, <2>1
<1>8. visited[n] = group
  BY <1>3, <1>7
<1> QED
  BY <1>8 DEF n

LEMMA LaidChained ==
  ASSUME NEW vs, Laid(vs), NEW p \in DOMAIN vs \cup {Null}
  PROVE  Chained(vs, p)
<1> DEFINE list == Lists(vs)[p]
           n == Len(list)
           group == Children(vs, p)
           heads == {v \in group : vs[v].previous = Null}
           tails == {v \in group : vs[v].next = Null}
           visited == CHOOSE f : f = [i \in 0..Cardinality(group) |->
             IF i = 0 THEN heads
             ELSE f[i - 1] \cup ({vs[v].next : v \in f[i - 1]} \cap group)]
<1>1. /\ ForestOf(DOMAIN vs, Lists(vs)) /\ Drawn(vs, Lists(vs))
      /\ Null \notin DOMAIN vs /\ p \in DOMAIN Lists(vs)
  BY DEF Laid, LaidAlong, Records, Lists
<1>2. ListAlong(vs, list) /\ group = ToSet(list)
  BY <1>1, DrawnAlong, DrawnChildren
<1>3. Cardinality(group) = n
  <2>1. ListOver(list, DOMAIN vs)
    BY <1>1 DEF ForestOf
  <2> QED
    BY <1>2, <2>1, ListCardinality
<1> SUFFICES ASSUME n > 1
             PROVE  Cardinality(heads) = 1 /\ Cardinality(tails) = 1 /\ visited[n] = group
  BY <1>3, Zenon DEF Chained
<1> HIDE DEF list, group, visited
<1>4. /\ n \in Nat /\ DOMAIN list = 1..n /\ 1 \in 1..n /\ n \in 1..n
      /\ \A i \in 1..n :
           /\ list[i] \in DOMAIN vs
           /\ i = 1 => vs[list[i]].previous = Null
           /\ i # 1 => vs[list[i]].previous = list[i - 1]
           /\ i = n => vs[list[i]].next = Null
           /\ i # n => vs[list[i]].next = list[i + 1]
  <2>1. /\ n \in Nat /\ DOMAIN list = 1..n
        /\ \A i \in 1..n :
             /\ list[i] \in DOMAIN vs
             /\ i = 1 => vs[list[i]].previous = Null
             /\ i # 1 => vs[list[i]].previous = list[i - 1]
             /\ i = n => vs[list[i]].next = Null
             /\ i # n => vs[list[i]].next = list[i + 1]
    BY <1>2, Zenon DEF ListAlong
  <2> HIDE DEF n
  <2>2. 1 \in 1..n /\ n \in 1..n
    BY <2>1
  <2> QED
    BY <2>1, <2>2
<1> HIDE DEF n
<1>5. group = {list[i] : i \in 1..n}
  BY <1>2, <1>4 DEF ToSet
<1>6. \A i \in 1..n : (i # 1 => i - 1 \in 1..n) /\ (i # n => i + 1 \in 1..n)
  BY <1>4
<1>7. heads = {list[1]}
  BY <1>1, <1>4, <1>5, <1>6
<1>8. tails = {list[n]}
  BY <1>1, <1>4, <1>5, <1>6
<1>9. Cardinality({list[1]}) = 1 /\ Cardinality({list[n]}) = 1
  BY FS_Singleton
<1>10. visited[n] = group
  <2>1. visited = CHOOSE f : Visits(f, n, vs, group, heads)
    BY <1>3, Zenon DEF visited, Visits, VisitStep, Further
  <2> HIDE DEF heads
  <2>2. HasVisits(n, vs, group, heads)
    BY <1>4, VisitsDefined
  <2>3. Visits(visited, n, vs, group, heads)
    BY <2>1, <2>2, Zenon DEF HasVisits
  <2>4. heads \subseteq group /\ list[1] \in heads
    BY <1>7, <1>4, <1>5
  <2>5. Visits(visited, Len(list), vs, group, heads)
    BY <2>3 DEF n
  <2>6. visited[Len(list)] = group
    BY <1>2, <2>4, <2>5, VisitsList
  <2> QED
    BY <2>6 DEF n
<1> QED
  BY <1>7, <1>8, <1>9, <1>10

LEMMA ValidFollows == LedgerInv => SavesAreValid
<1> SUFFICES ASSUME LedgerInv PROVE Valid
  BY DEF SavesAreValid
<1>1. LineageInv /\ RouteInv /\ RecordInv
  BY DEF LedgerInv
<1>2. Laid(versions) /\ Null \notin DOMAIN versions
  BY <1>1 DEF RouteInv, Numbered, Laid, Records
<1>3. ValidTree(versions)
  BY <1>2, LaidReferenced, LaidAcyclic, LaidChained DEF ValidTree, SiblingStructure
<1>4. ValidCurrent
  <2>1. \A v \in DOMAIN versions : versions[v].isCurrent \in BOOLEAN
    BY <1>1 DEF RouteInv, Marks
  <2>2. /\ currentVersionId \in DOMAIN versions \cup {Null}
        /\ DOMAIN versions # {} => currentVersionId \in DOMAIN versions
        /\ \A v \in DOMAIN versions : versions[v].isCurrent <=> v = currentVersionId
    BY <1>1 DEF RouteInv, CurrentIsMarked
  <2> QED
    BY <1>2, <2>1, <2>2 DEF ValidCurrent
<1>5. LineageIsSound
  BY <1>1, LineageImplies
<1>6. ASSUME NEW w \in DOMAIN workItems PROVE ValidLineage(w)
  <2>1. OpenRecords(w) = IF workItems[w].status = "active"
                         THEN {workItems[w].activeRecord} ELSE {}
    BY <1>5 DEF LineageIsSound
  <2>2. DOMAIN todos \subseteq Nat /\ DOMAIN deferredItems \subseteq Nat
    BY <1>1 DEF LineageInv, IsSeq
  <2>3. \/ workItems[w] = Closed
        \/ \E i \in Nat : workItems[w] = Active("todo", i) \/ workItems[w] = Active("deferred", i)
    BY <1>1, <2>2 DEF LineageInv, WorkItemOK
  <2>4. CASE workItems[w] = Closed
    BY <2>1, <2>4 DEF Closed, ValidLineage
  <2>5. ASSUME NEW i \in Nat, NEW type \in {"todo", "deferred"}, workItems[w] = Active(type, i)
        PROVE  ValidLineage(w)
    <3>1. workItems[w].status = "active" /\ workItems[w].activeRecord = <<type, i>>
      BY <2>5 DEF Active
    <3>2. <<type, i>> # Null
      BY LedgerAssumption
    <3> QED
      BY <2>1, <3>1, <3>2 DEF ValidLineage
  <2> QED
    BY <2>3, <2>4, <2>5
<1>7. ASSUME NEW t \in DOMAIN todos PROVE ValidTodo(todos[t])
  BY <1>1 DEF LineageInv, TodoOK, RecordInv, TodoAt, ValidTodo
<1>8. ASSUME NEW d \in DOMAIN deferredItems PROVE ValidDeferred(d)
  BY <1>1 DEF LineageInv, DeferredOK, RecordInv, DeferredAt, ValidDeferred
<1> QED
  BY <1>3, <1>4, <1>6, <1>7, <1>8 DEF Valid

\* Whatever a command saves, of whatever size, the validator of the next load
\* (packages/json/src/validator.ts) lets in: no project locks itself out.
THEOREM SavedIsLoadable == Spec => []SavesAreValid
  BY ValidFollows, LedgerAlways, PTL

-----------------------------------------------------------------------------
(* The route as an ordered forest.                                         *)

\* The lists of the forest, as ImplementsForest reads them from the versions.
Wide(vs) == [p \in VersionId \cup {Null} |->
               IF p \in DOMAIN vs \cup {Null} THEN Siblings(vs, p) ELSE <<>>]

LEMMA WideLists ==
  ASSUME NEW vs, NEW n \in 0..MaxVersion, Numbered(vs, n)
  PROVE  /\ DOMAIN Wide(vs) = VersionId \cup {Null}
         /\ Wide(vs) = [p \in VersionId \cup {Null} |-> Wide(vs)[p]]
         /\ DOMAIN vs \subseteq VersionId /\ Null \notin VersionId
         /\ \A p \in DOMAIN vs \cup {Null} : Wide(vs)[p] = Lists(vs)[p]
         /\ \A p \in VersionId \ DOMAIN vs : Wide(vs)[p] = <<>>
         /\ \A p \in VersionId \cup {Null} : ListOver(Wide(vs)[p], DOMAIN vs)
         /\ Forest!Present(Wide(vs)) = DOMAIN vs
<1>1. DOMAIN vs \subseteq VersionId /\ Null \notin VersionId
  BY LedgerAssumption DEF Numbered, VersionId
<1>2. /\ \A p \in DOMAIN vs \cup {Null} : Wide(vs)[p] = Lists(vs)[p]
      /\ \A p \in VersionId \ DOMAIN vs : Wide(vs)[p] = <<>>
      /\ DOMAIN Wide(vs) = VersionId \cup {Null}
      /\ Wide(vs) = [p \in VersionId \cup {Null} |-> Wide(vs)[p]]
  BY <1>1 DEF Wide, Lists
<1>3. ForestOf(DOMAIN vs, Lists(vs)) /\ DOMAIN Lists(vs) = DOMAIN vs \cup {Null}
  BY DEF Numbered, Laid, LaidAlong, Lists
<1>4. ListOver(<<>>, DOMAIN vs) /\ ToSet(<<>>) = {}
  BY DEF ListOver, IsInjective, ToSet
<1>5. \A p \in VersionId \cup {Null} : ListOver(Wide(vs)[p], DOMAIN vs)
  <2>1. \A p \in DOMAIN vs \cup {Null} : ListOver(Lists(vs)[p], DOMAIN vs)
    BY <1>3 DEF ForestOf
  <2> QED
    BY <1>2, <1>4, <2>1
<1>6. \A p \in VersionId \cup {Null} : ToSet(Wide(vs)[p]) \subseteq DOMAIN vs
  BY <1>5 DEF ListOver, ToSet
<1>7. \A v \in DOMAIN vs : \E p \in VersionId \cup {Null} : v \in ToSet(Wide(vs)[p])
  <2>1. \A v \in DOMAIN vs : \E p \in DOMAIN vs \cup {Null} : v \in ToSet(Lists(vs)[p])
    BY <1>3 DEF ForestOf
  <2> QED
    BY <1>1, <1>2, <2>1
<1>8. Forest!Present(Wide(vs)) = DOMAIN vs
  <2>1. Forest!Present(Wide(vs)) = UNION {ToSet(Wide(vs)[p]) : p \in VersionId \cup {Null}}
    BY Zenon DEF Forest!Present, Forest!Parent, Forest!ToSet, ToSet
  <2> QED
    BY <1>6, <1>7, <2>1
<1> QED
  BY <1>1, <1>2, <1>5, <1>8

\* A run of new versions is an insertion.
LEMMA GraftInserts ==
  ASSUME NEW n \in Nat, NEW m \in Nat, m > 0, n + m \in 0..MaxVersion,
         NEW vs, Numbered(vs, n), NEW new, Numbered(new, n + m),
         NEW p \in DOMAIN vs \cup {Null}, NEW k, Grafted(new, vs, p, k, Run(n, m))
  PROVE  /\ p \in VersionId \cup {Null} /\ k \in 0..Len(Wide(vs)[p])
         /\ Forest!Insert(Wide(vs), Wide(new), p, k) /\ Wide(new) # Wide(vs)
<1> DEFINE old == Wide(vs)
           now == Wide(new)
           list == old[p]
           r == Run(n, m)
           D == 1..(n + m)
<1>1. /\ n \in 0..MaxVersion /\ DOMAIN vs = 1..n /\ DOMAIN new = D
      /\ DOMAIN vs \subseteq D
  BY LedgerAssumption DEF Numbered
<1>2. /\ DOMAIN old = VersionId \cup {Null} /\ old = [q \in VersionId \cup {Null} |-> old[q]]
      /\ DOMAIN vs \subseteq VersionId /\ Null \notin VersionId
      /\ \A q \in DOMAIN vs \cup {Null} : old[q] = Lists(vs)[q]
      /\ \A q \in VersionId \ DOMAIN vs : old[q] = <<>>
      /\ \A q \in VersionId \cup {Null} : ListOver(old[q], DOMAIN vs)
      /\ Forest!Present(old) = DOMAIN vs
  BY <1>1, WideLists
<1>3. /\ now = [q \in VersionId \cup {Null} |-> now[q]] /\ DOMAIN new \subseteq VersionId
      /\ \A q \in DOMAIN new \cup {Null} : now[q] = Lists(new)[q]
      /\ \A q \in VersionId \ DOMAIN new : now[q] = <<>>
  BY WideLists
<1> HIDE DEF old, now, list
<1>4. /\ p \in VersionId \cup {Null} /\ list = Lists(vs)[p] /\ p \in DOMAIN new \cup {Null}
  BY <1>1, <1>2 DEF list
<1>5. /\ k \in 0..Len(list) /\ now[p] = Spliced(list, k, r)
      /\ \A q \in (DOMAIN vs \cup {Null}) \ {p} : now[q] = old[q]
      /\ \A q \in DOMAIN new \ DOMAIN vs : now[q] = <<>>
  BY <1>1, <1>2, <1>3, <1>4 DEF Grafted
<1>6. list \in Seq(D)
  <2>1. ListOver(list, DOMAIN vs)
    BY <1>2, <1>4 DEF list
  <2> HIDE DEF D
  <2> QED
    BY <1>1, <2>1, SeqMonotonic DEF ListOver
<1>7. /\ r \in Seq(D) /\ Len(r) = m /\ DOMAIN r = 1..m /\ \A j \in 1..m : r[j] = n + j
  BY DEF Run
<1> HIDE DEF r
<1>8. r # <<>> /\ IsInjective(r)
  BY <1>7 DEF IsInjective
<1>9. ToSet(r) \subseteq VersionId \ DOMAIN vs
  <2>1. \A j \in 1..m : n + j \in D /\ n + j \notin 1..n
    OBVIOUS
  <2> HIDE DEF D
  <2> QED
    BY <1>1, <1>3, <1>7, <2>1 DEF ToSet
<1> HIDE DEF D
<1>10. /\ SubSeq(now[p], k + 1, k + Len(now[p]) - Len(list)) = r
       /\ Len(now[p]) = Len(list) + m
  <2>1. RunBetween(Spliced(list, k, r), list, r, k)
    BY <1>5, <1>6, <1>7, SplicedRun
  <2>2. RunBetween(now[p], list, r, k)
    BY <1>5, <2>1
  <2> QED
    BY <1>7, <2>2 DEF RunBetween
<1>11. now = [old EXCEPT ![p] = Spliced(list, k, r)]
  <2> DEFINE q == Spliced(list, k, r)
             next == [old EXCEPT ![p] = q]
  <2>1. /\ DOMAIN next = VersionId \cup {Null} /\ next[p] = q
        /\ next = [x \in VersionId \cup {Null} |-> next[x]]
        /\ \A x \in VersionId \cup {Null} : x # p => next[x] = old[x]
    BY <1>2, <1>4
  <2>2. now[p] = q
    BY <1>5
  <2> HIDE DEF q, next
  <2>3. \A x \in VersionId \cup {Null} : now[x] = next[x]
    BY <1>2, <1>3, <1>5, <2>1, <2>2
  <2>4. now = next
    BY <1>3, <2>1, <2>3
  <2> QED
    BY <2>4 DEF next, q
<1>12. now # old
  <2>1. Len(list) \in Nat
    BY <1>6
  <2>2. Len(now[p]) # Len(list)
    BY <1>10, <2>1
  <2> QED
    BY <2>2 DEF list
<1>13. Forest!Insert(old, now, p, k)
  <2>1. now = [old EXCEPT ![p] = Forest!Spliced(list, k, r)]
    BY <1>11, Zenon DEF Spliced, Forest!Spliced
  <2>2. p \in Forest!Present(old) \cup {Null}
    BY <1>2
  <2>3. Forest!IsInjective(r) /\ Forest!ToSet(r) \subseteq VersionId \ Forest!Present(old)
    <3>1. Forest!IsInjective(r)
      BY <1>8, Zenon DEF Forest!IsInjective, IsInjective
    <3>2. Forest!ToSet(r) = ToSet(r)
      BY Zenon DEF Forest!ToSet, ToSet
    <3> QED
      BY <1>2, <1>9, <3>1, <3>2
  <2> QED
    BY <1>8, <1>10, <2>1, <2>2, <2>3, Zenon DEF Forest!Insert, list
<1> QED
  BY <1>4, <1>5, <1>12, <1>13 DEF old, now, list

LEMMA WideSame ==
  ASSUME NEW vs, NEW new, DOMAIN new = DOMAIN vs, Lists(new) = Lists(vs)
  PROVE  Wide(new) = Wide(vs)
<1>1. \A p \in DOMAIN vs \cup {Null} : Siblings(new, p) = Siblings(vs, p)
  <2>1. \A p \in DOMAIN vs \cup {Null} : /\ Lists(new)[p] = Siblings(new, p)
                                         /\ Lists(vs)[p] = Siblings(vs, p)
    BY DEF Lists
  <2> QED
    BY <2>1
<1> QED
  BY <1>1 DEF Wide

\* A version put somewhere else among its siblings is a move.
LEMMA PlaceMoves ==
  ASSUME NEW n \in 0..MaxVersion, NEW vs, Numbered(vs, n), NEW new, Numbered(new, n),
         NEW v \in DOMAIN vs, NEW place, place.parent = vs[v].parent,
         Named(place) \subseteq ToSet(Without(Siblings(vs, place.parent), v)),
         Lists(new) = [Lists(vs) EXCEPT ![place.parent] = InsertSibling(Without(@, v), v, place)]
  PROVE  \E p \in VersionId \cup {Null} : \E i \in 0..Len(Wide(vs)[p]) :
           i < Len(Wide(vs)[p])
           /\ \E j \in DOMAIN Wide(vs)[p] : Forest!Move(Wide(vs), Wide(new), p, j, i)
<1> DEFINE p == place.parent
           old == Wide(vs)
           now == Wide(new)
           list == old[p]
           j == Position(list, v)
           rest == RemoveAt(list, j)
<1>1. /\ DOMAIN vs = 1..n /\ DOMAIN new = 1..n /\ Laid(vs)
      /\ ForestOf(DOMAIN vs, Lists(vs)) /\ Drawn(vs, Lists(vs))
  BY DEF Numbered, Laid, LaidAlong
<1>2. /\ DOMAIN old = VersionId \cup {Null} /\ old = [q \in VersionId \cup {Null} |-> old[q]]
      /\ DOMAIN vs \subseteq VersionId
      /\ \A q \in DOMAIN vs \cup {Null} : old[q] = Lists(vs)[q]
      /\ \A q \in VersionId \ DOMAIN vs : old[q] = <<>>
      /\ \A q \in VersionId \cup {Null} : ListOver(old[q], DOMAIN vs)
  BY WideLists
<1>3. /\ now = [q \in VersionId \cup {Null} |-> now[q]]
      /\ \A q \in DOMAIN new \cup {Null} : now[q] = Lists(new)[q]
      /\ \A q \in VersionId \ DOMAIN new : now[q] = <<>>
  BY WideLists
<1>4. p \in DOMAIN vs \cup {Null}
  BY <1>1, LaidLinked DEF Linked
<1> HIDE DEF p, old, now, list
<1>5. list = Siblings(vs, p) /\ list = Lists(vs)[p] /\ ListOver(list, DOMAIN vs)
  BY <1>2, <1>4 DEF list, Lists
<1>6. v \in ToSet(list)
  <2>1. Children(vs, p) = ToSet(Lists(vs)[p])
    BY <1>1, <1>4, DrawnChildren DEF Lists
  <2> QED
    BY <1>5, <2>1 DEF Children, p
<1>7. j \in DOMAIN list /\ list[j] = v
  BY <1>6, PositionFacts
<1> HIDE DEF j
<1>8. /\ ListOver(rest, DOMAIN vs) /\ Len(rest) = Len(list) - 1
  BY <1>5, <1>7, RemoveAtList
<1>9. Without(list, v) = rest
  BY DEF Without, j
<1> HIDE DEF rest
<1>10. Named(place) \subseteq ToSet(rest)
  BY <1>5, <1>9 DEF p
<1>11. PICK k \in 1..(Len(rest) + 1) : InsertSibling(rest, v, place) = InsertAt(rest, k, v)
  BY <1>8, <1>10, InsertSiblingIs
<1> DEFINE i == k - 1
<1>12. Len(list) \in Nat
  BY <1>5 DEF ListOver
<1>13. i \in 0..Len(list) /\ i < Len(list) /\ i \in Int /\ i + 1 = k
  BY <1>8, <1>11, <1>12
<1> HIDE DEF i
<1>14. InsertAt(rest, k, v) = Spliced(rest, i, <<v>>)
  BY <1>13, SplicedOne
<1>15. Forest!Move(old, now, p, j, i)
  <2> DEFINE q == Spliced(rest, i, <<v>>)
             next == [old EXCEPT ![p] = q]
  <2>1. /\ DOMAIN next = VersionId \cup {Null} /\ next[p] = q
        /\ next = [x \in VersionId \cup {Null} |-> next[x]]
        /\ \A x \in VersionId \cup {Null} : x # p => next[x] = old[x]
    BY <1>2, <1>4
  <2>2. /\ Lists(new)[p] = InsertSibling(Without(Lists(vs)[p], v), v, place)
        /\ \A x \in DOMAIN vs \cup {Null} : x # p => Lists(new)[x] = Lists(vs)[x]
    <3>1. p \in DOMAIN Lists(vs) /\ DOMAIN Lists(vs) = DOMAIN vs \cup {Null}
      BY <1>4 DEF Lists
    <3> QED
      BY <3>1 DEF p
  <2>3. Lists(new)[p] = q
    BY <1>5, <1>9, <1>11, <1>14, <2>2
  <2> HIDE DEF q, next
  <2>4. \A x \in VersionId \cup {Null} : now[x] = next[x]
    BY ZenonT(60), <1>1, <1>2, <1>3, <1>4, <2>1, <2>2, <2>3
  <2>5. now = next
    BY <1>3, <2>1, <2>4
  <2>6. q = Forest!Spliced(Forest!RemoveAt(list, j), i, <<list[j]>>)
    BY <1>7, Zenon DEF q, rest, Spliced, Forest!Spliced, RemoveAt, Forest!RemoveAt
  <2> QED
    BY <2>5, <2>6, Zenon DEF Forest!Move, next, list
<1> QED
  BY <1>2, <1>4, <1>7, <1>13, <1>15 DEF p, old, now, list

ForestChange ==
  /\ Wide(versions) # Wide(versions')
  /\ \E p \in VersionId \cup {Null} : \E i \in 0..Len(Wide(versions)[p]) :
       \/ Forest!Insert(Wide(versions), Wide(versions'), p, i)
       \/ /\ i < Len(Wide(versions)[p])
          /\ \E j \in DOMAIN Wide(versions)[p] :
               Forest!Move(Wide(versions), Wide(versions'), p, j, i)

LEMMA ForestChanges ==
  ASSUME RouteInv, [Next]_vars
  PROVE  ForestChange \/ Wide(versions') = Wide(versions)
<1>1. PICK n \in 0..MaxVersion : Numbered(versions, n)
  BY DEF RouteInv
<1>2. /\ Laid(versions) /\ DOMAIN versions = 1..n /\ n \in Nat /\ NewVersion = n + 1
      /\ n + 1 \notin DOMAIN versions \cup {Null}
  BY <1>1, NumberedCardinality DEF Numbered, NewVersion
<1>3. ASSUME Stays(versions', versions) PROVE Wide(versions') = Wide(versions)
  BY <1>2, <1>3, StaysLaid, WideSame DEF Stays
<1>4. ASSUME NEW m \in Nat, m > 0, n + m \in 0..MaxVersion, NEW vs, Numbered(vs, n + m),
             NEW p \in DOMAIN versions \cup {Null}, NEW k,
             Grafted(vs, versions, p, k, Run(n, m)),
             versions' = vs \/ Stays(versions', vs)
      PROVE  ForestChange
  <2>1. Wide(versions') = Wide(vs)
    <3>1. Stays(versions', vs) => Lists(versions') = Lists(vs) /\ DOMAIN versions' = DOMAIN vs
      BY <1>4, StaysLaid DEF Numbered, Stays
    <3> QED
      BY <1>4, <3>1, WideSame
  <2>2. /\ p \in VersionId \cup {Null} /\ k \in 0..Len(Wide(versions)[p])
        /\ Forest!Insert(Wide(versions), Wide(vs), p, k) /\ Wide(vs) # Wide(versions)
    BY <1>1, <1>2, <1>4, GraftInserts
  <2> QED
    BY <2>1, <2>2 DEF ForestChange
<1>5. CASE Lifecycle
  BY <1>3, <1>5, LifecycleStep
<1>6. CASE TreeChange
  <2>1. CASE CreateVersion \/ InsertVersion \/ CreateChildVersion
    <3>1. PICK place : /\ Placed(versions, place)
                       /\ \/ versions' = Added(versions, n + 1, place)
                          \/ Stays(versions', Added(versions, n + 1, place))
      BY <1>2, <2>1, AddsOne
    <3>2. PICK k : Grafted(Added(versions, n + 1, place), versions, place.parent, k, Run(n, 1))
      BY <1>2, <3>1, AddedGrafts
    <3>3. Numbered(Added(versions, n + 1, place), n + 1)
      BY <1>1, <3>1, AddedGrown
    <3>4. place.parent \in DOMAIN versions \cup {Null}
      BY <3>1 DEF Placed
    <3>5. n + 1 \in 0..MaxVersion /\ 1 \in Nat /\ 1 > 0
      BY <1>2, <2>1, LedgerAssumption
         DEF CreateVersion, InsertVersion, CreateChildVersion, VersionId
    <3> QED
      BY <1>4, <3>1, <3>2, <3>3, <3>4, <3>5
  <2>2. ASSUME NEW v \in DOMAIN versions, ReorderVersions(v)
        PROVE  ForestChange \/ Wide(versions') = Wide(versions)
    <3>1. DOMAIN versions' = DOMAIN versions /\ RouteInv'
      BY <2>2, ReorderStep
    <3>2. PICK place :
            /\ place.parent = versions[v].parent
            /\ Named(place) \subseteq ToSet(Without(Siblings(versions, place.parent), v))
            /\ Lists(versions') = [Lists(versions) EXCEPT
                                     ![place.parent] = InsertSibling(Without(@, v), v, place)]
      BY <2>2, ReorderStep
    <3>3. Numbered(versions', n)
      BY <1>1, <3>1 DEF RouteInv, Numbered
    <3>4. \E p \in VersionId \cup {Null} : \E i \in 0..Len(Wide(versions)[p]) :
            i < Len(Wide(versions)[p])
            /\ \E j \in DOMAIN Wide(versions)[p] :
                 Forest!Move(Wide(versions), Wide(versions'), p, j, i)
      BY <1>1, <3>2, <3>3, PlaceMoves
    <3> QED
      BY <3>4 DEF ForestChange
  <2>3. ASSUME NEW m \in 1..MaxBatch, NewVersion + m - 1 \in VersionId,
               NEW parent \in Neighbour, NEW after \in Neighbour, NEW before \in Neighbour,
               BatchCreateVersions(m, parent, after, before)
        PROVE  ForestChange
    <3>1. PICK plan : /\ Good(plan, m, n)
                      /\ versions' = plan.vs \/ Stays(versions', plan.vs)
      BY <1>1, <2>3, BatchStep
    <3>2. m \in Nat /\ m > 0 /\ n + m \in 0..MaxVersion
      BY <1>2, <2>3, LedgerAssumption DEF VersionId
    <3>3. PICK k : Grafted(plan.vs, versions, plan.parent, k, Run(n, m))
      BY <3>1, <3>2 DEF Good
    <3>4. Numbered(plan.vs, n + m) /\ plan.parent \in DOMAIN versions \cup {Null}
      BY <3>1 DEF Good, Neighbour
    <3> QED
      BY <1>4, <3>1, <3>2, <3>3, <3>4
  <2> QED
    BY <1>6, <2>1, <2>2, <2>3 DEF TreeChange
<1>7. CASE Work \/ UNCHANGED vars
  <2>1. versions' = versions
    BY <1>7 DEF Work, vars, CreateTodo, CloseTodo, DeferNewWork, DeferTodo, ActivateDeferred,
               ResolveDeferred, DeferAgain
  <2> QED
    BY <2>1
<1> QED
  BY <1>5, <1>6, <1>7 DEF Next

LEMMA ForestInitially == Init => Forest!Init
<1> SUFFICES ASSUME Init PROVE Forest!Init
  OBVIOUS
<1>1. Null \notin VersionId
  BY LedgerAssumption DEF VersionId
<1>2. ASSUME NEW top \in {<<>>} \cup {<<v>> : v \in VersionId},
             Wide(versions) = [p \in VersionId \cup {Null} |-> IF p = Null THEN top ELSE <<>>]
      PROVE  Forest!Init
  BY <1>2, Zenon DEF Forest!Init, Forest!Parent, Wide
<1>3. CASE versions = <<>>
  <2>1. DOMAIN versions = {} /\ Siblings(versions, Null) = <<>>
    BY <1>3, LaidEmpty
  <2>2. Wide(versions) = [p \in VersionId \cup {Null} |-> IF p = Null THEN <<>> ELSE <<>>]
    BY <2>1 DEF Wide
  <2> QED
    BY <1>2, <2>2
<1>4. CASE versions # <<>>
  <2>1. versions = <<First>> /\ MaxVersion > 0
    BY <1>4, FirstCreated DEF Init
  <2>2. /\ DOMAIN versions = {1} /\ 1 \in VersionId
        /\ Siblings(versions, Null) = <<1>> /\ Siblings(versions, 1) = <<>>
    BY <2>1, LaidFirst, LedgerAssumption DEF VersionId
  <2>3. Wide(versions) = [p \in VersionId \cup {Null} |-> IF p = Null THEN <<1>> ELSE <<>>]
    BY <1>1, <2>2 DEF Wide
  <2>4. <<1>> \in {<<v>> : v \in VersionId}
    BY <2>2
  <2> QED
    BY <1>2, <2>3, <2>4
<1> QED
  BY <1>3, <1>4

\* Every command is, to the structure of the route, the insertion of a run of new
\* versions in one place or the move of one version within its siblings, however
\* large the route: no rewriting of the pointers carries another version along,
\* gives it another parent or loses it.
THEOREM RouteImplementsForest == Spec => ImplementsForest
<1> DEFINE Mapped == [p \in VersionId \cup {Null} |->
                        IF p \in DOMAIN versions \cup {Null} THEN Siblings(versions, p) ELSE <<>>]
<1>1. RouteInv /\ [Next]_vars => [Forest!Next]_Mapped
  <2> SUFFICES ASSUME RouteInv, [Next]_vars PROVE [Forest!Next]_Mapped
    OBVIOUS
  <2>1. ForestChange \/ Wide(versions') = Wide(versions)
    BY ForestChanges
  <2>2. Mapped = Wide(versions) /\ Mapped' = Wide(versions')
    BY Zenon DEF Wide
  <2>3. ForestChange => Forest!Next
    BY Zenon DEF ForestChange, Wide, Forest!Next, Forest!Parent
  <2> QED
    BY <2>1, <2>2, <2>3
<1> QED
  BY <1>1, RouteAlways, ForestInitially, PTL DEF Spec, ImplementsForest, Forest!Spec

-----------------------------------------------------------------------------
(* The advice of the read side.                                            *)

\* The least of some numbers is one of them, and no greater than any.
LEMMA MinMember ==
  ASSUME NEW S, S \subseteq Nat, S # {}
  PROVE  Min(S) \in S /\ \A y \in S : Min(S) <= y
<1> DEFINE T == {n \in Nat : (\E x \in S : x <= n) => \E x \in S : \A y \in S : x <= y}
<1>1. 0 \in T
  OBVIOUS
<1>2. ASSUME NEW n \in Nat, n \in T PROVE n + 1 \in T
  <2>1. SUFFICES ASSUME NEW x \in S, x <= n + 1, \A y \in S : ~(y <= n)
                 PROVE  \E z \in S : \A y \in S : z <= y
    BY <1>2
  <2>2. \A y \in S : x <= y
    BY <2>1
  <2> QED
    BY <2>2
<1> HIDE DEF T
<1>3. \A n \in Nat : n \in T
  BY <1>1, <1>2, NatSetInduction
<1>4. PICK x \in S : x \in Nat
  OBVIOUS
<1>5. \E z \in S : \A y \in S : z <= y
  <2>1. x \in T /\ x <= x
    BY <1>3, <1>4
  <2> QED
    BY <1>4, <2>1 DEF T
<1> QED
  BY <1>5 DEF Min

\* The close gate of the advisers is that of the command, whatever the audit.
LEMMA CloseGatesAgree ==
  ASSUME NEW v, NEW audit
  PROVE  /\ CloseAllowed(v, audit) => CloseGate(v)
         /\ audit # Null /\ (\A item \in audit : TakesOver(v, item))
              => (CloseGate(v) => CloseAllowed(v, audit))
<1> DEFINE a == versions[v].state # "complete"
           b == OpenTodos(v) # {}
           c == Misrouted(v) # {}
           d == audit = Null
           e == audit # Null /\ \E item \in audit : ~TakesOver(v, item)
<1>1. CloseGate(v) <=> ~a /\ ~b /\ ~c
  BY DEF CloseGate, OpenTodos, Misrouted
<1>2. CloseBlockers(v, audit)
        = {code \in DOMAIN [not_complete |-> a, open_todos |-> b, misrouted |-> c,
                            missing_audit |-> d, residual |-> e] :
             [not_complete |-> a, open_todos |-> b, misrouted |-> c,
              missing_audit |-> d, residual |-> e][code]}
  BY DEF CloseBlockers
<1>3. e <=> d = FALSE /\ ~(\A item \in audit : TakesOver(v, item))
  OBVIOUS
<1> HIDE DEF a, b, c, d, e
<1>4. CloseBlockers(v, audit) = {} <=> ~a /\ ~b /\ ~c /\ ~d /\ ~e
  BY <1>2
<1> QED
  BY <1>1, <1>3, <1>4 DEF CloseAllowed, d

\* Open work that an advice may name.
LEMMA WorkReady ==
  ASSUME LedgerInv
  PROVE  /\ \A v : OpenTodos(v) # {} =>
              Min(OpenTodos(v)) \in DOMAIN todos /\ ActiveTodo(Min(OpenTodos(v)))
         /\ \A v : Due(v) # {} =>
              Min(Due(v)) \in DOMAIN deferredItems /\ ActiveDeferred(Min(Due(v)))
         /\ \A v : Misrouted(v) # {} =>
              Min(Misrouted(v)) \in DOMAIN deferredItems /\ ActiveDeferred(Min(Misrouted(v)))
<1>1. DOMAIN todos \subseteq Nat /\ DOMAIN deferredItems \subseteq Nat
  BY DEF LedgerInv, LineageInv, IsSeq
<1>2. ASSUME NEW t \in DOMAIN todos, todos[t].status = "wait" PROVE ActiveTodo(t)
  <2>1. TodoOK(t)
    BY <1>2 DEF LedgerInv, LineageInv
  <2>2. workItems[todos[t].workItem].activeRecord = <<"todo", t>>
    BY <1>2, <2>1 DEF TodoOK, Active
  <2> QED
    BY <1>2, <2>2 DEF ActiveTodo
<1>3. ASSUME NEW d \in DOMAIN deferredItems, deferredItems[d].status = "pending" PROVE ActiveDeferred(d)
  <2>1. DeferredOK(d)
    BY <1>3 DEF LedgerInv, LineageInv
  <2>2. workItems[deferredItems[d].workItem] = [status |-> "active", activeRecord |-> <<"deferred", d>>]
    BY <1>3, <2>1 DEF DeferredOK, Active
  <2> QED
    BY <1>3, <2>2 DEF ActiveDeferred
<1>4. \A v : OpenTodos(v) # {} => Min(OpenTodos(v)) \in OpenTodos(v)
  BY <1>1, MinMember DEF OpenTodos
<1>5. \A v : Due(v) # {} => Min(Due(v)) \in Due(v)
  BY <1>1, MinMember DEF Due
<1>6. \A v : Misrouted(v) # {} => Min(Misrouted(v)) \in Misrouted(v)
  BY <1>1, MinMember DEF Misrouted
<1>7. \A v : OpenTodos(v) # {} => ActiveTodo(Min(OpenTodos(v))) /\ Min(OpenTodos(v)) \in DOMAIN todos
  BY <1>2, <1>4 DEF OpenTodos
<1>8. \A v : Due(v) # {} => ActiveDeferred(Min(Due(v))) /\ Min(Due(v)) \in DOMAIN deferredItems
  BY <1>3, <1>5 DEF Due
<1>9. \A v : Misrouted(v) # {} => /\ ActiveDeferred(Min(Misrouted(v)))
                               /\ Min(Misrouted(v)) \in DOMAIN deferredItems
  BY <1>3, <1>6 DEF Misrouted
<1> QED
  BY <1>7, <1>8, <1>9

\* A version may be created on an empty route, and behind the end of the top
\* level even if that is closed.
LEMMA CreationReady ==
  ASSUME LedgerInv,
         \/ currentVersionId = Null
         \/ /\ currentVersionId \in DOMAIN versions
            /\ versions[currentVersionId].next = Null /\ versions[currentVersionId].parent = Null
  PROVE  Readable(versions) /\ ToCreate(versions) # {}
<1> DEFINE top == Siblings(versions, Null)
           tail == LastOf(top)
<1>1. Laid(versions) /\ Null \notin DOMAIN versions
  BY DEF LedgerInv, RouteInv, Numbered, Laid, Records
<1>2. /\ ListOver(top, DOMAIN versions) /\ ToSet(top) = Children(versions, Null)
      /\ Drawn(versions, Lists(versions)) /\ Null \in DOMAIN Lists(versions) /\ Lists(versions)[Null] = top
  BY <1>1, SiblingsOver DEF Laid, LaidAlong, Lists
<1>3. AllowsAppend(versions, tail)
  <2>1. CASE currentVersionId = Null
    <3>1. DOMAIN versions = {}
      BY <1>1, <2>1 DEF LedgerInv, RouteInv, CurrentIsMarked
    <3>2. tail = Null
      BY <1>2, <3>1, LastOfMember DEF Children
    <3> QED
      BY <3>2 DEF AllowsAppend, Mutable
  <2>2. CASE /\ currentVersionId \in DOMAIN versions
             /\ versions[currentVersionId].next = Null /\ versions[currentVersionId].parent = Null
    <3>1. currentVersionId \in ToSet(top)
      BY <1>2, <2>2 DEF Children
    <3>2. PICK i \in DOMAIN top : top[i] = currentVersionId
      BY <3>1 DEF ToSet
    <3>3. top \in Seq(DOMAIN versions) /\ DOMAIN top = 1..Len(top) /\ Len(top) \in Nat
      BY <1>2 DEF ListOver
    <3>4. versions[top[i]].next = IF i = Len(top) THEN Null ELSE top[i + 1]
      BY <1>2, <3>2 DEF Drawn
    <3>5. i = Len(top)
      <4>1. i # Len(top) => i + 1 \in 1..Len(top) /\ top[i + 1] = Null
        BY <2>2, <3>2, <3>3, <3>4
      <4> QED
        BY <1>1, <3>3, <4>1
    <3>6. tail = currentVersionId
      BY <3>2, <3>3, <3>5 DEF LastOf, Last
    <3> QED
      BY <2>2, <3>6 DEF AllowsAppend
  <2> QED
    BY <2>1, <2>2
<1> QED
  BY <1>1, <1>3, LaidReadable DEF ToCreate, At

\* Advice that asks for no command is always ready.
LEMMA PausesReady ==
  ASSUME NEW id
  PROVE  /\ Ready(Advise("none", id)) /\ Ready(Advise("noop", id))
         /\ Ready(Advise("blocked", id)) /\ Ready(Advise("manual_review", id))
         /\ Ready(Advise("review_context", id)) /\ Ready(Advise("review_residual_audit", id))
         /\ Ready(Nothing)
<1>1. ASSUME NEW action \in Pauses, NEW x PROVE Ready(Advise(action, x))
  BY <1>1 DEF Ready, Advise
<1> QED
  BY <1>1 DEF Pauses, Nothing

\* When an advice about a version is ready.
LEMMA VersionReady ==
  ASSUME NEW v \in DOMAIN versions
  PROVE  /\ versions[v].state = "wait" => Ready(Advise("prepare_version", v))
         /\ StartGate(v) => Ready(Advise("start_version", v))
         /\ Ready(Advise("set_current_version", v))
         /\ versions[v].state = "running" =>
              Ready(Advise("decision_required", v)) /\ Ready(Advise("mark_version_complete", v))
         /\ CloseGate(v) => Ready(Advise("close_version", v))
         /\ /\ StartGate(v) /\ currentVersionId # Null
            /\ versions[currentVersionId].state = "close" /\ versions[currentVersionId].next = v
            => Ready(Advise("advance_to_version", v))
BY DEF Ready, Advise, AdvanceGate

\* The first step of a transition is ready.
LEMMA TransitionReady ==
  ASSUME NEW v \in DOMAIN versions
  PROVE  Ready(Transition(v))
<1> DEFINE first == IF v = currentVersionId THEN "start_version" ELSE "set_current_version"
<1>1. CASE versions[v].state = "running"
  BY <1>1, PausesReady, VersionReady DEF Transition
<1>2. CASE versions[v].state # "running" /\ StartGate(v)
  BY <1>2, VersionReady DEF Transition
<1>3. CASE versions[v].state # "running" /\ ~StartGate(v)
  BY <1>3, PausesReady DEF Transition
<1> QED
  BY <1>1, <1>2, <1>3

\* The records named by an advice about open work.
LEMMA WorkAdviceReady ==
  ASSUME LedgerInv, NEW v
  PROVE  /\ OpenTodos(v) # {} => /\ Ready(Advise("work_todo", Min(OpenTodos(v))))
                                 /\ Ready(Advise("close_todo", Min(OpenTodos(v))))
         /\ Due(v) # {} => Ready(Advise("review_deferred", Min(Due(v))))
         /\ Misrouted(v) # {} => Ready(Advise("review_deferred", Min(Misrouted(v))))
<1>1. ASSUME NEW t \in DOMAIN todos, ActiveTodo(t)
      PROVE  Ready(Advise("work_todo", t)) /\ Ready(Advise("close_todo", t))
  BY <1>1 DEF Ready, Advise
<1>2. ASSUME NEW d \in DOMAIN deferredItems, ActiveDeferred(d)
      PROVE  Ready(Advise("review_deferred", d))
  BY <1>2 DEF Ready, Advise
<1> QED
  BY <1>1, <1>2, WorkReady

\* On the way to a running v every step is ready, if its last one is.
LEMMA TowardsReady ==
  ASSUME LedgerInv, NEW v \in DOMAIN versions,
         NEW action,
         StartGate(v) => Ready(Advise(action, v))
  PROVE  Ready(Towards(v, action))
<1>1. CASE versions[v].state = "wait"
  BY <1>1, VersionReady DEF Towards
<1>2. CASE versions[v].state = "ready"
  <2>1. CASE Due(v) # {}
    BY <1>2, <2>1, WorkAdviceReady DEF Towards
  <2>2. CASE Due(v) = {}
    BY <1>2, <2>2 DEF Towards, StartGate
  <2> QED
    BY <2>1, <2>2
<1>3. CASE versions[v].state \notin {"wait", "ready"}
  BY <1>3, PausesReady DEF Towards
<1> QED
  BY <1>1, <1>2, <1>3

\* What get_next_action says is ready, whatever the current version's state.
LEMMA NextActionReady ==
  ASSUME LedgerInv, NEW aborted \in BOOLEAN
  PROVE  Ready(NextAction(aborted))
<1> DEFINE c == currentVersionId
<1>1. CASE c = Null
  <2>1. Ready(Advise("create_version", Null))
    BY <1>1, CreationReady DEF Ready, Advise
  <2> QED
    BY <1>1, <2>1 DEF NextAction
<1>2. CASE c # Null
  <2>1. c \in DOMAIN versions
    BY <1>2 DEF LedgerInv, RouteInv
  <2>2. Ready(AtWork(c))
    <3>1. CASE OpenTodos(c) # {}
      BY <3>1, WorkAdviceReady DEF AtWork
    <3>2. CASE OpenTodos(c) = {} /\ versions[c].state = "running"
      BY <2>1, <3>2, PausesReady, VersionReady DEF AtWork
    <3>3. CASE OpenTodos(c) = {} /\ versions[c].state # "running"
      BY <3>3, PausesReady, WorkAdviceReady DEF AtWork
    <3> QED
      BY <3>1, <3>2, <3>3
  <2>3. Ready(Ahead(c))
    <3>1. CASE versions[c].state # "close"
      <4>1. StartGate(c) => Ready(Advise("start_version", c))
        BY <2>1, VersionReady
      <4>2. Ready(Towards(c, "start_version"))
        BY <2>1, <4>1, TowardsReady
      <4> QED
        BY <3>1, <4>2 DEF Ahead
    <3>2. CASE versions[c].state = "close" /\ versions[c].next # Null
      <4> DEFINE next == versions[c].next
      <4>1. next \in DOMAIN versions
        <5>1. Laid(versions)
          BY DEF LedgerInv, RouteInv, Numbered
        <5>2. Linked(versions, c)
          BY <2>1, <5>1, LaidLinked
        <5> QED
          BY <3>2, <5>2 DEF Linked, Children
      <4>2. StartGate(next) => Ready(Advise("advance_to_version", next))
        BY <1>2, <3>2, <4>1, VersionReady
      <4>3. Ready(Towards(next, "advance_to_version"))
        BY <4>1, <4>2, TowardsReady
      <4> QED
        BY <3>2, <4>3 DEF Ahead
    <3>3. CASE versions[c].state = "close" /\ versions[c].next = Null
      <4>1. CASE versions[c].parent = Null
        <5>1. Ready(Advise("create_version", c))
          BY <2>1, <3>3, <4>1, CreationReady DEF Ready, Advise
        <5> QED
          BY <3>3, <4>1, <5>1 DEF Ahead
      <4>2. CASE versions[c].parent # Null
        BY <3>3, <4>2, PausesReady DEF Ahead
      <4> QED
        BY <4>1, <4>2
    <3> QED
      BY <3>1, <3>2, <3>3
  <2>4. Cardinality(Running) = 1 => Ready(Advise("set_current_version", Min(Running)))
    <3>1. SUFFICES ASSUME Cardinality(Running) = 1
                   PROVE  Ready(Advise("set_current_version", Min(Running)))
      OBVIOUS
    <3>2. Running \subseteq Nat /\ Running \subseteq DOMAIN versions
      BY DEF Running, LedgerInv, RouteInv, Numbered
    <3>3. Running # {}
      BY <3>1, FS_EmptySet
    <3>4. Min(Running) \in Running
      BY <3>2, <3>3, MinMember
    <3> QED
      BY <3>2, <3>4, VersionReady
  <2> HIDE DEF c
  <2> QED
    BY <1>2, <2>2, <2>3, <2>4, PausesReady DEF NextAction, c
<1> QED
  BY <1>1, <1>2

\* The step the guide to v names is ready.
LEMMA GuideReady ==
  ASSUME LedgerInv, NEW v \in DOMAIN versions, NEW audit
  PROVE  Ready(Guide(v, audit))
<1> DEFINE c == currentVersionId
<1>1. c \in DOMAIN versions
  BY DEF LedgerInv, RouteInv, CurrentIsMarked
<1>2. c # Null
  BY <1>1 DEF LedgerInv, RouteInv, Numbered, Laid, Records
<1>3. ASSUME NEW u \in DOMAIN versions
      PROVE  /\ StartGate(u) => Ready(Advise("start_version", u))
             /\ CloseAllowed(u, audit) => Ready(Advise("close_version", u))
             /\ versions[u].state = "wait" => Ready(Advise("prepare_version", u))
             /\ Ready(Advise("noop", u)) /\ Ready(Advise("blocked", u))
             /\ Ready(Advise("manual_review", u))
             /\ Ready(Transition(u))
  <2>1. CloseAllowed(u, audit) => CloseGate(u)
    BY CloseGatesAgree
  <2> QED
    BY <2>1, VersionReady, PausesReady, TransitionReady
<1>4. Ready(ToCurrent(v, audit))
  BY <1>3 DEF ToCurrent
<1>5. Ready(ToAnother(c, v, audit))
  <2>1. CASE \/ versions[v].state \in {"suspend", "complete", "close"}
             \/ versions[c].state # "close"
             \/ versions[v].state = "wait"
    BY <1>1, <1>3, <2>1 DEF ToAnother
  <2>2. CASE versions[c].state = "close" /\ StartGate(v) /\ versions[c].next = v
    <3>1. Ready(Advise("advance_to_version", v))
      BY <1>2, <2>2, VersionReady
    <3> QED
      BY <1>3, <2>2, <3>1 DEF ToAnother
  <2>3. CASE /\ versions[v].state \notin {"suspend", "complete", "close", "wait"}
             /\ versions[c].state = "close" /\ ~(StartGate(v) /\ versions[c].next = v)
    <3>1. ToAnother(c, v, audit) = Transition(v)
      BY <2>3 DEF ToAnother
    <3> QED
      BY <1>3, <3>1
  <2> QED
    BY <2>1, <2>2, <2>3
<1> QED
  BY <1>4, <1>5 DEF Guide

\* Both close-out projections name a step that is ready.
LEMMA CloseoutReady ==
  ASSUME LedgerInv, NEW v \in DOMAIN versions, NEW audit
  PROVE  Ready(Plan(v, audit)) /\ Ready(CloseoutAction(v, audit))
<1>1. /\ Ready(Nothing) /\ Ready(Advise("noop", v))
      /\ Ready(Advise("review_residual_audit", v))
      /\ OpenTodos(v) # {} => Ready(Advise("close_todo", Min(OpenTodos(v))))
      /\ versions[v].state = "running" => Ready(Advise("mark_version_complete", v))
      /\ CloseAllowed(v, audit) => Ready(Advise("close_version", v))
  BY CloseGatesAgree, VersionReady, PausesReady, WorkAdviceReady
<1> QED
  BY <1>1 DEF Plan, CloseoutAction

LEMMA AdviceFollows == LedgerInv => AdviceIsAccepted
BY NextActionReady, GuideReady, CloseoutReady DEF AdviceIsAccepted

\* Whatever an adviser names, on a route of any size and whatever audit has
\* been declared, the guard of the command that carries it out holds in the
\* state the advice was read from: the projections of the read side and the
\* domain services never disagree.
THEOREM AdviceAccepted == Spec => []AdviceIsAccepted
  BY AdviceFollows, LedgerAlways, PTL

-----------------------------------------------------------------------------
(* The operations shown as legal.                                          *)

\* A transition pauses when it has nothing to do, or is blocked.
LEMMA TransitionPauses ==
  ASSUME NEW v
  PROVE  Transition(v)[1] \in {"noop", "blocked"} <=> Transition(v)[1] \in Pauses
BY DEF Transition, Advise, Pauses

\* The operations shown as legal, one by one.
LEMMA LegalOf ==
  ASSUME NEW v, NEW audit
  PROVE  LET legal == Legal(v, audit)
             state == versions[v].state
         IN
         /\ "prepare_version" \in legal <=> state = "wait"
         /\ "transition_version" \in legal <=> Transition(v)[1] \notin {"noop", "blocked"}
         /\ "mark_version_complete" \in legal <=> state = "running"
         /\ "close_version" \in legal <=> CloseAllowed(v, audit)
         /\ "shutdown_version" \in legal <=> state # "close"
         /\ "reopen_version" \in legal <=> state \in {"close", "suspend"}
         /\ "set_current_version" \in legal <=> ~versions[v].isCurrent
<1> DEFINE a == versions[v].state = "wait"
           b == Transition(v)[1] \notin {"noop", "blocked"}
           c == versions[v].state = "running"
           d == CloseAllowed(v, audit)
           e == versions[v].state # "close"
           f == versions[v].state \in {"close", "suspend"}
           g == ~versions[v].isCurrent
<1>1. Legal(v, audit)
        = {action \in DOMAIN [prepare_version |-> a, transition_version |-> b,
                              mark_version_complete |-> c, close_version |-> d,
                              shutdown_version |-> e, reopen_version |-> f,
                              set_current_version |-> g] :
             [prepare_version |-> a, transition_version |-> b,
              mark_version_complete |-> c, close_version |-> d,
              shutdown_version |-> e, reopen_version |-> f,
              set_current_version |-> g][action]}
  BY DEF Legal
<1> HIDE DEF a, b, c, d, e, f, g
<1>2. /\ "prepare_version" \in Legal(v, audit) <=> a
      /\ "transition_version" \in Legal(v, audit) <=> b
      /\ "mark_version_complete" \in Legal(v, audit) <=> c
      /\ "close_version" \in Legal(v, audit) <=> d
      /\ "shutdown_version" \in Legal(v, audit) <=> e
      /\ "reopen_version" \in Legal(v, audit) <=> f
      /\ "set_current_version" \in Legal(v, audit) <=> g
  BY <1>1
<1> QED
  BY <1>2 DEF a, b, c, d, e, f, g

LEMMA LegalFollows ==
  ASSUME LedgerInv, NEW v \in DOMAIN versions, NEW audit \in Audits
  PROVE  LegalIsReady(v, audit)
<1>1. /\ Ready(Advise("prepare_version", v)) <=> versions[v].state = "wait"
      /\ Ready(Advise("mark_version_complete", v)) <=> versions[v].state = "running"
      /\ Ready(Advise("shutdown_version", v)) <=> versions[v].state # "close"
      /\ Ready(Advise("reopen_version", v)) <=> versions[v].state \in {"close", "suspend"}
      /\ Ready(Advise("close_version", v)) <=> CloseGate(v)
  BY DEF Ready, Advise, Pauses
<1>2. ASSUME NEW action \in {"prepare_version", "mark_version_complete", "shutdown_version",
                             "reopen_version"}
      PROVE  action \in Legal(v, audit) <=> Ready(Advise(action, v))
  BY <1>1, LegalOf
<1>3. "transition_version" \in Legal(v, audit) <=> Transition(v)[1] \notin Pauses
  BY LegalOf, TransitionPauses
<1>4. /\ "close_version" \in Legal(v, audit) => Ready(Advise("close_version", v))
      /\ audit # Null /\ (\A item \in audit : TakesOver(v, item)) =>
           ("close_version" \in Legal(v, audit) <=> Ready(Advise("close_version", v)))
  BY <1>1, LegalOf, CloseGatesAgree
<1>5. "set_current_version" \in Legal(v, audit) <=> v # currentVersionId
  <2>1. "set_current_version" \in Legal(v, audit) <=> ~versions[v].isCurrent
    BY LegalOf
  <2>2. versions[v].isCurrent <=> v = currentVersionId
    BY DEF LedgerInv, RouteInv, CurrentIsMarked
  <2> QED
    BY <2>1, <2>2
<1>6. Ready(Transition(v))
  BY TransitionReady
<1> QED
  BY <1>2, <1>3, <1>4, <1>5, <1>6 DEF LegalIsReady

\* The operations shown as legal on a version are those whose command's guard
\* holds, no more and no fewer: of a transition the first step, of a close one
\* whose residual audit names only records that take the work over.
THEOREM LegalReady ==
  Spec => [](\A v \in DOMAIN versions, audit \in Audits : LegalIsReady(v, audit))
<1>1. LedgerInv => \A v \in DOMAIN versions, audit \in Audits : LegalIsReady(v, audit)
  BY LegalFollows
<1> QED
  BY <1>1, LedgerAlways, PTL

\* What Ready demands is nothing a command would do without.
LEMMA OnlyReadyExecutes ==
  ASSUME NEW a \in Commands, Execute(a)
  PROVE  Ready(a)
<1> DEFINE action == a[1]
           id == a[2]
<1>1. \/ action = "create_version"
      \/ action = "close_todo" /\ id \in DOMAIN todos
      \/ action = "review_deferred" /\ id \in DOMAIN deferredItems
      \/ /\ id \in DOMAIN versions
         /\ action \in {"prepare_version", "start_version", "mark_version_complete",
                        "close_version", "shutdown_version", "reopen_version",
                        "set_current_version", "advance_to_version"}
  BY DEF Commands
<1>2. CASE action = "create_version"
  BY <1>2 DEF Execute, Ready, CreateVersion
<1>3. CASE action = "close_todo" /\ id \in DOMAIN todos
  BY <1>3 DEF Execute, Ready, CloseTodo
<1>4. CASE action = "review_deferred" /\ id \in DOMAIN deferredItems
  BY <1>4 DEF Execute, Ready, Review, ActivateDeferred, ResolveDeferred, DeferAgain
<1>5. CASE /\ id \in DOMAIN versions
           /\ action \in {"prepare_version", "start_version", "mark_version_complete",
                          "close_version", "shutdown_version", "reopen_version",
                          "set_current_version", "advance_to_version"}
  BY <1>5 DEF Execute, Ready, PrepareVersion, StartVersion, MarkVersionComplete,
     CloseVersion, ShutdownVersion, ReopenVersion, AdvanceToVersion, AdvanceGate
<1> QED
  BY <1>1, <1>2, <1>3, <1>4, <1>5

\* No command goes through on a version that was not shown as legal there, with
\* an audit in order where one is asked for: together with LegalReady, which says
\* that what is shown is accepted, the legal operations are exact.
THEOREM OnlyLegalExecutes ==
  Spec => [][\A v \in DOMAIN versions, audit \in Audits :
    LET legal == Legal(v, audit) IN
    /\ \A action \in {"prepare_version", "mark_version_complete", "shutdown_version",
                      "reopen_version"} :
         Execute(Advise(action, v)) => action \in legal
    /\ Execute(Advise("close_version", v)) /\ audit # Null
         /\ (\A item \in audit : TakesOver(v, item)) => "close_version" \in legal
    /\ Execute(Advise("start_version", v)) \/ Execute(Advise("advance_to_version", v))
         => "transition_version" \in legal]_vars
<1> DEFINE Exact(v, audit) ==
      LET legal == Legal(v, audit) IN
      /\ \A action \in {"prepare_version", "mark_version_complete", "shutdown_version",
                        "reopen_version"} :
           Execute(Advise(action, v)) => action \in legal
      /\ Execute(Advise("close_version", v)) /\ audit # Null
           /\ (\A item \in audit : TakesOver(v, item)) => "close_version" \in legal
      /\ Execute(Advise("start_version", v)) \/ Execute(Advise("advance_to_version", v))
           => "transition_version" \in legal
<1>1. ASSUME NEW v \in DOMAIN versions, NEW audit \in Audits PROVE Exact(v, audit)
  <2>1. /\ Ready(Advise("prepare_version", v)) <=> versions[v].state = "wait"
        /\ Ready(Advise("mark_version_complete", v)) <=> versions[v].state = "running"
        /\ Ready(Advise("shutdown_version", v)) <=> versions[v].state # "close"
        /\ Ready(Advise("reopen_version", v)) <=> versions[v].state \in {"close", "suspend"}
        /\ Ready(Advise("close_version", v)) <=> CloseGate(v)
        /\ Ready(Advise("start_version", v)) => StartGate(v)
        /\ Ready(Advise("advance_to_version", v)) => StartGate(v)
    BY DEF Ready, Advise, Pauses, AdvanceGate
  <2>2. ASSUME NEW action \in {"prepare_version", "mark_version_complete", "shutdown_version",
                               "reopen_version", "close_version", "start_version",
                               "advance_to_version"},
               Execute(Advise(action, v))
        PROVE  Ready(Advise(action, v))
    <3>1. Advise(action, v) \in Commands
      BY DEF Commands, Advise
    <3> QED
      BY <2>2, <3>1, OnlyReadyExecutes
  <2>3. \A action \in {"prepare_version", "mark_version_complete", "shutdown_version",
                       "reopen_version"} :
          Execute(Advise(action, v)) => action \in Legal(v, audit)
    BY <2>1, <2>2, LegalOf
  <2>4. Execute(Advise("close_version", v)) => CloseGate(v)
    BY <2>1, <2>2
  <2>5. Execute(Advise("start_version", v)) \/ Execute(Advise("advance_to_version", v))
          => StartGate(v)
    BY <2>1, <2>2
  <2>6. StartGate(v) => Transition(v)[1] \notin {"noop", "blocked"}
    BY DEF StartGate, Transition, Advise
  <2>7. "transition_version" \in Legal(v, audit) <=> Transition(v)[1] \notin {"noop", "blocked"}
    BY LegalOf
  <2>8. "close_version" \in Legal(v, audit) <=> CloseAllowed(v, audit)
    BY LegalOf
  <2>9. audit # Null /\ (\A item \in audit : TakesOver(v, item))
          => (CloseGate(v) => CloseAllowed(v, audit))
    BY CloseGatesAgree
  <2> QED
    BY <2>3, <2>4, <2>5, <2>6, <2>7, <2>8, <2>9
<1> DEFINE AllExact == \A v \in DOMAIN versions, audit \in Audits : Exact(v, audit)
<1>2. [AllExact]_vars
  BY <1>1
<1>3. [][AllExact]_vars
  BY <1>2, PTL
<1> QED
  BY <1>3, PTL DEF Spec

-----------------------------------------------------------------------------
(* Advice that is followed comes to an end.                                *)

\* The first difference decides.
LEMMA BelowAt ==
  ASSUME NEW a1, NEW a2, NEW a3, NEW a4, NEW a5, NEW a6,
         NEW b1, NEW b2, NEW b3, NEW b4, NEW b5, NEW b6
  PROVE  LET old == <<a1, a2, a3, a4, a5, a6>>
             new == <<b1, b2, b3, b4, b5, b6>>
         IN
         /\ b1 # a1 /\ b1 \subseteq a1 => Below(new, old)
         /\ b1 = a1 /\ b2 # a2 /\ b2 \subseteq a2 => Below(new, old)
         /\ b1 = a1 /\ b2 = a2 /\ b3 # a3 /\ b3 \subseteq a3 => Below(new, old)
         /\ b1 = a1 /\ b2 = a2 /\ b3 = a3 /\ b4 # a4 /\ b4 \subseteq a4 => Below(new, old)
         /\ b1 = a1 /\ b2 = a2 /\ b3 = a3 /\ b4 = a4 /\ b5 # a5 /\ b5 \subseteq a5 => Below(new, old)
         /\ b1 = a1 /\ b2 = a2 /\ b3 = a3 /\ b4 = a4 /\ b5 = a5 /\ b6 # a6 /\ b6 \subseteq a6
              => Below(new, old)
<1> DEFINE old == <<a1, a2, a3, a4, a5, a6>>
           new == <<b1, b2, b3, b4, b5, b6>>
<1>1. /\ DOMAIN old = 1..6
      /\ old[1] = a1 /\ old[2] = a2 /\ old[3] = a3 /\ old[4] = a4 /\ old[5] = a5 /\ old[6] = a6
      /\ new[1] = b1 /\ new[2] = b2 /\ new[3] = b3 /\ new[4] = b4 /\ new[5] = b5 /\ new[6] = b6
  OBVIOUS
<1>2. /\ \A j \in 1..(1 - 1) : FALSE
      /\ \A j \in 1..(2 - 1) : j = 1
      /\ \A j \in 1..(3 - 1) : j = 1 \/ j = 2
      /\ \A j \in 1..(4 - 1) : j = 1 \/ j = 2 \/ j = 3
      /\ \A j \in 1..(5 - 1) : j = 1 \/ j = 2 \/ j = 3 \/ j = 4
      /\ \A j \in 1..(6 - 1) : j = 1 \/ j = 2 \/ j = 3 \/ j = 4 \/ j = 5
      /\ 1 \in 1..6 /\ 2 \in 1..6 /\ 3 \in 1..6 /\ 4 \in 1..6 /\ 5 \in 1..6 /\ 6 \in 1..6
  OBVIOUS
<1> HIDE DEF old, new
<1> DEFINE Drops(i) == /\ new[i] # old[i] /\ new[i] \subseteq old[i]
                    /\ \A j \in 1..(i - 1) : new[j] = old[j]
<1>3. \A i \in 1..6 : Drops(i) => Below(new, old)
  BY <1>1 DEF Below
<1>4. b1 # a1 /\ b1 \subseteq a1 => Drops(1)
  BY <1>1, <1>2
<1>5. b1 = a1 /\ b2 # a2 /\ b2 \subseteq a2 => Drops(2)
  BY <1>1, <1>2
<1>6. b1 = a1 /\ b2 = a2 /\ b3 # a3 /\ b3 \subseteq a3 => Drops(3)
  BY <1>1, <1>2
<1>7. b1 = a1 /\ b2 = a2 /\ b3 = a3 /\ b4 # a4 /\ b4 \subseteq a4 => Drops(4)
  BY <1>1, <1>2
<1>8. b1 = a1 /\ b2 = a2 /\ b3 = a3 /\ b4 = a4 /\ b5 # a5 /\ b5 \subseteq a5 => Drops(5)
  BY <1>1, <1>2
<1>9. b1 = a1 /\ b2 = a2 /\ b3 = a3 /\ b4 = a4 /\ b5 = a5 /\ b6 # a6 /\ b6 \subseteq a6 => Drops(6)
  BY <1>1, <1>2
<1> HIDE DEF Drops
<1>10. Below(new, old) = Below(<<b1, b2, b3, b4, b5, b6>>, <<a1, a2, a3, a4, a5, a6>>)
  BY DEF new, old
<1> QED
  BY <1>2, <1>3, <1>4, <1>5, <1>6, <1>7, <1>8, <1>9, <1>10

\* The states of a version that is not interrupted, in their order.
LEMMA LaterFacts ==
  /\ Later["wait"] = {"ready", "running", "complete", "close"}
  /\ Later["ready"] = {"running", "complete", "close"}
  /\ Later["running"] = {"complete", "close"}
  /\ Later["complete"] = {"close"}
  /\ Later["close"] = {}
  /\ Later["suspend"] = {}
  /\ \A s \in VersionState : /\ Later[s] \subseteq VersionState
                             /\ s \notin Later[s]
                             /\ \A next \in Later[s] : Later[next] \subseteq Later[s]
<1>1. /\ Later["wait"] = {"ready", "running", "complete", "close"}
      /\ Later["ready"] = {"running", "complete", "close"}
      /\ Later["running"] = {"complete", "close"}
      /\ Later["complete"] = {"close"}
      /\ Later["close"] = {}
      /\ Later["suspend"] = {}
  BY DEF Later
<1> QED
  BY <1>1 DEF VersionState

\* A version that goes on in its life leaves less of it to come.
LEMMA StateAdvances ==
  ASSUME RouteInv, DOMAIN versions' = DOMAIN versions, NEW v \in DOMAIN versions,
         versions'[v].state \in Later[versions[v].state],
         \A u \in DOMAIN versions : u # v => versions'[u].state = versions[u].state
  PROVE  StatesToCome' # StatesToCome /\ StatesToCome' \subseteq StatesToCome
<1> DEFINE new == versions'[v].state
           old == versions[v].state
           D == DOMAIN versions
<1>1. \A u \in D : versions[u].state \in VersionState
  BY DEF RouteInv, Marks
<1>2. new \in Later[old] /\ old \in VersionState
  BY <1>1
<1>3. new \in VersionState /\ new \notin Later[new] /\ Later[new] \subseteq Later[old]
  BY <1>2, LaterFacts
<1>4. /\ StatesToCome = {pair \in D \X VersionState : pair[2] \in Later[versions[pair[1]].state]}
      /\ StatesToCome' = {pair \in D \X VersionState : pair[2] \in Later[versions'[pair[1]].state]}
  BY DEF StatesToCome, Later, VersionState
<1>5. \A u \in D : Later[versions'[u].state] \subseteq Later[versions[u].state]
  BY <1>3
<1>6. <<v, new>> \in StatesToCome /\ <<v, new>> \notin StatesToCome'
  BY <1>2, <1>3, <1>4
<1> QED
  BY <1>4, <1>5, <1>6

\* What a step leaves alone, of the parts of Remaining.
LEMMA RemainingAlone ==
  /\ DOMAIN versions' = DOMAIN versions => Uncreated' = Uncreated
  /\ deferredItems' = deferredItems => Pending' = Pending
  /\ todos' = todos => Waiting' = Waiting
  /\ LedgerInv /\ deferredItems' = deferredItems /\ DOMAIN versions' = DOMAIN versions
       /\ (\A v \in DOMAIN versions : versions'[v].order = versions[v].order)
     => Postponements' = Postponements
<1>1. ASSUME DOMAIN versions' = DOMAIN versions PROVE Uncreated' = Uncreated
  BY <1>1 DEF Uncreated, VersionId
<1>2. ASSUME deferredItems' = deferredItems PROVE Pending' = Pending
  BY <1>2 DEF Pending
<1>3. ASSUME todos' = todos PROVE Waiting' = Waiting
  BY <1>3 DEF Waiting
<1>4. ASSUME LedgerInv, deferredItems' = deferredItems, DOMAIN versions' = DOMAIN versions,
             \A v \in DOMAIN versions : versions'[v].order = versions[v].order
      PROVE  Postponements' = Postponements
  <2>1. \A d \in Pending : deferredItems[d].target \in DOMAIN versions
    BY <1>4 DEF Pending, LedgerInv, RecordInv, DeferredAt
  <2>2. Postponements' = {pair \in Pending \X (DOMAIN versions) :
                            versions'[pair[2]].order > versions'[deferredItems[pair[1]].target].order}
    BY <1>2, <1>4 DEF Postponements, Downstream
  <2> QED
    BY <1>4, <2>1, <2>2 DEF Postponements, Downstream
<1> QED
  BY <1>1, <1>2, <1>3, <1>4

\* A command of the route that leaves the tree and the work alone descends as
\* soon as a version goes on in its life.
LEMMA LifeDescends ==
  ASSUME LedgerInv, UNCHANGED work, Stays(versions', versions),
         NEW v \in DOMAIN versions,
         versions'[v].state \in Later[versions[v].state],
         \A u \in DOMAIN versions : u # v => versions'[u].state = versions[u].state
  PROVE  Below(Remaining', Remaining)
<1>1. /\ DOMAIN versions' = DOMAIN versions
      /\ \A u \in DOMAIN versions : versions'[u].order = versions[u].order
  BY DEF Stays, Alike
<1>2. todos' = todos /\ deferredItems' = deferredItems
  BY DEF work
<1>3. /\ Uncreated' = Uncreated /\ Pending' = Pending
      /\ Postponements' = Postponements /\ Waiting' = Waiting
  BY <1>1, <1>2, RemainingAlone
<1>4. StatesToCome' # StatesToCome /\ StatesToCome' \subseteq StatesToCome
  BY <1>1, StateAdvances DEF LedgerInv
<1> QED
  BY <1>3, <1>4, BelowAt, Zenon DEF Remaining

\* The life of a version: prepared, started, complete.
LEMMA BecomeDescends ==
  ASSUME LedgerInv, NEW v \in DOMAIN versions,
         \/ PrepareVersion(v) \/ StartVersion(v) \/ MarkVersionComplete(v) \/ CloseVersion(v)
  PROVE  Below(Remaining', Remaining)
<1>1. PICK s \in VersionState : Become(v, s) /\ s \in Later[versions[v].state]
  <2>1. ASSUME PrepareVersion(v)
        PROVE  Become(v, "ready") /\ "ready" \in Later[versions[v].state]
    BY <2>1, LaterFacts DEF PrepareVersion
  <2>2. ASSUME StartVersion(v)
        PROVE  Become(v, "running") /\ "running" \in Later[versions[v].state]
    BY <2>2, LaterFacts DEF StartVersion, StartGate
  <2>3. ASSUME MarkVersionComplete(v)
        PROVE  Become(v, "complete") /\ "complete" \in Later[versions[v].state]
    BY <2>3, LaterFacts DEF MarkVersionComplete
  <2>4. ASSUME CloseVersion(v)
        PROVE  Become(v, "close") /\ "close" \in Later[versions[v].state]
    BY <2>4, LaterFacts DEF CloseVersion, CloseGate
  <2> QED
    BY <2>1, <2>2, <2>3, <2>4 DEF VersionState
<1>2. UNCHANGED work
  BY DEF PrepareVersion, StartVersion, MarkVersionComplete, CloseVersion, work
<1>3. versions' = InOneState(versions, v, s)
  BY <1>1 DEF Become, InOneState
<1>4. Restated(versions', versions, v, s)
  BY <1>3, StateSet DEF LedgerInv, RouteInv, Numbered, Laid
<1> QED
  BY <1>1, <1>2, <1>4, LifeDescends DEF Restated

\* The step to a successor starts it, and leaves the closed version closed.
LEMMA AdvanceDescends ==
  ASSUME LedgerInv, NEW v \in DOMAIN versions, AdvanceToVersion(v)
  PROVE  Below(Remaining', Remaining)
<1> DEFINE mid == Switched(versions, v, LeftState)
<1>1. Records(versions)
  BY DEF LedgerInv, RouteInv, Numbered, Laid
<1>2. Passed(mid, versions, v, LeftState)
  BY <1>1, SwitchedFacts
<1>3. versions' = InOneState(mid, v, "running")
  BY DEF AdvanceToVersion, InOneState
<1>4. Stays(mid, versions) /\ DOMAIN mid = DOMAIN versions /\ Records(mid)
  BY <1>1, <1>2 DEF Passed, Stays, Alike, Records
<1> HIDE DEF mid
<1>5. Restated(versions', mid, v, "running")
  BY <1>3, <1>4, StateSet
<1>6. Stays(versions', versions)
  BY <1>4, <1>5 DEF Restated, Stays, Alike
<1>7. versions'[v].state = "running" /\ versions[v].state = "ready" /\ UNCHANGED work
  BY <1>5 DEF Restated, AdvanceToVersion, AdvanceGate, StartGate, work
<1>8. LeftState = versions[currentVersionId].state
  BY DEF LeftState, AdvanceToVersion, AdvanceGate
<1>9. \A u \in DOMAIN versions : u # v => versions'[u].state = versions[u].state
  BY <1>2, <1>4, <1>5, <1>8 DEF Restated, Passed
<1> QED
  BY <1>6, <1>7, <1>9, LaterFacts, LifeDescends

\* To make the running version current costs nothing else when the version that
\* is left was not at work.
LEMMA SwitchDescends ==
  ASSUME LedgerInv, NEW v \in DOMAIN versions, SetCurrentVersion(v),
         currentVersionId # Null, versions[currentVersionId].state # "running",
         versions[v].state = "running"
  PROVE  Below(Remaining', Remaining)
<1>1. Records(versions) /\ currentVersionId \in DOMAIN versions /\ Null \notin DOMAIN versions
  BY DEF LedgerInv, RouteInv, Numbered, Laid, Records
<1>2. Passed(versions', versions, v, LeftState) /\ currentVersionId' = v
  BY <1>1, SwitchedFacts DEF SetCurrentVersion
<1>3. LeftState = versions[currentVersionId].state
  BY DEF LeftState
<1>4. /\ DOMAIN versions' = DOMAIN versions
      /\ \A u \in DOMAIN versions : versions'[u].order = versions[u].order
  BY <1>2 DEF Passed, Stays, Alike
<1>5. \A u \in DOMAIN versions : versions'[u].state = versions[u].state
  BY <1>2, <1>3 DEF Passed
<1>6. todos' = todos /\ deferredItems' = deferredItems
  BY DEF SetCurrentVersion, work
<1>7. /\ Uncreated' = Uncreated /\ Pending' = Pending
      /\ Postponements' = Postponements /\ Waiting' = Waiting
  BY <1>4, <1>6, RemainingAlone
<1>8. StatesToCome' = StatesToCome
  BY <1>4, <1>5 DEF StatesToCome, VersionState, Later
<1>9. LeftIdle' # LeftIdle /\ LeftIdle' \subseteq LeftIdle
  <2>1. LeftIdle = {currentVersionId}
    BY DEF LeftIdle
  <2>2. LeftIdle' = {}
    BY <1>2, <1>5 DEF LeftIdle
  <2> QED
    BY <2>1, <2>2
<1> QED
  BY <1>7, <1>8, <1>9, BelowAt, Zenon DEF Remaining

\* A version that is created is one less to create.
LEMMA CreationDescends ==
  ASSUME LedgerInv, CreateVersion
  PROVE  Below(Remaining', Remaining)
<1>1. PICK n \in 0..MaxVersion : Numbered(versions, n)
  BY DEF LedgerInv, RouteInv
<1>2. NewVersion = n + 1 /\ NewVersion \in VersionId /\ NewVersion \notin DOMAIN versions
  BY <1>1, NumberedCardinality DEF NewVersion, CreateVersion
<1>3. DOMAIN versions' = DOMAIN versions \cup {NewVersion}
  <2>1. PICK place : /\ Placed(versions, place)
                     /\ \/ versions' = Added(versions, NewVersion, place)
                        \/ Stays(versions', Added(versions, NewVersion, place))
    BY AddsOne DEF LedgerInv
  <2>2. Numbered(Added(versions, n + 1, place), n + 1)
    BY <1>1, <2>1, AddedGrown
  <2>3. DOMAIN Added(versions, NewVersion, place) = 1..(n + 1) /\ DOMAIN versions = 1..n
    BY <1>1, <1>2, <2>2 DEF Numbered
  <2>4. DOMAIN versions' = 1..(n + 1)
    BY <2>1, <2>3 DEF Stays
  <2> QED
    BY <1>2, <2>3, <2>4
<1>4. Uncreated' # Uncreated /\ Uncreated' \subseteq Uncreated
  BY <1>2, <1>3 DEF Uncreated, VersionId
<1> QED
  BY <1>4, BelowAt, Zenon DEF Remaining

\* The records of open work that a command takes.
LEMMA WorkRecords ==
  ASSUME LedgerInv
  PROVE  /\ IsSeq(todos) /\ IsSeq(deferredItems)
         /\ \A t \in DOMAIN todos : TodoOK(t)
         /\ \A d \in DOMAIN deferredItems : DeferredOK(d) /\ DeferredAt(d)
BY DEF LedgerInv, LineageInv, RecordInv

\* A todo that is closed no longer waits, and nothing else changes.
LEMMA CloseTodoDescends ==
  ASSUME LedgerInv, NEW t \in DOMAIN todos, CloseTodo(t)
  PROVE  Below(Remaining', Remaining)
<1>1. /\ todos' = [todos EXCEPT ![t].status = "closed"] /\ todos[t].status = "wait"
      /\ versions' = versions /\ currentVersionId' = currentVersionId
      /\ deferredItems' = deferredItems
  BY DEF CloseTodo, ActiveTodo
<1>2. /\ DOMAIN todos' = DOMAIN todos
      /\ todos'[t].status = "closed"
      /\ \A u \in DOMAIN todos : u # t => todos'[u] = todos[u]
  <2>1. TodoOK(t)
    BY WorkRecords
  <2>2. [todos[t] EXCEPT !.status = "closed"].status = "closed"
    BY <2>1 DEF TodoOK
  <2> DEFINE r == [todos[t] EXCEPT !.status = "closed"]
  <2>3. todos' = [todos EXCEPT ![t] = r]
    BY <1>1
  <2> HIDE DEF r
  <2>4. DOMAIN todos' = DOMAIN todos /\ todos'[t] = r
        /\ \A u \in DOMAIN todos : u # t => todos'[u] = todos[u]
    BY <2>3, WorkRecords, ExceptFacts
  <2> QED
    BY <2>2, <2>4 DEF r
<1>3. Waiting' # Waiting /\ Waiting' \subseteq Waiting
  BY <1>1, <1>2 DEF Waiting
<1>4. Uncreated' = Uncreated /\ Pending' = Pending /\ Postponements' = Postponements
  BY <1>1, RemainingAlone
<1> QED
  BY <1>3, <1>4, BelowAt, Zenon DEF Remaining

\* A deferral that is activated or resolved is no longer pending.
LEMMA ReviewedDescends ==
  ASSUME LedgerInv, NEW d \in DOMAIN deferredItems,
         ActivateDeferred(d) \/ ResolveDeferred(d)
  PROVE  Below(Remaining', Remaining)
<1> DEFINE x == deferredItems[d]
<1>1. versions' = versions /\ x.status = "pending"
  BY DEF ActivateDeferred, ResolveDeferred, ActiveDeferred
<1>2. PICK r : deferredItems' = [deferredItems EXCEPT ![d] = r] /\ r.status # "pending"
  <2>1. DeferredOK(d)
    BY WorkRecords
  <2> DEFINE activated == [[x EXCEPT !.status = "activated"] EXCEPT !.activatedTodo = Len(todos) + 1]
             resolved == [x EXCEPT !.status = "resolved"]
  <2>2. activated.status = "activated" /\ resolved.status = "resolved"
    BY <2>1 DEF DeferredOK
  <2>3. ASSUME ActivateDeferred(d) PROVE deferredItems' = [deferredItems EXCEPT ![d] = activated]
    BY <2>3, Zenon DEF ActivateDeferred
  <2>4. ASSUME ResolveDeferred(d) PROVE deferredItems' = [deferredItems EXCEPT ![d] = resolved]
    BY <2>4, Zenon DEF ResolveDeferred
  <2> HIDE DEF activated, resolved
  <2> QED
    BY <2>2, <2>3, <2>4
<1>3. /\ DOMAIN deferredItems' = DOMAIN deferredItems /\ deferredItems'[d] = r
      /\ \A e \in DOMAIN deferredItems : e # d => deferredItems'[e] = deferredItems[e]
  BY <1>2, WorkRecords, ExceptFacts
<1>4. Pending' # Pending /\ Pending' \subseteq Pending
  BY <1>1, <1>2, <1>3 DEF Pending
<1>5. Uncreated' = Uncreated
  BY <1>1, RemainingAlone
<1> QED
  BY <1>4, <1>5, BelowAt, Zenon DEF Remaining

\* A deferral that is put off can be put off less far from then on.
LEMMA PutOffDescends ==
  ASSUME LedgerInv, NEW d \in DOMAIN deferredItems, NEW v \in DOMAIN versions, DeferAgain(d, v)
  PROVE  Below(Remaining', Remaining)
<1> DEFINE r == [deferredItems[d] EXCEPT !.target = v]
           place(u) == versions[u].order
<1>1. /\ versions' = versions /\ deferredItems[d].status = "pending"
      /\ deferredItems' = [deferredItems EXCEPT ![d] = r]
      /\ place(v) > place(deferredItems[d].target)
  BY DEF DeferAgain, ActiveDeferred, Downstream
<1>2. r.status = "pending" /\ r.target = v
  BY <1>1, WorkRecords DEF DeferredOK
<1> HIDE DEF r
<1>3. /\ DOMAIN deferredItems' = DOMAIN deferredItems /\ deferredItems'[d] = r
      /\ \A e \in DOMAIN deferredItems : e # d => deferredItems'[e] = deferredItems[e]
  BY <1>1, WorkRecords, ExceptFacts
<1>4. Pending' = Pending /\ d \in Pending
  BY <1>1, <1>2, <1>3 DEF Pending
<1>5. \A u \in DOMAIN versions : place(u) \in Int
  BY DEF LedgerInv, RouteInv, Numbered, Laid, Records, VersionRecord
<1>6. \A e \in Pending : deferredItems[e].target \in DOMAIN versions
  BY WorkRecords DEF Pending, DeferredAt
<1> DEFINE room == {pair \in Pending \X (DOMAIN versions) :
                       place(pair[2]) > place(deferredItems[pair[1]].target)}
           left == {pair \in Pending \X (DOMAIN versions) :
                       place(pair[2]) > place(deferredItems'[pair[1]].target)}
<1>7. Postponements = room /\ Postponements' = left
  BY <1>1, <1>4 DEF Postponements, Downstream
<1>8. \A e \in Pending : e = d \/ deferredItems'[e] = deferredItems[e]
  BY <1>3 DEF Pending
<1>9. deferredItems'[d].target = v /\ d \in Pending
  BY <1>2, <1>3, <1>4
<1> HIDE DEF place
<1>10. <<d, v>> \in room /\ <<d, v>> \notin left
  BY <1>1, <1>5, <1>9
<1>11. left \subseteq room
  <2> SUFFICES ASSUME NEW e \in Pending, NEW u \in DOMAIN versions,
                      place(u) > place(deferredItems'[e].target)
               PROVE  place(u) > place(deferredItems[e].target)
    OBVIOUS
  <2> QED
    BY <1>1, <1>5, <1>6, <1>8, <1>9
<1>12. Postponements' # Postponements /\ Postponements' \subseteq Postponements
  BY <1>7, <1>10, <1>11
<1>13. Uncreated' = Uncreated
  BY <1>1, RemainingAlone
<1> QED
  BY <1>4, <1>12, <1>13, BelowAt, Zenon DEF Remaining

\* What get_next_action never names, and when it names another version as the
\* one to be made current.
LEMMA AdviceNames ==
  ASSUME LedgerInv
  PROVE  LET advice == NextAction(FALSE) IN
         /\ advice[1] \notin {"close_version", "shutdown_version", "reopen_version"}
         /\ advice[1] = "set_current_version" =>
              /\ advice[2] \in DOMAIN versions /\ versions[advice[2]].state = "running"
              /\ currentVersionId # Null /\ versions[currentVersionId].state # "running"
<1> DEFINE c == currentVersionId
           Other(action) == action \notin {"close_version", "shutdown_version", "reopen_version",
                                           "set_current_version"}
<1>1. Other(AtWork(c)[1])
  BY Zenon DEF AtWork, Advise, Nothing
<1>2. Other(Ahead(c)[1])
  BY Zenon DEF Ahead, Towards, Advise, Nothing
<1>3. CASE c # Null /\ versions[c].state \notin {"running", "complete"} /\ Cardinality(Running) = 1
  <2>1. Running \subseteq Nat /\ Running \subseteq DOMAIN versions
    BY DEF Running, LedgerInv, RouteInv, Numbered
  <2>2. Running # {}
    BY <1>3, FS_EmptySet
  <2>3. Min(Running) \in Running
    BY <2>1, <2>2, MinMember
  <2>4. Min(Running) \in DOMAIN versions /\ versions[Min(Running)].state = "running"
    BY <2>3 DEF Running
  <2>5. NextAction(FALSE) = Advise("set_current_version", Min(Running))
    BY <1>3 DEF NextAction
  <2> DEFINE least == Min(Running)
  <2>6. NextAction(FALSE)[1] = "set_current_version" /\ NextAction(FALSE)[2] = least
    <3> HIDE DEF least
    <3>1. Advise("set_current_version", least)[1] = "set_current_version"
          /\ Advise("set_current_version", least)[2] = least
      BY DEF Advise
    <3>2. NextAction(FALSE) = Advise("set_current_version", least)
      BY <2>5 DEF least
    <3> QED
      BY <3>1, <3>2
  <2> HIDE DEF c
  <2> QED
    BY <1>3, <2>4, <2>6 DEF c
<1>4. CASE ~(c # Null /\ versions[c].state \notin {"running", "complete"} /\ Cardinality(Running) = 1)
  <2>1. \/ NextAction(FALSE) = Advise("create_version", Null)
        \/ NextAction(FALSE) = AtWork(c)
        \/ NextAction(FALSE) = Nothing
        \/ NextAction(FALSE) = Ahead(c)
    BY <1>4 DEF NextAction
  <2>2. Advise("create_version", Null)[1] = "create_version" /\ Nothing[1] = "none"
    BY DEF Advise, Nothing
  <2> QED
    BY <1>1, <1>2, <2>1, <2>2
<1> QED
  BY <1>3, <1>4

\* The command that carries out an advice, and the guard its advice is ready by.
LEMMA ExecuteIs ==
  ASSUME NEW advice, Execute(advice), Ready(advice)
  PROVE  LET id == advice[2] IN
         \/ advice[1] = "create_version" /\ CreateVersion
         \/ id \in DOMAIN todos /\ CloseTodo(id)
         \/ /\ id \in DOMAIN deferredItems
            /\ \/ ActivateDeferred(id) \/ ResolveDeferred(id)
               \/ \E v \in DOMAIN versions : DeferAgain(id, v)
         \/ /\ id \in DOMAIN versions
            /\ \/ PrepareVersion(id) \/ StartVersion(id) \/ MarkVersionComplete(id)
               \/ AdvanceToVersion(id)
               \/ advice[1] = "close_version" /\ CloseVersion(id)
               \/ advice[1] = "shutdown_version" /\ ShutdownVersion(id)
               \/ advice[1] = "reopen_version" /\ ReopenVersion(id)
               \/ advice[1] = "set_current_version" /\ SetCurrentVersion(id)
<1> DEFINE action == advice[1]
           id == advice[2]
<1>1. CASE action = "create_version"
  BY <1>1 DEF Execute
<1>2. CASE action \in {"work_todo", "close_todo"}
  <2>1. id \in DOMAIN todos
    BY <1>2 DEF Ready, Pauses
  <2> QED
    BY <1>2, <2>1 DEF Execute
<1>3. CASE action = "review_deferred"
  <2>1. id \in DOMAIN deferredItems
    BY <1>3 DEF Ready, Pauses
  <2> QED
    BY <1>3, <2>1 DEF Execute, Review
<1>4. CASE action \in {"decision_required", "mark_version_complete", "prepare_version", "start_version",
                       "set_current_version", "advance_to_version", "close_version",
                       "shutdown_version", "reopen_version"}
  <2>1. id \in DOMAIN versions
    BY <1>4 DEF Ready, Pauses
  <2> QED
    BY <1>4, <2>1 DEF Execute
<1> QED
  BY <1>1, <1>2, <1>3, <1>4 DEF Execute

LEMMA AdviceStep ==
  ASSUME LedgerInv, Execute(NextAction(FALSE))
  PROVE  Below(Remaining', Remaining)
<1> DEFINE advice == NextAction(FALSE)
           id == advice[2]
<1>1. Ready(advice)
  BY NextActionReady
<1>2. advice[1] \notin {"close_version", "shutdown_version", "reopen_version"}
  BY AdviceNames
<1> HIDE DEF advice
<1>3. Execute(advice)
  BY DEF advice
<1>4. \/ CreateVersion
      \/ id \in DOMAIN todos /\ CloseTodo(id)
      \/ id \in DOMAIN deferredItems /\ (ActivateDeferred(id) \/ ResolveDeferred(id))
      \/ id \in DOMAIN deferredItems /\ \E v \in DOMAIN versions : DeferAgain(id, v)
      \/ /\ id \in DOMAIN versions
         /\ PrepareVersion(id) \/ StartVersion(id) \/ MarkVersionComplete(id)
      \/ id \in DOMAIN versions /\ AdvanceToVersion(id)
      \/ advice[1] = "set_current_version" /\ SetCurrentVersion(id)
  BY <1>1, <1>2, <1>3, ExecuteIs, Zenon
<1>5. CASE CreateVersion
  BY <1>5, CreationDescends
<1>6. CASE id \in DOMAIN todos /\ CloseTodo(id)
  BY <1>6, CloseTodoDescends
<1>7. CASE id \in DOMAIN deferredItems /\ (ActivateDeferred(id) \/ ResolveDeferred(id))
  BY <1>7, ReviewedDescends
<1>8. CASE id \in DOMAIN deferredItems /\ \E v \in DOMAIN versions : DeferAgain(id, v)
  BY <1>8, PutOffDescends
<1>9. CASE /\ id \in DOMAIN versions
           /\ PrepareVersion(id) \/ StartVersion(id) \/ MarkVersionComplete(id)
  BY <1>9, BecomeDescends
<1>10. CASE id \in DOMAIN versions /\ AdvanceToVersion(id)
  BY <1>10, AdvanceDescends
<1>11. CASE advice[1] = "set_current_version" /\ SetCurrentVersion(id)
  <2>1. /\ id \in DOMAIN versions /\ versions[id].state = "running"
        /\ currentVersionId # Null /\ versions[currentVersionId].state # "running"
    BY <1>11, AdviceNames DEF advice
  <2> QED
    BY <1>11, <2>1, SwitchDescends
<1> QED
  BY <1>4, <1>5, <1>6, <1>7, <1>8, <1>9, <1>10, <1>11

LEMMA DescentFollows == []LedgerInv => AdviceDescends
<1>1. LedgerInv => [Execute(NextAction(FALSE)) => Below(Remaining', Remaining)]_vars
  BY AdviceStep
<1> QED
  BY <1>1, PTL DEF AdviceDescends

\* Whoever does what get_next_action says leaves less to do with every command,
\* on a route of any size and with any amount of work: the advice never leads in
\* a circle.
THEOREM AdviceLowers == Spec => AdviceDescends
BY DescentFollows, LedgerAlways, PTL

\* A shrinking chain of finite sets comes to rest.
LEMMA ChainRests ==
  ASSUME NEW g, \A k \in Nat : IsFiniteSet(g[k]) /\ g[k + 1] \subseteq g[k]
  PROVE  \E m \in Nat : \A k \in Nat : k >= m => g[k] = g[m]
<1> DEFINE C == {Cardinality(g[k]) : k \in Nat}
<1>1. \A k \in Nat : Cardinality(g[k]) \in Nat
  BY FS_CardinalityType
<1>2. C \subseteq Nat /\ C # {}
  <2>1. Cardinality(g[0]) \in C
    OBVIOUS
  <2> QED
    BY <1>1, <2>1
<1>3. Min(C) \in C /\ \A c \in C : Min(C) <= c
  <2> HIDE DEF C
  <2> QED
    BY <1>2, MinMember
<1>4. PICK m \in Nat : \A k \in Nat : Cardinality(g[m]) <= Cardinality(g[k])
  <2>1. PICK m \in Nat : Min(C) = Cardinality(g[m])
    BY <1>3
  <2>2. \A k \in Nat : Cardinality(g[k]) \in C
    OBVIOUS
  <2> QED
    BY <1>3, <2>1, <2>2
<1> HIDE DEF C
<1>5. ASSUME NEW j \in Nat PROVE g[m + j] \subseteq g[m]
  <2> DEFINE S == {i \in Nat : g[m + i] \subseteq g[m]}
  <2>1. 0 \in S
    OBVIOUS
  <2>2. ASSUME NEW i \in Nat, i \in S PROVE i + 1 \in S
    <3>1. m + i \in Nat /\ m + (i + 1) = (m + i) + 1
      OBVIOUS
    <3>2. g[(m + i) + 1] \subseteq g[m + i]
      BY <3>1
    <3> QED
      BY <2>2, <3>1, <3>2
  <2> HIDE DEF S
  <2>3. j \in S
    BY <2>1, <2>2, NatSetInduction
  <2> QED
    BY <2>3 DEF S
<1>6. ASSUME NEW k \in Nat, k >= m PROVE g[k] = g[m]
  <2>1. k - m \in Nat /\ m + (k - m) = k
    BY <1>6
  <2>2. g[k] \subseteq g[m]
    BY <1>5, <2>1
  <2>3. Cardinality(g[k]) <= Cardinality(g[m]) /\ Cardinality(g[m]) <= Cardinality(g[k])
    BY <1>4, <2>2, FS_Subset
  <2>4. Cardinality(g[k]) = Cardinality(g[m])
    BY <1>1, <2>3
  <2> QED
    BY <2>2, <2>4, FS_Subset
<1> QED
  BY <1>6

\* Tuples of finite sets, of which each is the one before it or below it.
Descent(f, n) ==
  /\ n \in Nat
  /\ \A k \in Nat : /\ DOMAIN f[k] = 1..n
                    /\ \A i \in 1..n : IsFiniteSet(f[k][i])
                    /\ f[k + 1] = f[k] \/ Below(f[k + 1], f[k])

\* The first i sets no longer change after the m-th tuple.
AtRest(f, i, m) == \A k \in Nat, j \in 1..i : k >= m => f[k][j] = f[m][j]

LEMMA RestSpreads ==
  ASSUME NEW f, NEW n, Descent(f, n), NEW i \in Nat, i + 1 \in 1..n,
         NEW m \in Nat, AtRest(f, i, m)
  PROVE  \E more \in Nat : AtRest(f, i + 1, more)
<1> DEFINE g == [k \in Nat |-> f[m + k][i + 1]]
<1>1. \A k \in Nat : g[k] = f[m + k][i + 1] /\ m + k \in Nat /\ m + (k + 1) = (m + k) + 1
  OBVIOUS
<1> HIDE DEF g
<1>2. ASSUME NEW k \in Nat PROVE f[(m + k) + 1][i + 1] \subseteq f[m + k][i + 1]
  <2> DEFINE old == f[m + k]
             new == f[(m + k) + 1]
  <2>1. m + k \in Nat /\ (m + k) + 1 \in Nat /\ m + k >= m /\ (m + k) + 1 >= m
    OBVIOUS
  <2>2. \A j \in 1..i : new[j] = old[j]
    BY <2>1 DEF AtRest
  <2>3. DOMAIN old = 1..n /\ (new = old \/ Below(new, old))
    BY <2>1 DEF Descent
  <2> HIDE DEF old, new
  <2>4. CASE Below(new, old)
    <3>1. PICK l \in 1..n : /\ new[l] # old[l] /\ new[l] \subseteq old[l]
                            /\ \A j \in 1..(l - 1) : new[j] = old[j]
      BY <2>3, <2>4 DEF Below
    <3>2. l \notin 1..i /\ n \in Nat
      BY <2>2, <3>1 DEF Descent
    <3>3. l = i + 1 \/ i + 1 \in 1..(l - 1)
      BY <3>2
    <3> QED
      BY <3>1, <3>3 DEF old, new
  <2>5. CASE new = old
    BY <2>5 DEF old, new
  <2> QED
    BY <2>3, <2>4, <2>5
<1>3. \A k \in Nat : IsFiniteSet(g[k]) /\ g[k + 1] \subseteq g[k]
  <2> SUFFICES ASSUME NEW k \in Nat PROVE IsFiniteSet(g[k]) /\ g[k + 1] \subseteq g[k]
    OBVIOUS
  <2>1. k + 1 \in Nat /\ m + k \in Nat
    OBVIOUS
  <2>2. g[k] = f[m + k][i + 1] /\ g[k + 1] = f[(m + k) + 1][i + 1]
    BY <1>1, <2>1
  <2>3. IsFiniteSet(f[m + k][i + 1])
    BY <2>1 DEF Descent
  <2> QED
    BY <1>2, <2>2, <2>3
<1>4. PICK r \in Nat : \A k \in Nat : k >= r => g[k] = g[r]
  BY <1>3, ChainRests
<1> DEFINE more == m + r
<1>5. ASSUME NEW k \in Nat, NEW j \in 1..(i + 1), k >= more PROVE f[k][j] = f[more][j]
  <2>1. CASE j = i + 1
    <3>1. k - m \in Nat /\ k - m >= r /\ m + (k - m) = k
      BY <1>5
    <3>2. g[k - m] = f[k][i + 1] /\ g[r] = f[m + r][i + 1]
      BY <1>1, <3>1
    <3> QED
      BY <1>4, <2>1, <3>1, <3>2
  <2>2. CASE j # i + 1
    <3>1. j \in 1..i /\ k >= m /\ more \in Nat /\ more >= m
      BY <1>5, <2>2
    <3> QED
      BY <3>1 DEF AtRest
  <2> QED
    BY <2>1, <2>2
<1>6. more \in Nat
  OBVIOUS
<1> HIDE DEF more
<1>7. AtRest(f, i + 1, more)
  BY <1>5 DEF AtRest
<1> QED
  BY <1>6, <1>7

\* A quantity that only descends comes to rest, whatever happens in between: of
\* the tuples that follow each other from some one on none is below the one
\* before.
THEOREM DescentSettles ==
  ASSUME NEW f, NEW n, Descent(f, n)
  PROVE  \E m \in Nat : \A k \in Nat : k >= m => ~Below(f[k + 1], f[k])
<1> DEFINE S == {i \in Nat : i <= n => \E m \in Nat : AtRest(f, i, m)}
<1>1. n \in Nat
  BY DEF Descent
<1>2. 0 \in S
  BY DEF AtRest
<1>3. ASSUME NEW i \in Nat, i \in S PROVE i + 1 \in S
  <2> SUFFICES ASSUME i + 1 <= n PROVE \E m \in Nat : AtRest(f, i + 1, m)
    OBVIOUS
  <2>1. i <= n /\ i + 1 \in 1..n
    BY <1>1
  <2> QED
    BY <1>3, <2>1, RestSpreads
<1>4. n \in S
  <2> HIDE DEF S
  <2> QED
    BY <1>1, <1>2, <1>3, NatSetInduction
<1>5. PICK m \in Nat : AtRest(f, n, m)
  BY <1>1, <1>4
<1>6. ASSUME NEW k \in Nat, k >= m PROVE ~Below(f[k + 1], f[k])
  <2>1. k + 1 \in Nat /\ k + 1 >= m
    BY <1>6
  <2>2. \A i \in 1..n : f[k + 1][i] = f[k][i]
    BY <1>5, <1>6, <2>1 DEF AtRest
  <2>3. DOMAIN f[k] = 1..n
    BY DEF Descent
  <2> QED
    BY <2>2, <2>3 DEF Below
<1> QED
  BY <1>6

\* What is left to do is finite, so that it can be lowered only so often
\* (DescentSettles).
THEOREM RemainingIsFinite == Spec => [](\A i \in DOMAIN Remaining : IsFiniteSet(Remaining[i]))
<1>1. ASSUME LedgerInv PROVE \A i \in DOMAIN Remaining : IsFiniteSet(Remaining[i])
  <2>1. IsFiniteSet(VersionId) /\ IsFiniteSet(DOMAIN versions)
    <3>1. IsFiniteSet(1..MaxVersion)
      BY LedgerAssumption, FS_Interval
    <3> QED
      BY <1>1, <3>1 DEF VersionId, LedgerInv, RouteInv, Numbered, Laid, Records
  <2>2. IsFiniteSet(DOMAIN todos) /\ IsFiniteSet(DOMAIN deferredItems)
    <3>1. ASSUME NEW s, IsSeq(s) PROVE IsFiniteSet(DOMAIN s)
      <4>1. Len(s) \in Nat /\ DOMAIN s = 1..Len(s)
        BY <3>1 DEF IsSeq
      <4> QED
        BY <4>1, FS_Interval
    <3> QED
      BY <1>1, <3>1 DEF LedgerInv, LineageInv
  <2>3. IsFiniteSet(Uncreated) /\ IsFiniteSet(Pending) /\ IsFiniteSet(Waiting)
    <3>1. /\ Uncreated \subseteq VersionId /\ Pending \subseteq DOMAIN deferredItems
          /\ Waiting \subseteq DOMAIN todos
      BY DEF Uncreated, Pending, Waiting
    <3> QED
      BY <2>1, <2>2, <3>1, FS_Subset
  <2>4. IsFiniteSet(Postponements)
    <3>1. IsFiniteSet(Pending \X (DOMAIN versions))
      BY <2>1, <2>3, FS_Product
    <3>2. Postponements \subseteq Pending \X (DOMAIN versions)
      BY DEF Postponements
    <3> QED
      BY <3>1, <3>2, FS_Subset
  <2>5. IsFiniteSet(StatesToCome)
    <3>1. IsFiniteSet(VersionState)
      <4>1. ASSUME NEW x, NEW y, NEW z PROVE IsFiniteSet({x, y, z})
        <5>1. IsFiniteSet({x} \cup {y})
          BY FS_Singleton, FS_Union
        <5>2. IsFiniteSet(({x} \cup {y}) \cup {z})
          BY <5>1, FS_Singleton, FS_Union
        <5>3. ({x} \cup {y}) \cup {z} = {x, y, z}
          OBVIOUS
        <5> QED
          BY <5>2, <5>3
      <4>2. VersionState = {"wait", "ready", "running"} \cup {"suspend", "complete", "close"}
        BY DEF VersionState
      <4> QED
        BY <4>1, <4>2, FS_Union
    <3>2. IsFiniteSet((DOMAIN versions) \X VersionState)
      BY <2>1, <3>1, FS_Product
    <3>3. StatesToCome \subseteq (DOMAIN versions) \X VersionState
      BY DEF StatesToCome
    <3> QED
      BY <3>2, <3>3, FS_Subset
  <2>6. IsFiniteSet(LeftIdle)
    <3>1. LeftIdle \subseteq {currentVersionId} /\ IsFiniteSet({currentVersionId})
      BY FS_Singleton DEF LeftIdle
    <3> QED
      BY <3>1, FS_Subset
  <2>7. \A i \in DOMAIN Remaining :
          \/ Remaining[i] = Uncreated \/ Remaining[i] = Pending \/ Remaining[i] = Postponements
          \/ Remaining[i] = Waiting \/ Remaining[i] = StatesToCome \/ Remaining[i] = LeftIdle
    BY DEF Remaining
  <2> QED
    BY <2>3, <2>4, <2>5, <2>6, <2>7
<1> QED
  BY <1>1, LedgerAlways, PTL

-----------------------------------------------------------------------------
(* The guide arrives.                                                      *)

\* On an open way nothing keeps a version from being started or closed.
LEMMA OpenGates ==
  ASSUME NEW v, OpenWay(v), NEW u \in DOMAIN versions
  PROVE  /\ versions[u].state = "ready" => StartGate(u)
         /\ versions[u].state = "complete" => CloseAllowed(u, {})
<1>1. /\ \A t \in DOMAIN todos : todos[t].status # "wait"
      /\ \A d \in DOMAIN deferredItems : deferredItems[d].status # "pending"
  BY DEF OpenWay
<1>2. versions[u].state = "ready" => StartGate(u)
  BY <1>1 DEF StartGate, Due
<1>3. versions[u].state = "complete" => CloseGate(u)
  BY <1>1 DEF CloseGate
<1>4. {} # Null /\ \A item \in {} : TakesOver(u, item)
  BY AuditAssumption
<1>5. CloseGate(u) => CloseAllowed(u, {})
  BY <1>4, CloseGatesAgree
<1> QED
  BY <1>2, <1>3, <1>5

\* The steps of the guide, on an open way.
LEMMA GuideNames ==
  ASSUME LedgerInv, NEW v \in DOMAIN versions, OpenWay(v)
  PROVE  LET c == currentVersionId
             step == Guide(v, {})
         IN
         /\ c \in DOMAIN versions
         /\ \/ Arrived(v) /\ step = Advise("noop", v)
            \/ step = Advise("prepare_version", v)
            \/ step = Advise("start_version", v) /\ v = c
            \/ step = Advise("close_version", c)
            \/ /\ step \in {Advise("advance_to_version", v), Advise("set_current_version", v)}
               /\ v # c /\ versions[c].state = "close"
<1> DEFINE c == currentVersionId
<1>1. c \in DOMAIN versions /\ versions[v].state \in VersionState
  BY DEF LedgerInv, RouteInv, CurrentIsMarked, Marks
<1>2. CASE v = c
  <2>1. Guide(v, {}) = ToCurrent(v, {})
    BY <1>2 DEF Guide
  <2>2. versions[v].state # "suspend"
    BY <1>2 DEF OpenWay
  <2>3. CASE versions[v].state = "wait"
    BY <1>1, <2>1, <2>3 DEF ToCurrent
  <2>4. CASE versions[v].state \in {"running", "close"}
    <3>1. Guide(v, {}) = Advise("noop", v)
      BY <2>1, <2>4 DEF ToCurrent
    <3> QED
      BY <1>1, <1>2, <2>4, <3>1 DEF Arrived
  <2>5. CASE versions[v].state = "ready"
    <3>1. Guide(v, {}) = Advise("start_version", v)
      BY <2>1, <2>5, OpenGates DEF ToCurrent
    <3> QED
      BY <1>1, <1>2, <3>1
  <2>6. CASE versions[v].state = "complete"
    <3>1. Guide(v, {}) = Advise("close_version", v)
      BY <2>1, <2>6, OpenGates DEF ToCurrent
    <3> QED
      BY <1>1, <1>2, <3>1
  <2> QED
    BY <1>1, <2>2, <2>3, <2>4, <2>5, <2>6 DEF VersionState
<1>3. CASE v # c
  <2>1. Guide(v, {}) = ToAnother(c, v, {})
    BY <1>3 DEF Guide
  <2>2. /\ versions[c].state \in {"complete", "close"}
        /\ versions[v].state \in {"wait", "ready", "running"}
    BY <1>3 DEF OpenWay
  <2>3. CASE versions[c].state # "close"
    <3>1. Guide(v, {}) = Advise("close_version", c)
      BY <1>1, <2>1, <2>2, <2>3, OpenGates DEF ToAnother
    <3> QED
      BY <1>1, <3>1
  <2>4. CASE versions[c].state = "close" /\ versions[v].state = "wait"
    <3>1. Guide(v, {}) = Advise("prepare_version", v)
      BY <2>1, <2>4 DEF ToAnother
    <3> QED
      BY <1>1, <3>1
  <2>5. CASE versions[c].state = "close" /\ versions[v].state # "wait"
    <3>1. Transition(v) = Advise("set_current_version", v)
      BY <1>3, <2>2, <2>5, OpenGates DEF Transition
    <3>2. Guide(v, {}) \in {Advise("advance_to_version", v), Transition(v)}
      BY <2>1, <2>2, <2>5 DEF ToAnother
    <3> QED
      BY <1>1, <1>3, <2>5, <3>1, <3>2
  <2> QED
    BY <2>3, <2>4, <2>5
<1> QED
  BY <1>2, <1>3

\* What a step of the guide does: some version goes on in its life, or the
\* target becomes the current one and no version changes its state.
GuideMoves(v) ==
  /\ UNCHANGED work /\ DOMAIN versions' = DOMAIN versions
  /\ currentVersionId' \in {currentVersionId, v}
  /\ \/ \E u \in DOMAIN versions :
          /\ versions'[u].state \in Later[versions[u].state]
          /\ \A w \in DOMAIN versions : w # u => versions'[w].state = versions[w].state
     \/ /\ v # currentVersionId /\ currentVersionId' = v
        /\ \A w \in DOMAIN versions : versions'[w].state = versions[w].state

LEMMA GuideMovesDescend ==
  ASSUME RouteInv, NEW v, GuideMoves(v)
  PROVE  Below(WayTo(v)', WayTo(v))
<1> DEFINE a1 == StatesToCome
           a2 == {v} \ {currentVersionId}
           b1 == StatesToCome'
           b2 == {v} \ {currentVersionId'}
<1>1. WayTo(v) = <<a1, a2>> /\ WayTo(v)' = <<b1, b2>>
  BY DEF WayTo
<1>2. \/ b1 # a1 /\ b1 \subseteq a1
      \/ b1 = a1 /\ b2 # a2 /\ b2 \subseteq a2
  <2>1. CASE \E u \in DOMAIN versions :
               /\ versions'[u].state \in Later[versions[u].state]
               /\ \A w \in DOMAIN versions : w # u => versions'[w].state = versions[w].state
    <3>1. StatesToCome' # StatesToCome /\ StatesToCome' \subseteq StatesToCome
      BY <2>1, StateAdvances DEF GuideMoves
    <3> QED
      BY <3>1
  <2>2. CASE /\ v # currentVersionId /\ currentVersionId' = v
             /\ \A w \in DOMAIN versions : versions'[w].state = versions[w].state
    <3>1. StatesToCome' = StatesToCome
      BY <2>2 DEF GuideMoves, StatesToCome, VersionState, Later
    <3> QED
      BY <2>2, <3>1
  <2> QED
    BY <2>1, <2>2 DEF GuideMoves
<1> HIDE DEF a1, a2, b1, b2
<1>3. Below(<<b1, b2>>, <<a1, a2>>)
  <2> DEFINE old == <<a1, a2>>
             new == <<b1, b2>>
  <2>1. /\ DOMAIN old = 1..2 /\ old[1] = a1 /\ old[2] = a2 /\ new[1] = b1 /\ new[2] = b2
        /\ 1 \in 1..2 /\ 2 \in 1..2
        /\ (\A j \in 1..(1 - 1) : FALSE) /\ (\A j \in 1..(2 - 1) : j = 1)
    OBVIOUS
  <2> HIDE DEF old, new
  <2>2. Below(new, old)
    BY <1>2, <2>1 DEF Below
  <2> QED
    BY <2>2 DEF old, new
<1> QED
  BY <1>1, <1>3

\* One version of the route is brought into a later state.
LEMMA BecomeMoves ==
  ASSUME LedgerInv, NEW v, NEW u \in DOMAIN versions, NEW s,
         Become(u, s), UNCHANGED <<currentVersionId, work>>,
         s \in Later[versions[u].state]
  PROVE  /\ GuideMoves(v)
         /\ versions'[u].state = s
         /\ \A w \in DOMAIN versions : w # u => versions'[w].state = versions[w].state
<1>1. versions' = InOneState(versions, u, s)
  BY DEF Become, InOneState
<1>2. Restated(versions', versions, u, s)
  BY <1>1, StateSet DEF LedgerInv, RouteInv, Numbered, Laid
<1>3. /\ DOMAIN versions' = DOMAIN versions /\ versions'[u].state = s
      /\ \A w \in DOMAIN versions : w # u => versions'[w].state = versions[w].state
  BY <1>2 DEF Restated, Stays
<1> QED
  BY <1>3 DEF GuideMoves, work

\* The steps of the guide leave its way open.
LEMMA WayStaysOpen ==
  ASSUME NEW v, OpenWay(v), UNCHANGED work, DOMAIN versions' = DOMAIN versions,
         IF v = currentVersionId' THEN versions'[v].state # "suspend"
         ELSE /\ versions'[currentVersionId'].state \in {"complete", "close"}
              /\ versions'[v].state \in {"wait", "ready", "running"}
  PROVE  OpenWay(v)'
BY DEF OpenWay, work

LEMMA GuideStep ==
  ASSUME LedgerInv, NEW v \in DOMAIN versions, Guided(v)
  PROVE  OpenWay(v)' /\ Below(WayTo(v)', WayTo(v))
<1> DEFINE c == currentVersionId
           step == Guide(v, {})
<1>1. OpenWay(v) /\ Execute(step)
  BY DEF Guided
<1>2. /\ c \in DOMAIN versions
      /\ \/ step = Advise("noop", v)
         \/ step = Advise("prepare_version", v)
         \/ step = Advise("start_version", v) /\ v = c
         \/ step = Advise("close_version", c)
         \/ /\ step \in {Advise("advance_to_version", v), Advise("set_current_version", v)}
            /\ v # c /\ versions[c].state = "close"
  BY <1>1, GuideNames
<1>3. IF v = c THEN versions[v].state # "suspend"
      ELSE /\ versions[c].state \in {"complete", "close"}
           /\ versions[v].state \in {"wait", "ready", "running"}
  BY <1>1 DEF OpenWay
<1> HIDE DEF step, c
<1>4. \A id : ~Execute(Advise("noop", id))
  BY DEF Execute, Advise
<1>5. \A id : /\ Execute(Advise("prepare_version", id)) => PrepareVersion(id)
              /\ Execute(Advise("start_version", id)) => StartVersion(id)
              /\ Execute(Advise("close_version", id)) => CloseVersion(id)
              /\ Execute(Advise("advance_to_version", id)) => AdvanceToVersion(id)
              /\ Execute(Advise("set_current_version", id)) => SetCurrentVersion(id)
  BY DEF Execute, Advise
<1>6. \/ PrepareVersion(v)
      \/ StartVersion(v) /\ v = c
      \/ CloseVersion(c)
      \/ (AdvanceToVersion(v) \/ SetCurrentVersion(v)) /\ v # c /\ versions[c].state = "close"
  BY <1>1, <1>2, <1>4, <1>5
<1>7. CASE PrepareVersion(v)
  <2>1. /\ Become(v, "ready") /\ UNCHANGED <<currentVersionId, work>>
        /\ "ready" \in Later[versions[v].state]
    BY <1>7, LaterFacts DEF PrepareVersion
  <2>2. /\ GuideMoves(v) /\ versions'[v].state = "ready"
        /\ \A w \in DOMAIN versions : w # v => versions'[w].state = versions[w].state
    BY <2>1, BecomeMoves
  <2>3. currentVersionId' = c /\ (v # c => versions'[c].state = versions[c].state)
    BY <1>2, <2>1, <2>2 DEF c
  <2>4. OpenWay(v)'
    BY <1>1, <1>3, <2>1, <2>2, <2>3, WayStaysOpen DEF GuideMoves
  <2> QED
    BY <2>2, <2>4, GuideMovesDescend DEF LedgerInv
<1>8. CASE StartVersion(v) /\ v = c
  <2>1. /\ Become(v, "running") /\ UNCHANGED <<currentVersionId, work>>
        /\ "running" \in Later[versions[v].state]
    BY <1>8, LaterFacts DEF StartVersion, StartGate
  <2>2. GuideMoves(v) /\ versions'[v].state = "running"
    BY <2>1, BecomeMoves
  <2>3. OpenWay(v)'
    BY <1>1, <1>8, <2>1, <2>2, WayStaysOpen DEF GuideMoves, c
  <2> QED
    BY <2>2, <2>3, GuideMovesDescend DEF LedgerInv
<1>9. CASE CloseVersion(c)
  <2>1. /\ Become(c, "close") /\ UNCHANGED <<currentVersionId, work>>
        /\ "close" \in Later[versions[c].state]
    BY <1>9, LaterFacts DEF CloseVersion, CloseGate
  <2>2. /\ GuideMoves(v) /\ versions'[c].state = "close"
        /\ \A w \in DOMAIN versions : w # c => versions'[w].state = versions[w].state
    BY <1>2, <2>1, BecomeMoves
  <2>3. currentVersionId' = c /\ (v # c => versions'[v].state = versions[v].state)
    BY <2>1, <2>2 DEF c
  <2>4. OpenWay(v)'
    BY <1>1, <1>3, <2>2, <2>3, WayStaysOpen DEF GuideMoves
  <2> QED
    BY <2>2, <2>4, GuideMovesDescend DEF LedgerInv
<1>10. CASE (AdvanceToVersion(v) \/ SetCurrentVersion(v)) /\ v # c /\ versions[c].state = "close"
  <2> DEFINE mid == Switched(versions, v, LeftState)
  <2>1. LeftState = "close" /\ Records(versions)
    BY <1>2, <1>10 DEF LeftState, c, LedgerInv, RouteInv, Numbered, Laid, Records
  <2>2. Passed(mid, versions, v, "close")
    BY <2>1, SwitchedFacts
  <2>3. /\ Stays(mid, versions) /\ DOMAIN mid = DOMAIN versions /\ Records(mid)
        /\ \A w \in DOMAIN versions : mid[w].state = versions[w].state
    BY <1>10, <2>1, <2>2 DEF Passed, Stays, Alike, Records, c
  <2>4. currentVersionId' = v /\ UNCHANGED work
    BY <1>10 DEF AdvanceToVersion, SetCurrentVersion
  <2>5. ASSUME AdvanceToVersion(v)
        PROVE  GuideMoves(v) /\ versions'[v].state = "running"
    <3>1. versions' = InOneState(mid, v, "running") /\ versions[v].state = "ready"
      BY <2>5 DEF AdvanceToVersion, AdvanceGate, InOneState, StartGate
    <3> HIDE DEF mid
    <3>2. Restated(versions', mid, v, "running")
      BY <2>3, <3>1, StateSet
    <3>3. /\ DOMAIN versions' = DOMAIN versions /\ versions'[v].state = "running"
          /\ \A w \in DOMAIN versions : w # v => versions'[w].state = versions[w].state
      BY <2>3, <3>2 DEF Restated, Stays
    <3> QED
      BY <2>4, <3>1, <3>3, LaterFacts DEF GuideMoves
  <2>6. ASSUME SetCurrentVersion(v)
        PROVE  GuideMoves(v) /\ versions'[v].state = versions[v].state
    <3>1. versions' = mid
      BY <2>6 DEF SetCurrentVersion
    <3> HIDE DEF mid
    <3> QED
      BY <1>10, <2>3, <2>4, <3>1 DEF GuideMoves, c
  <2>7. GuideMoves(v) /\ versions'[v].state # "suspend"
    BY <1>3, <1>10, <2>5, <2>6
  <2>8. OpenWay(v)'
    BY <1>1, <2>4, <2>7, WayStaysOpen DEF GuideMoves
  <2> QED
    BY <2>7, <2>8, GuideMovesDescend DEF LedgerInv
<1> QED
  BY <1>6, <1>7, <1>8, <1>9, <1>10

LEMMA GuideGoesOn ==
  ASSUME LedgerInv, NEW v \in DOMAIN versions, OpenWay(v), ~Arrived(v)
  PROVE  Guide(v, {})[1] \notin Pauses
<1>1. Guide(v, {}) \in {Advise(action, id) :
         action \in {"prepare_version", "start_version", "close_version",
                     "advance_to_version", "set_current_version"},
         id \in {v, currentVersionId}}
  BY GuideNames
<1>2. \A action, id : Advise(action, id)[1] = action
  BY DEF Advise
<1> QED
  BY <1>1, <1>2 DEF Pauses

LEMMA GuideFollows == []LedgerInv => GuideAdvances
<1> DEFINE Goes == \A v \in DOMAIN versions : OpenWay(v) /\ ~Arrived(v) => Guide(v, {})[1] \notin Pauses
           Leads == \A v \in DOMAIN versions : Guided(v) => OpenWay(v)' /\ Below(WayTo(v)', WayTo(v))
<1>1. LedgerInv => Goes
  BY GuideGoesOn
<1>2. LedgerInv => [Leads]_vars
  BY GuideStep
<1>3. GuideAdvances <=> []Goes /\ [][Leads]_vars
  BY DEF GuideAdvances
<1> HIDE DEF Goes, Leads
<1> QED
  BY <1>1, <1>2, <1>3, PTL

\* As long as nothing but its own steps stands in the way, on a route of any
\* size, the guide names a next step until its target is reached, and each of its
\* steps leaves the way open and shorter.
THEOREM GuideLeads == Spec => GuideAdvances
BY GuideFollows, LedgerAlways, PTL

-----------------------------------------------------------------------------
(* What a load lets in, whoever made it, can be read.                       *)

\* The first n versions of a group, as it is walked from its head h.
Walked(vs, group, h, list, n) ==
  /\ n \in Nat /\ n # 0
  /\ list \in Seq(group) /\ Len(list) = n /\ DOMAIN list = 1..n /\ list[1] = h
  /\ \A i \in 1..n : list[i] \in group
  /\ \A i \in 1..n : i # 1 => vs[list[i]].previous = list[i - 1]
  /\ \A i \in 1..n : i # n => vs[list[i]].next = list[i + 1]
  /\ \A i, j \in 1..n : list[i] = list[j] => i = j

\* The pointers of a group agree with each other, and h is its head.
Grouped(vs, group, h) ==
  /\ group \subseteq DOMAIN vs /\ Null \notin DOMAIN vs
  /\ h \in group /\ vs[h].previous = Null
  /\ \A v \in group : /\ vs[v].next \in group \cup {Null}
                      /\ vs[v].next # Null => vs[vs[v].next].previous = v

\* The successor of the last one is not in the list already.
LEMMA WalkedEnd ==
  ASSUME NEW vs, NEW group, NEW h, Grouped(vs, group, h),
         NEW list, NEW n, Walked(vs, group, h, list, n)
  PROVE  list[n] \in group /\ vs[list[n]].next \notin ToSet(list)
<1> DEFINE last == list[n]
<1>1. /\ n \in Nat /\ n # 0 /\ DOMAIN list = 1..n /\ list[1] = h
      /\ \A i \in 1..n : list[i] \in group
      /\ \A i \in 1..n : i # 1 => vs[list[i]].previous = list[i - 1]
      /\ \A i, j \in 1..n : list[i] = list[j] => i = j
  BY DEF Walked
<1>2. n \in 1..n /\ last \in group
  BY <1>1
<1>3. ASSUME vs[last].next \in ToSet(list) PROVE FALSE
  <2>1. PICK j \in 1..n : vs[last].next = list[j]
    BY <1>1, <1>3 DEF ToSet
  <2>2. vs[list[j]].previous = last /\ last # Null
    BY <1>1, <1>2, <2>1 DEF Grouped
  <2>3. j # 1
    BY <1>1, <2>2 DEF Grouped
  <2>4. vs[list[j]].previous = list[j - 1] /\ j - 1 \in 1..n
    BY <1>1, <2>1, <2>3
  <2>5. j - 1 = n
    BY <1>1, <1>2, <2>2, <2>4
  <2> QED
    BY <1>1, <2>1, <2>5
<1> QED
  BY <1>2, <1>3

\* One more step of the walk.
LEMMA WalkedFurther ==
  ASSUME NEW vs, NEW group, NEW h, Grouped(vs, group, h),
         NEW list, NEW n, Walked(vs, group, h, list, n)
  PROVE  \E more, m : /\ Walked(vs, group, h, more, m)
                      /\ ToSet(more) = Further(vs, group, ToSet(list))
<1> DEFINE e == vs[list[n]].next
<1>1. /\ n \in Nat /\ n # 0 /\ DOMAIN list = 1..n /\ list[1] = h
      /\ list \in Seq(group) /\ Len(list) = n
      /\ \A i \in 1..n : list[i] \in group
      /\ \A i \in 1..n : i # 1 => vs[list[i]].previous = list[i - 1]
      /\ \A i \in 1..n : i # n => vs[list[i]].next = list[i + 1]
      /\ \A i, j \in 1..n : list[i] = list[j] => i = j
  BY DEF Walked
<1>2. e \notin ToSet(list) /\ n \in 1..n
  BY <1>1, WalkedEnd
<1>3. ToSet(list) = {list[i] : i \in 1..n}
  BY <1>1 DEF ToSet
<1>4. \A i \in 1..n : i # n => i + 1 \in 1..n
  BY <1>1
<1>5. {vs[v].next : v \in ToSet(list)} \subseteq ToSet(list) \cup {e}
  BY <1>1, <1>3, <1>4
<1>6. e \in {vs[v].next : v \in ToSet(list)}
  BY <1>2, <1>3
<1>7. ToSet(list) \subseteq group
  BY <1>1, <1>3
<1>8. CASE e = Null
  <2>1. Further(vs, group, ToSet(list)) = ToSet(list)
    BY <1>5, <1>7, <1>8 DEF Further, Grouped
  <2> QED
    BY <2>1
<1>9. CASE e # Null
  <2> DEFINE more == Append(list, e)
  <2>1. e \in group /\ vs[e].previous = list[n]
    BY <1>1, <1>2, <1>9 DEF Grouped
  <2>2. /\ more \in Seq(group) /\ Len(more) = n + 1 /\ DOMAIN more = 1..(n + 1)
        /\ \A i \in 1..n : more[i] = list[i]
        /\ more[n + 1] = e
    <3>1. more \in Seq(group) /\ Len(more) = Len(list) + 1
      BY <1>1, <2>1
    <3>2. \A i \in 1..Len(list) : more[i] = list[i]
      BY <1>1
    <3>3. more[Len(list) + 1] = e
      BY <1>1
    <3>4. DOMAIN more = 1..Len(more)
      BY <3>1
    <3> HIDE DEF more
    <3> QED
      BY <1>1, <3>1, <3>2, <3>3, <3>4
  <2> HIDE DEF more
  <2>3. ToSet(more) = ToSet(list) \cup {e}
    <3>1. \A i \in 1..(n + 1) : i \in 1..n \/ i = n + 1
      BY <1>1
    <3>2. 1..n \subseteq 1..(n + 1) /\ n + 1 \in 1..(n + 1)
      BY <1>1
    <3>3. ToSet(more) = {more[i] : i \in 1..(n + 1)}
      BY <2>2 DEF ToSet
    <3> HIDE DEF e
    <3> QED
      BY <1>3, <2>2, <3>1, <3>2, <3>3
  <2>4. Further(vs, group, ToSet(list)) = ToSet(list) \cup {e}
    BY <1>5, <1>6, <1>7, <2>1 DEF Further
  <2>5. \A i \in 1..(n + 1) : /\ i # 1 => vs[more[i]].previous = more[i - 1]
                              /\ i # n + 1 => vs[more[i]].next = more[i + 1]
    <3> SUFFICES ASSUME NEW i \in 1..(n + 1)
                 PROVE  /\ i # 1 => vs[more[i]].previous = more[i - 1]
                        /\ i # n + 1 => vs[more[i]].next = more[i + 1]
      OBVIOUS
    <3>1. CASE i = n + 1
      <4>1. i - 1 = n /\ more[i - 1] = list[n]
        BY <1>2, <2>2, <3>1, <1>1
      <4> QED
        BY <2>1, <2>2, <3>1, <4>1
    <3>2. CASE i = n
      <4>1. more[i] = list[n] /\ vs[more[i]].next = more[i + 1]
        BY <1>2, <2>2, <3>2
      <4>2. i # 1 => i - 1 \in 1..n /\ more[i - 1] = list[i - 1]
        BY <1>1, <2>2, <3>2
      <4> QED
        BY <1>1, <1>2, <3>2, <4>1, <4>2
    <3>3. CASE i # n /\ i # n + 1
      <4>1. i \in 1..n /\ i + 1 \in 1..n /\ (i # 1 => i - 1 \in 1..n)
        BY <1>1, <3>3
      <4> QED
        BY <1>1, <2>2, <3>3, <4>1
    <3> QED
      BY <3>1, <3>2, <3>3
  <2>6. \A i, j \in 1..(n + 1) : more[i] = more[j] => i = j
    <3>1. \A i \in 1..n : more[i] # e
      BY <1>2, <1>3, <2>2
    <3>2. \A i \in 1..(n + 1) : i \in 1..n \/ i = n + 1
      BY <1>1
    <3> QED
      BY <1>1, <2>2, <3>1, <3>2
  <2>7. more[1] = h /\ 1 \in 1..n
    BY <1>1, <2>2
  <2>8. Walked(vs, group, h, more, n + 1)
    <3>1. n + 1 \in Nat /\ n + 1 # 0
      BY <1>1
    <3>2. \A i \in 1..(n + 1) : more[i] \in group
      <4>1. \A i \in 1..(n + 1) : i \in 1..n \/ i = n + 1
        BY <1>1
      <4> QED
        BY <1>1, <2>1, <2>2, <4>1
    <3> QED
      BY <2>2, <2>5, <2>6, <2>7, <3>1, <3>2 DEF Walked
  <2> QED
    BY <2>3, <2>4, <2>8
<1> QED
  BY <1>8, <1>9

\* If the walk from the head comes through all of a group, it is a list.
LEMMA WalkedAll ==
  ASSUME NEW vs, NEW group, NEW h, Grouped(vs, group, h),
         NEW n \in Nat, NEW visited, Visits(visited, n, vs, group, {h}), visited[n] = group
  PROVE  \E list : /\ ListOver(list, DOMAIN vs) /\ ListAlong(vs, list)
                   /\ ToSet(list) = group
<1> DEFINE S == {i \in Nat : i \in 0..n =>
                   \E list, m : Walked(vs, group, h, list, m) /\ ToSet(list) = visited[i]}
<1>1. \A i \in 0..n : visited[i] = VisitStep(visited, i, vs, group, {h})
  <2>1. visited = [i \in 0..n |-> VisitStep(visited, i, vs, group, {h})]
    BY DEF Visits
  <2> QED
    BY <2>1
<1>2. 0 \in S
  <2> DEFINE list == <<h>>
  <2>1. visited[0] = {h}
    BY <1>1 DEF VisitStep
  <2>2. list \in Seq(group) /\ Len(list) = 1 /\ DOMAIN list = 1..1 /\ list[1] = h
    BY DEF Grouped
  <2>3. \A i \in 1..1 : i = 1
    OBVIOUS
  <2> HIDE DEF list
  <2>4. ToSet(list) = {h}
    BY <2>2, <2>3 DEF ToSet
  <2>5. Walked(vs, group, h, list, 1)
    <3>1. h \in group
      BY DEF Grouped
    <3>2. \A i \in 1..1 : list[i] \in group
      BY <2>2, <2>3, <3>1
    <3> QED
      BY <2>2, <2>3, <3>2 DEF Walked
  <2> QED
    BY <2>1, <2>4, <2>5
<1>3. ASSUME NEW i \in Nat, i \in S PROVE i + 1 \in S
  <2> SUFFICES ASSUME i + 1 \in 0..n
               PROVE  \E list, m : Walked(vs, group, h, list, m) /\ ToSet(list) = visited[i + 1]
    OBVIOUS
  <2>1. i \in 0..n /\ i + 1 # 0 /\ (i + 1) - 1 = i
    OBVIOUS
  <2>2. PICK list, m : Walked(vs, group, h, list, m) /\ ToSet(list) = visited[i]
    BY <1>3, <2>1
  <2>3. visited[i + 1] = Further(vs, group, ToSet(list))
    BY <1>1, <2>1, <2>2 DEF VisitStep
  <2> QED
    BY <2>2, <2>3, WalkedFurther
<1>4. n \in S
  <2> HIDE DEF S
  <2> QED
    BY <1>2, <1>3, NatSetInduction
<1>5. PICK list, m : Walked(vs, group, h, list, m) /\ ToSet(list) = group
  BY <1>4
<1>6. vs[list[m]].next = Null
  BY <1>5, WalkedEnd DEF Grouped
<1>7. /\ m \in Nat /\ m # 0 /\ list \in Seq(group)
      /\ Len(list) = m /\ DOMAIN list = 1..m /\ list[1] = h
      /\ \A i \in 1..m : list[i] \in group
      /\ \A i \in 1..m : i # 1 => vs[list[i]].previous = list[i - 1]
      /\ \A i \in 1..m : i # m => vs[list[i]].next = list[i + 1]
      /\ \A i, j \in 1..m : list[i] = list[j] => i = j
  BY <1>5 DEF Walked
<1>8. vs[h].previous = Null /\ group \subseteq DOMAIN vs
  BY DEF Grouped
<1>9. IsInjective(list)
  BY <1>7 DEF IsInjective
<1>10. ListAlong(vs, list)
  BY <1>6, <1>7, <1>8, <1>9 DEF ListAlong
<1>11. list \in Seq(DOMAIN vs)
  BY <1>7, <1>8
<1> QED
  BY <1>5, <1>9, <1>10, <1>11 DEF ListOver

\* In a tree the validator lets in, pointers agree with those of the neighbours.
LEMMA ValidLinked ==
  ASSUME NEW vs, Null \notin DOMAIN vs, ValidTree(vs), NEW v \in DOMAIN vs
  PROVE  Linked(vs, v)
<1>1. /\ vs[v].parent \in (DOMAIN vs \cup {Null}) \ {v}
      /\ vs[v].previous \in (DOMAIN vs \cup {Null}) \ {v}
      /\ vs[v].next \in (DOMAIN vs \cup {Null}) \ {v}
  BY DEF ValidTree, Referenced, Pointers
<1>2. Mirrored(vs, v, "previous", "next") /\ Mirrored(vs, v, "next", "previous")
  BY DEF ValidTree, SiblingStructure
<1>3. /\ vs[v].previous \in DOMAIN vs =>
           vs[vs[v].previous].parent = vs[v].parent /\ vs[vs[v].previous].next = v
      /\ vs[v].next \in DOMAIN vs =>
           vs[vs[v].next].parent = vs[v].parent /\ vs[vs[v].next].previous = v
  BY <1>2 DEF Mirrored
<1> QED
  BY <1>1, <1>3 DEF Linked, Children

\* The children of p are a list, along their pointers.
LEMMA ValidList ==
  ASSUME NEW vs, Null \notin DOMAIN vs, IsFiniteSet(DOMAIN vs), ValidTree(vs),
         NEW p \in DOMAIN vs \cup {Null}
  PROVE  \E list : /\ ListOver(list, DOMAIN vs) /\ ListAlong(vs, list)
                   /\ ToSet(list) = Children(vs, p)
<1> DEFINE group == Children(vs, p)
           n == Cardinality(group)
           heads == {v \in group : vs[v].previous = Null}
           tails == {v \in group : vs[v].next = Null}
           visited == CHOOSE f : f = [i \in 0..Cardinality(group) |->
             IF i = 0 THEN heads
             ELSE f[i - 1] \cup ({vs[v].next : v \in f[i - 1]} \cap group)]
<1>1. group \subseteq DOMAIN vs /\ IsFiniteSet(group) /\ n \in Nat
  <2>1. group \subseteq DOMAIN vs
    BY DEF Children
  <2>2. IsFiniteSet(group)
    BY <2>1, FS_Subset
  <2> QED
    BY <2>1, <2>2, FS_CardinalityType
<1>2. \A v \in group : /\ vs[v].next # Null => /\ vs[v].next \in group \ {v}
                                               /\ vs[vs[v].next].previous = v
                       /\ vs[v].previous # Null => vs[v].previous \in group \ {v}
  BY ValidLinked DEF Linked, Children
<1>3. n > 1 => Cardinality(heads) = 1 /\ Cardinality(tails) = 1 /\ visited[n] = group
  <2>1. Chained(vs, p)
    BY DEF ValidTree, SiblingStructure
  <2> QED
    BY <2>1, Zenon DEF Chained
<1>4. CASE n = 0
  <2>1. group = {}
    BY <1>1, <1>4, FS_EmptySet
  <2>2. /\ <<>> \in Seq(DOMAIN vs) /\ Len(<<>>) = 0 /\ DOMAIN <<>> = 1..0
        /\ \A i \in 1..0 : FALSE
    OBVIOUS
  <2>3. ListOver(<<>>, DOMAIN vs) /\ ListAlong(vs, <<>>) /\ ToSet(<<>>) = {}
    BY <2>2 DEF ListOver, ListAlong, IsInjective, ToSet
  <2> QED
    BY <2>1, <2>3
<1>5. CASE n = 1
  <2>1. PICK v : group = {v}
    BY <1>1, <1>5, FS_Singleton
  <2> DEFINE list == <<v>>
  <2>2. v \in DOMAIN vs /\ vs[v].next = Null /\ vs[v].previous = Null
    BY <1>1, <1>2, <2>1
  <2>3. /\ list \in Seq(DOMAIN vs) /\ Len(list) = 1 /\ DOMAIN list = 1..1 /\ list[1] = v
        /\ \A i \in 1..1 : i = 1
    BY <2>2
  <2> HIDE DEF list
  <2>4. ListOver(list, DOMAIN vs) /\ ListAlong(vs, list) /\ ToSet(list) = {v}
    BY <2>2, <2>3 DEF ListOver, ListAlong, IsInjective, ToSet
  <2> QED
    BY <2>1, <2>4
<1>6. CASE n > 1
  <2>1. /\ Cardinality(heads) = 1 /\ visited[n] = group
        /\ visited = CHOOSE f : Visits(f, n, vs, group, heads)
    BY <1>3, <1>6, Zenon DEF Visits, VisitStep, Further
  <2> HIDE DEF visited
  <2>2. heads \subseteq group /\ IsFiniteSet(heads)
    BY <1>1, FS_Subset
  <2>3. PICK h : heads = {h}
    BY <2>1, <2>2, FS_Singleton
  <2>4. h \in group /\ vs[h].previous = Null
    BY <2>3
  <2>5. Grouped(vs, group, h)
    BY <1>1, <1>2, <2>4 DEF Grouped
  <2> HIDE DEF group, n, heads
  <2>6. Visits(visited, n, vs, group, {h})
    <3>1. HasVisits(n, vs, group, heads)
      BY <1>1, VisitsDefined
    <3>2. Visits(visited, n, vs, group, heads)
      BY <2>1, <3>1, Zenon DEF HasVisits
    <3> QED
      BY <2>3, <3>2
  <2>7. \E list : /\ ListOver(list, DOMAIN vs) /\ ListAlong(vs, list) /\ ToSet(list) = group
    BY <1>1, <2>1, <2>5, <2>6, WalkedAll
  <2> QED
    BY <2>7 DEF group
<1> QED
  BY <1>1, <1>4, <1>5, <1>6

\* If among any versions there is one without its parent among them, there is
\* also one without a child among them.
LEMMA LeafExists ==
  ASSUME NEW D, IsFiniteSet(D), NEW f, DOMAIN f = D,
         \A loop \in SUBSET D : loop # {} => \E v \in loop : f[v] \notin loop,
         NEW Q \in SUBSET D, Q # {}
  PROVE  \E q \in Q : \A v \in Q : f[v] # q
<1> SUFFICES ASSUME \A q \in Q : \E v \in Q : f[v] = q PROVE FALSE
  OBVIOUS
<1> DEFINE c == [q \in Q |-> CHOOSE v \in Q : f[v] = q]
<1>1. \A q \in Q : c[q] \in Q /\ f[c[q]] = q
  OBVIOUS
<1>2. c \in [Q -> Q]
  BY <1>1
<1> HIDE DEF c
<1>3. \A a, b \in Q : c[a] = c[b] => a = b
  BY <1>1
<1>4. c \in Injection(Q, Q)
  BY <1>2, <1>3 DEF Injection, IsInjective
<1>5. IsFiniteSet(Q)
  BY FS_Subset
<1>6. c \in Surjection(Q, Q)
  BY <1>4, <1>5, FS_Injection
<1>7. \A v \in Q : \E q \in Q : c[q] = v
  BY <1>2, <1>6 DEF Surjection
<1>8. \A v \in Q : f[v] \in Q
  BY <1>1, <1>7
<1> QED
  BY <1>8

\* The lists of a tree the validator lets in are a forest.
LEMMA ValidDrawn ==
  ASSUME NEW vs, Null \notin DOMAIN vs, IsFiniteSet(DOMAIN vs), ValidTree(vs)
  PROVE  \E lists : ForestOf(DOMAIN vs, lists) /\ Drawn(vs, lists)
<1> DEFINE D == DOMAIN vs
           A == D \cup {Null}
           Fits(list, p) == /\ ListOver(list, D) /\ ListAlong(vs, list)
                            /\ ToSet(list) = Children(vs, p)
           lists == [p \in A |-> CHOOSE list : Fits(list, p)]
<1>1. /\ DOMAIN lists = A /\ lists = [p \in A |-> lists[p]]
      /\ \A p \in A : Fits(lists[p], p)
  <2>1. \A p \in A : \E list : Fits(list, p)
    BY ValidList
  <2> HIDE DEF Fits
  <2> QED
    BY <2>1
<1> HIDE DEF lists
<1>2. \A p \in A : /\ ListOver(lists[p], D) /\ ListAlong(vs, lists[p])
                   /\ \A v : v \in ToSet(lists[p]) <=> v \in D /\ vs[v].parent = p
  BY <1>1 DEF Children
<1>3. \A v \in D : vs[v].parent \in A
  BY ValidLinked DEF Linked
<1>4. Drawn(vs, lists)
  <2> SUFFICES ASSUME NEW p \in A, NEW i \in DOMAIN lists[p]
               PROVE  LET v == lists[p][i] IN
                      /\ vs[v].parent = p
                      /\ vs[v].previous = IF i = 1 THEN Null ELSE lists[p][i - 1]
                      /\ vs[v].next = IF i = Len(lists[p]) THEN Null ELSE lists[p][i + 1]
    BY <1>1 DEF Drawn
  <2>1. vs[lists[p][i]].parent = p
    BY <1>2 DEF ToSet
  <2>2. ListAlong(vs, lists[p])
    BY <1>2
  <2> QED
    BY <2>1, <2>2 DEF ListAlong
<1>5. ASSUME NEW P \in SUBSET D, P # {}
      PROVE  \E v \in P : \A p \in P : v \notin ToSet(lists[p])
  <2>1. Acyclic(vs, "parent")
    BY DEF ValidTree, Pointers
  <2>2. PICK v \in P : vs[v].parent \notin P
    BY <1>5, <2>1 DEF Acyclic
  <2> QED
    BY <1>2, <2>2
<1>6. ASSUME NEW P \in SUBSET A, P # {}
      PROVE  \E p \in P : ToSet(lists[p]) \cap P = {}
  <2> DEFINE Q == P \cap D
             f == [v \in D |-> vs[v].parent]
  <2>1. CASE Q = {}
    <3>1. \A p \in P : ToSet(lists[p]) \cap P = {}
      BY <1>2, <2>1
    <3> QED
      BY <1>6, <3>1
  <2>2. CASE Q # {}
    <3>1. DOMAIN f = D /\ \A v \in D : f[v] = vs[v].parent
      OBVIOUS
    <3>2. \A loop \in SUBSET D : loop # {} => \E v \in loop : vs[v].parent \notin loop
      BY DEF ValidTree, Acyclic, Pointers
    <3> HIDE DEF f
    <3>3. \A loop \in SUBSET D : loop # {} => \E v \in loop : f[v] \notin loop
      BY <3>1, <3>2
    <3>4. Q \in SUBSET D
      OBVIOUS
    <3> HIDE DEF Q
    <3>5. PICK q \in Q : \A v \in Q : f[v] # q
      BY <2>2, <3>1, <3>3, <3>4, LeafExists
    <3>6. q \in P /\ q \in A
      BY DEF Q
    <3>7. ToSet(lists[q]) \cap P = {}
      BY <1>2, <3>1, <3>5, <3>6 DEF Q
    <3> QED
      BY <3>6, <3>7
  <2> QED
    BY <2>1, <2>2
<1>7. ForestOf(D, lists)
  <2>1. \A v \in D : \E p \in A : v \in ToSet(lists[p])
    BY <1>2, <1>3
  <2>2. \A p, q \in A : p # q => ToSet(lists[p]) \cap ToSet(lists[q]) = {}
    BY <1>2
  <2>3. \A p \in A : ListOver(lists[p], D)
    BY <1>2
  <2> HIDE DEF A, D
  <2> QED
    BY <1>1, <1>5, <1>6, <2>1, <2>2, <2>3 DEF ForestOf, A
<1> QED
  BY <1>4, <1>7

\* Whatever tree the validator of a load lets in, of any size and whoever made
\* it, an editor or a merge, buildOrderedTree can read: no project that loads
\* refuses every change of its tree.  This is the half of RulesAgree that keeps
\* a loaded project usable.
THEOREM LoadedIsReadable ==
  ASSUME NEW vs, IsFiniteSet(DOMAIN vs), Null \notin DOMAIN vs, ValidTree(vs)
  PROVE  Readable(vs)
<1>1. PICK lists : ForestOf(DOMAIN vs, lists) /\ Drawn(vs, lists)
  BY ValidDrawn
<1> QED
  BY <1>1, DrawnReadable

\* The validator's rules for the pointers say that they are those of a forest.
LEMMA ValidLaid ==
  ASSUME NEW vs, Records(vs), ValidTree(vs)
  PROVE  Laid(vs)
<1>1. PICK lists : ForestOf(DOMAIN vs, lists) /\ Drawn(vs, lists)
  BY ValidDrawn DEF Records
<1> QED
  BY <1>1, LaidLists DEF LaidAlong

LEMMA LoadedLineage == Decoded /\ Valid => LineageInv
<1> SUFFICES ASSUME Decoded, Valid PROVE LineageInv
  OBVIOUS
<1>1. /\ IsSeq(todos) /\ \A t \in DOMAIN todos : todos[t] \in Todo
      /\ IsSeq(deferredItems) /\ \A d \in DOMAIN deferredItems : deferredItems[d] \in Deferred
      /\ IsSeq(workItems) /\ \A w \in DOMAIN workItems : workItems[w] \in WorkItem
  BY DEF Decoded, IsSeq
<1>2. ASSUME NEW w \in DOMAIN workItems, NEW type \in {"todo", "deferred"}, NEW i,
             <<type, i>> \in OpenRecords(w)
      PROVE  workItems[w] = Active(type, i)
  <2>1. ValidLineage(w) /\ workItems[w] \in WorkItem
    BY <1>1 DEF Valid
  <2>2. workItems[w].status = "active" /\ OpenRecords(w) = {workItems[w].activeRecord}
    BY <1>2, <2>1 DEF ValidLineage, WorkItem
  <2> QED
    BY <1>2, <2>1, <2>2 DEF WorkItem, Active
<1>3. ASSUME NEW t \in DOMAIN todos PROVE TodoOK(t)
  <2>1. todos[t] \in Todo /\ todos[t].workItem \in DOMAIN workItems
    BY <1>1 DEF Valid, ValidTodo
  <2>2. ASSUME todos[t].status = "wait" PROVE workItems[todos[t].workItem] = Active("todo", t)
    <3>1. <<"todo", t>> \in OpenRecords(todos[t].workItem)
      BY <2>2 DEF OpenRecords
    <3> QED
      BY <1>2, <2>1, <3>1
  <2> QED
    BY <2>1, <2>2 DEF TodoOK, Todo
<1>4. ASSUME NEW d \in DOMAIN deferredItems PROVE DeferredOK(d)
  <2>1. /\ deferredItems[d] \in Deferred /\ deferredItems[d].workItem \in DOMAIN workItems
        /\ ValidDeferred(d)
    BY <1>1 DEF Valid, ValidDeferred
  <2>2. ASSUME deferredItems[d].status = "pending"
        PROVE  workItems[deferredItems[d].workItem] = Active("deferred", d)
    <3>1. <<"deferred", d>> \in OpenRecords(deferredItems[d].workItem)
      BY <2>2 DEF OpenRecords
    <3> QED
      BY <1>2, <2>1, <3>1
  <2> QED
    BY <2>1, <2>2 DEF DeferredOK, Deferred, ValidDeferred
<1>5. ASSUME NEW w \in DOMAIN workItems PROVE WorkItemOK(w)
  <2>1. ValidLineage(w) /\ workItems[w] \in WorkItem
    BY <1>1 DEF Valid
  <2>2. CASE workItems[w].status = "closed"
    BY <2>1, <2>2 DEF ValidLineage, WorkItem, WorkItemOK, Closed
  <2>3. CASE workItems[w].status = "active"
    <3>1. workItems[w].activeRecord \in OpenRecords(w)
      BY <2>1, <2>3 DEF ValidLineage
    <3>2. CASE \E t \in DOMAIN todos : /\ workItems[w].activeRecord = <<"todo", t>>
                                       /\ todos[t].workItem = w /\ todos[t].status = "wait"
      BY <2>1, <2>3, <3>2 DEF WorkItem, WorkItemOK, Active
    <3>3. CASE \E d \in DOMAIN deferredItems :
                 /\ workItems[w].activeRecord = <<"deferred", d>>
                 /\ deferredItems[d].workItem = w /\ deferredItems[d].status = "pending"
      BY <2>1, <2>3, <3>3 DEF WorkItem, WorkItemOK, Active
    <3> QED
      BY <3>1, <3>2, <3>3 DEF OpenRecords
  <2> QED
    BY <2>1, <2>2, <2>3 DEF WorkItem
<1> QED
  BY <1>1, <1>3, <1>4, <1>5 DEF LineageInv

LEMMA LoadedRoute == Decoded /\ Valid => RouteInv
<1> SUFFICES ASSUME Decoded, Valid PROVE RouteInv
  OBVIOUS
<1>1. PICK n \in 0..MaxVersion :
        versions \in [1..n -> [parent : VersionId \cup {Null}, previous : VersionId \cup {Null},
                               next : VersionId \cup {Null}, order : Int,
                               state : VersionState, isCurrent : BOOLEAN]]
  BY DEF Decoded
<1>2. n \in Nat /\ DOMAIN versions = 1..n
  BY <1>1, LedgerAssumption
<1>3. \A v \in DOMAIN versions : /\ VersionRecord(versions[v])
                                 /\ versions[v].state \in VersionState
                                 /\ versions[v].isCurrent \in BOOLEAN
  BY <1>1 DEF VersionRecord
<1>4. Records(versions)
  <2>1. IsFiniteSet(1..n)
    BY <1>2, FS_Interval
  <2>2. versions = [v \in DOMAIN versions |-> versions[v]]
    BY <1>1
  <2> QED
    BY <1>2, <1>3, <2>1, <2>2, LedgerAssumption DEF Records
<1>5. Numbered(versions, n)
  BY <1>2, <1>4, ValidLaid DEF Valid, Numbered
<1>6. Marks(versions)
  BY <1>3 DEF Marks
<1>7. currentVersionId \in DOMAIN versions \cup {Null} /\ CurrentIsMarked
  BY DEF Valid, ValidCurrent, CurrentIsMarked
<1> QED
  BY <1>5, <1>6, <1>7 DEF RouteInv

\* What the validator demands is all that the invariant needs.
LEMMA LoadedSound == Decoded /\ Valid => LedgerInv
<1> SUFFICES ASSUME Decoded, Valid PROVE LedgerInv
  OBVIOUS
<1>1. ASSUME NEW t \in DOMAIN todos PROVE TodoAt(t)
  <2>1. todos[t] \in Todo
    BY DEF Decoded
  <2>2. todos[t].version \in DOMAIN versions
    BY DEF Valid, ValidTodo
  <2> QED
    BY <2>1, <2>2 DEF TodoAt, Todo, TodoStatus
<1>2. ASSUME NEW d \in DOMAIN deferredItems PROVE DeferredAt(d)
  <2>1. deferredItems[d] \in Deferred
    BY DEF Decoded
  <2>2. /\ deferredItems[d].origin \in DOMAIN versions /\ deferredItems[d].target \in DOMAIN versions
        /\ deferredItems[d].status # "activated" => deferredItems[d].activatedTodo = Null
    BY DEF Valid, ValidDeferred
  <2> QED
    BY <2>1, <2>2 DEF DeferredAt, Deferred, DeferredStatus
<1> QED
  BY <1>1, <1>2, LoadedLineage, LoadedRoute DEF LedgerInv, RecordInv

LEMMA LoadedAlways == LoadedSpec => []LedgerInv
BY LoadedSound, LedgerStep, PTL DEF LoadedSpec

\* Whoever wrote a project, once a load has accepted it, no sequence of commands
\* makes it one that the next load refuses or the next command cannot read, and
\* the advice about it is sound, whatever order numbers its versions came with.
THEOREM LoadedStaysSound ==
  LoadedSpec => /\ []SavesAreValid
                /\ []Readable(versions)
                /\ []CurrentIsMarked
                /\ []LineageIsSound
                /\ []AdviceIsAccepted
                /\ [](\A v \in DOMAIN versions, audit \in Audits : LegalIsReady(v, audit))
<1>1. LedgerInv => Readable(versions) /\ CurrentIsMarked
  BY LaidReadable DEF LedgerInv, RouteInv, Numbered
<1>2. LedgerInv => LineageIsSound
  BY LineageImplies DEF LedgerInv
<1>3. LedgerInv => \A v \in DOMAIN versions, audit \in Audits : LegalIsReady(v, audit)
  BY LegalFollows
<1> QED
  BY <1>1, <1>2, <1>3, ValidFollows, AdviceFollows, LoadedAlways, PTL

\* The same of what the commands and the advice do from there on.
THEOREM LoadedLeads == LoadedSpec => DeferredStaysAhead /\ AdviceDescends /\ GuideAdvances
BY AheadFollows, DescentFollows, GuideFollows, LoadedAlways, PTL DEF LoadedSpec

\* The orders of such a project may be anything; the first command that changes
\* its tree puts all of them right, and from there on they are.
THEOREM LoadedIsRepaired ==
  LoadedSpec => [][TreeChange \/ RouteIsReadable => RouteIsReadable']_vars
<1> DEFINE Repairs == TreeChange \/ RouteIsReadable => RouteIsReadable'
<1>1. ASSUME LedgerInv, [Next]_vars PROVE Repairs
  <2>1. RouteInv /\ RouteInv'
    BY <1>1, RouteStep DEF LedgerInv
  <2>2. RouteIsReadable <=> Ordered(versions)
    BY <2>1, OrderedReadable
  <2>3. (RouteIsReadable <=> Ordered(versions))'
    <3>1. RouteInv' => (RouteIsReadable <=> Ordered(versions))'
      BY OrderedReadable, PTL
    <3> QED
      BY <2>1, <3>1
  <2>4. TreeChange => Ordered(versions')
    BY <2>1, TreeChangeOrders
  <2>5. Ordered(versions) => Ordered(versions)'
    BY <1>1, <2>1, OrderStep
  <2> QED
    BY <2>2, <2>3, <2>4, <2>5
<1>2. LedgerInv /\ [Next]_vars => Repairs
  BY <1>1
<1> HIDE DEF Repairs
<1>3. LoadedSpec => [][Repairs]_vars
  BY <1>2, LoadedAlways, PTL DEF LoadedSpec
<1> QED
  BY <1>3 DEF Repairs
=============================================================================
