----------------------------- MODULE CycleProofs -----------------------------
(***************************************************************************)
(* Theorems about the search of cycle.go, for every graph on any finite    *)
(* set of rows and every edit of it.                                       *)
(***************************************************************************)
EXTENDS Cycle, TLAPS, SequenceTheorems, FiniteSetTheorems

-----------------------------------------------------------------------------
(* Reachability.                                                           *)

\* A row leads to itself, and whatever leads to a row leads to what that depends on.
LEMMA LeadsOn ==
    ASSUME NEW graph, NEW from
    PROVE  /\ Leads(graph, from, from)
           /\ \A r \in Row : \A n \in graph[r] : Leads(graph, from, r) => Leads(graph, from, n)
  BY DEF Leads, Closed

\* What a closed set holds leads to nothing outside it.
LEMMA LeadsInside ==
    ASSUME NEW graph, NEW S \in SUBSET Row, Closed(graph, S), NEW from \in S, NEW to,
           to \notin S
    PROVE  ~Leads(graph, from, to)
  BY DEF Leads

\* An edit of an acyclic graph closes a cycle if and only if the row is reachable from one
\* of its new dependencies.
LEMMA EditClosesCycle ==
    ASSUME NEW graph \in [Row -> SUBSET Row], Acyclic(graph), NEW t \in Row,
           NEW deps \in SUBSET Row
    PROVE  (\E d \in deps : Leads(graph, d, t)) <=> ~Acyclic([graph EXCEPT ![t] = deps])
<1> DEFINE new == [graph EXCEPT ![t] = deps]
<1>1. new[t] = deps /\ \A r \in Row : r # t => new[r] = graph[r]
  OBVIOUS
<1>2. ASSUME NEW S \in SUBSET Row, t \notin S
      PROVE  Closed(new, S) <=> Closed(graph, S)
  BY <1>1, <1>2 DEF Closed
<1> HIDE DEF new
<1>3. ASSUME NEW d \in deps, Leads(graph, d, t)
      PROVE  ~Acyclic(new)
  <2>1. Leads(new, d, t)
    BY <1>2, <1>3 DEF Leads
  <2> QED
    BY <1>1, <2>1 DEF Acyclic
<1>4. ASSUME \A d \in deps : ~Leads(graph, d, t)
      PROVE  Acyclic(new)
  <2> DEFINE Below == {x \in Row : \E d \in deps : Leads(graph, d, x)}
  <2>1. Below \in SUBSET Row /\ Closed(graph, Below) /\ t \notin Below /\ deps \subseteq Below
    BY <1>4, LeadsOn DEF Closed
  <2> HIDE DEF Below
  <2>2. SUFFICES ASSUME NEW r \in Row, NEW d \in new[r]
                 PROVE  ~Leads(new, d, r)
    BY DEF Acyclic
  <2>3. d \in Row
    BY <1>1, <2>2
  <2>4. CASE r = t
    BY <1>1, <1>2, <2>1, <2>2, <2>4, LeadsInside
  <2>5. CASE r # t
    <3>1. PICK S \in SUBSET Row : d \in S /\ Closed(graph, S) /\ r \notin S
      BY <1>1, <2>2, <2>5 DEF Acyclic, Leads
    <3>2. CASE r \in Below
      <4>1. d \in Below
        BY <1>1, <2>1, <2>2, <2>5, <3>2 DEF Closed
      <4>2. Closed(graph, S \cap Below) /\ t \notin S \cap Below
        BY <2>1, <3>1 DEF Closed
      <4> QED
        BY <1>2, <3>1, <4>1, <4>2, LeadsInside
    <3>3. CASE r \notin Below
      <4>1. Closed(new, S \cup Below)
        BY <1>1, <2>1, <3>1 DEF Closed
      <4> QED
        BY <2>1, <3>1, <3>3, <4>1, LeadsInside
    <3> QED
      BY <3>2, <3>3
  <2> QED
    BY <2>4, <2>5
<1> QED
  BY <1>3, <1>4 DEF new

-----------------------------------------------------------------------------
(* The inductive invariant.                                                *)

\* Every call under way is for a row that a new dependency leads to, and has neighbours
\* of that row left.
Traced ==
    \A i \in 1..Depth :
        /\ \E d \in newDeps : Leads(edges, d, stack[i].current)
        /\ stack[i].left \subseteq edges[stack[i].current]

\* The target is not visited; what a visited row depends on is visited too, or some call
\* has yet to look at it.
Swept ==
    /\ taskID \notin visited
    /\ answer # "refused" =>
        \A v \in visited : \A n \in edges[v] :
            n \in visited \/ \E i \in 1..Depth : stack[i].current = v /\ n \in stack[i].left

\* The dependencies that were tried do not lead to the row, but for the one that is being
\* searched from, which is visited.
Cleared ==
    answer # "refused" =>
        \A d \in newDeps \ untried :
            ~Leads(edges, d, taskID) \/ (stack # <<>> /\ d \in visited)

Answered ==
    /\ answer # "none" => stack = <<>>
    /\ answer = "refused" => \E d \in newDeps : Leads(edges, d, taskID)
    /\ answer = "accepted" => untried = {}

SearchInv ==
    TypeOK /\ Traced /\ Swept /\ Cleared /\ Answered /\ Depth <= Cardinality(visited)

\* A call is a row with what it depends on; graphs are functions.
LEMMA CallOf ==
    ASSUME TypeOK, NEW r \in Row
    PROVE  /\ edges \in [Row -> SUBSET Row] /\ Calls(r) \in Call
           /\ Calls(r).current = r /\ Calls(r).left = edges[r]
  BY GraphAssumption DEF TypeOK, Calls, Call

\* Rows that were visited are finitely many.
LEMMA VisitedCount ==
    ASSUME TypeOK
    PROVE  /\ IsFiniteSet(visited) /\ Cardinality(visited) \in Nat
           /\ Cardinality(visited) <= Cardinality(Row) /\ Cardinality(Row) \in Nat
  BY GraphAssumption, FS_Subset, FS_CardinalityType DEF TypeOK

\* The loop of the innermost call goes on: nothing else changes.
LEMMA PastOne ==
    ASSUME TypeOK, stack # <<>>, NEW n
    PROVE  /\ Depth \in Nat \ {0} /\ Past(n) \in Seq(Call) /\ Len(Past(n)) = Depth
           /\ \A i \in 1..Depth :
                /\ Past(n)[i].current = stack[i].current
                /\ Past(n)[i].left = IF i = Depth THEN stack[i].left \ {n} ELSE stack[i].left
<1>1. stack \in Seq(Call) /\ Depth \in Nat \ {0}
  BY EmptySeq DEF TypeOK, Depth
<1>2. \A i \in 1..Depth : stack[i] \in Call
  BY <1>1, ElementOfSeq DEF Depth
<1> DEFINE call == [stack[Depth] EXCEPT !.left = @ \ {n}]
<1>3. /\ call \in Call /\ call.current = stack[Depth].current
      /\ call.left = stack[Depth].left \ {n}
  BY <1>1, <1>2 DEF Call
<1>4. Past(n) = [stack EXCEPT ![Depth] = call]
  BY DEF Past
<1> HIDE DEF call
<1>5. /\ Past(n) \in Seq(Call) /\ Len(Past(n)) = Depth
      /\ \A i \in 1..Depth : Past(n)[i] = IF i = Depth THEN call ELSE stack[i]
  BY <1>1, <1>3, <1>4, ExceptSeq DEF Depth
<1> QED
  BY <1>1, <1>3, <1>5

\* The search starts from a new dependency.
LEMMA SearchStarts ==
    ASSUME SearchInv, NEW d \in untried, Search(d)
    PROVE  SearchInv'
<1>1. TypeOK /\ d \in newDeps /\ d \in Row /\ d # taskID
  BY DEF SearchInv, TypeOK, Search
<1>2. /\ Calls(d) \in Call /\ Calls(d).current = d /\ Calls(d).left = edges[d]
  BY <1>1, CallOf
<1>3. /\ stack' = <<Calls(d)>> /\ visited' = {d} /\ untried' = untried \ {d}
      /\ UNCHANGED <<edges, taskID, newDeps, answer>> /\ answer = "none" /\ stack = <<>>
  BY DEF Search, edit
<1>4. stack' \in Seq(Call) /\ Depth' = 1 /\ stack'[1] = Calls(d) /\ stack' # <<>>
  BY <1>2, <1>3 DEF Depth
<1> HIDE DEF Calls
<1>5. TypeOK'
  BY <1>1, <1>3, <1>4 DEF TypeOK
<1>6. Traced'
  BY <1>1, <1>2, <1>3, <1>4, LeadsOn DEF Traced
<1>7. Swept'
  BY <1>1, <1>2, <1>3, <1>4 DEF Swept
<1>8. Cleared' /\ Answered'
  BY <1>3, <1>4 DEF SearchInv, Cleared, Answered
<1>9. Depth' <= Cardinality(visited')
  <2>1. Cardinality({d}) = 1
    BY FS_Singleton
  <2> QED
    BY <1>3, <1>4, <2>1
<1> QED
  BY <1>5, <1>6, <1>7, <1>8, <1>9 DEF SearchInv

\* A neighbour is the target.
LEMMA TargetReached ==
    ASSUME SearchInv, NEW n \in Row, Reach(n)
    PROVE  SearchInv'
<1>1. TypeOK /\ Depth \in Nat \ {0} /\ stack \in Seq(Call)
  BY EmptySeq DEF SearchInv, TypeOK, Reach, Depth
<1>2. n \in Innermost.left /\ n = taskID /\ Innermost = stack[Depth] /\ Innermost \in Call
  BY <1>1, ElementOfSeq DEF Reach, Innermost, Depth
<1>3. /\ stack' = <<>> /\ answer' = "refused"
      /\ UNCHANGED <<edges, taskID, newDeps, untried, visited>>
  BY DEF Reach, edit
<1>4. Depth' = 0 /\ stack' \in Seq(Call)
  BY <1>3, EmptySeq DEF Depth
<1>5. \E d \in newDeps : Leads(edges, d, taskID)
  <2>1. PICK d \in newDeps : Leads(edges, d, Innermost.current)
    BY <1>1, <1>2 DEF SearchInv, Traced
  <2>2. Innermost.current \in Row /\ n \in edges[Innermost.current]
    BY <1>1, <1>2 DEF SearchInv, Traced, Call
  <2> QED
    BY <1>2, <2>1, <2>2, LeadsOn
<1>6. Depth' <= Cardinality(visited')
  BY <1>1, <1>3, <1>4, VisitedCount
<1> QED
  BY <1>1, <1>3, <1>4, <1>5, <1>6
     DEF SearchInv, TypeOK, Traced, Swept, Cleared, Answered

\* A neighbour was visited before.
LEMMA LoopGoesOn ==
    ASSUME SearchInv, NEW n \in Row, Revisit(n)
    PROVE  SearchInv'
<1>1. TypeOK /\ stack # <<>> /\ n \in visited
  BY DEF SearchInv, Revisit
<1>2. /\ stack' = Past(n) /\ UNCHANGED <<edges, taskID, newDeps, untried, visited, answer>>
  BY DEF Revisit, edit
<1>3. /\ Depth \in Nat \ {0} /\ stack' \in Seq(Call) /\ Depth' = Depth
      /\ \A i \in 1..Depth :
            /\ stack'[i].current = stack[i].current
            /\ stack'[i].left = IF i = Depth THEN stack[i].left \ {n} ELSE stack[i].left
  BY <1>1, <1>2, PastOne DEF Depth
<1>4. stack' # <<>> /\ answer = "none"
  BY <1>1, <1>3, EmptySeq DEF SearchInv, Answered, Depth, TypeOK
<1>5. TypeOK'
  BY <1>1, <1>2, <1>3 DEF TypeOK
<1>6. Traced'
  BY <1>2, <1>3 DEF SearchInv, Traced
<1>7. Swept'
  <2> SUFFICES ASSUME NEW v \in visited, NEW m \in edges[v], m \notin visited
               PROVE  \E i \in 1..Depth : stack'[i].current = v /\ m \in stack'[i].left
    BY <1>2, <1>3 DEF SearchInv, Swept
  <2>1. PICK i \in 1..Depth : stack[i].current = v /\ m \in stack[i].left
    BY <1>4 DEF SearchInv, Swept
  <2> QED
    BY <1>1, <1>3, <2>1
<1>8. Cleared' /\ Answered'
  BY <1>1, <1>2, <1>4 DEF SearchInv, Cleared, Answered
<1> QED
  BY <1>2, <1>3, <1>5, <1>6, <1>7, <1>8 DEF SearchInv

\* dfs calls itself for a neighbour.
LEMMA OneDeeper ==
    ASSUME SearchInv, NEW n \in Row, Descend(n)
    PROVE  SearchInv'
<1>1. TypeOK /\ stack # <<>> /\ n \notin visited /\ n # taskID /\ n \in Innermost.left
  BY DEF SearchInv, Descend
<1>2. /\ stack' = Append(Past(n), Calls(n)) /\ visited' = visited \cup {n}
      /\ UNCHANGED <<edges, taskID, newDeps, untried, answer>>
  BY DEF Descend, edit
<1>3. /\ Depth \in Nat \ {0} /\ Past(n) \in Seq(Call) /\ Len(Past(n)) = Depth
      /\ \A i \in 1..Depth :
            /\ Past(n)[i].current = stack[i].current
            /\ Past(n)[i].left = IF i = Depth THEN stack[i].left \ {n} ELSE stack[i].left
  BY <1>1, PastOne
<1>4. /\ edges \in [Row -> SUBSET Row] /\ Calls(n) \in Call
      /\ Calls(n).current = n /\ Calls(n).left = edges[n]
  BY <1>1, CallOf
<1> HIDE DEF Calls, Past
<1>5. /\ stack' \in Seq(Call) /\ Depth' = Depth + 1 /\ stack' # <<>>
      /\ \A i \in 1..Depth : stack'[i] = Past(n)[i]
      /\ stack'[Depth + 1] = Calls(n)
  BY <1>2, <1>3, <1>4 DEF Depth
<1>6. /\ \A i \in 1..Depth :
            /\ stack'[i].current = stack[i].current
            /\ stack'[i].left = IF i = Depth THEN stack[i].left \ {n} ELSE stack[i].left
      /\ stack'[Depth + 1].current = n /\ stack'[Depth + 1].left = edges[n]
      /\ Depth' = Depth + 1 /\ Depth \in Nat \ {0}
      /\ \A i \in 1..Depth' : i \in 1..Depth \/ i = Depth + 1
  <2>1. \A i \in 1..Depth :
            /\ stack'[i].current = stack[i].current
            /\ stack'[i].left = IF i = Depth THEN stack[i].left \ {n} ELSE stack[i].left
    BY <1>3, <1>5
  <2>2. \A i \in 1..Depth' : i \in 1..Depth \/ i = Depth + 1
    BY <1>3, <1>5
  <2> QED
    BY <1>3, <1>4, <1>5, <2>1, <2>2
<1>7. answer = "none"
  BY <1>1 DEF SearchInv, Answered, TypeOK
<1>8. TypeOK'
  BY <1>1, <1>2, <1>5 DEF TypeOK
<1>9. Traced'
  <2>1. PICK d \in newDeps : Leads(edges, d, stack[Depth].current)
    BY <1>6 DEF SearchInv, Traced
  <2>2. stack[Depth].current \in Row /\ n \in edges[stack[Depth].current]
    <3>1. stack[Depth] \in Call /\ Depth \in 1..Depth
      BY <1>1, <1>6, ElementOfSeq DEF TypeOK, Depth
    <3> QED
      BY <1>1, <3>1 DEF SearchInv, Traced, Call, Innermost
  <2>3. Leads(edges, d, n)
    BY <2>1, <2>2, LeadsOn
  <2>4. \A i \in 1..Depth :
            /\ \E e \in newDeps : Leads(edges, e, stack[i].current)
            /\ stack[i].left \subseteq edges[stack[i].current]
    BY DEF SearchInv, Traced
  <2> QED
    BY <1>2, <1>6, <2>3, <2>4 DEF Traced
<1>10. Swept'
  <2>1. ASSUME NEW v \in visited \cup {n}, NEW m \in edges[v], m \notin visited \cup {n}
        PROVE  \E i \in 1..Depth' : stack'[i].current = v /\ m \in stack'[i].left
    <3>1. CASE v = n
      <4>1. Depth + 1 \in 1..Depth'
        BY <1>6
      <4> QED
        BY <1>6, <2>1, <3>1, <4>1
    <3>2. CASE v # n
      <4>1. PICK i \in 1..Depth : stack[i].current = v /\ m \in stack[i].left
        BY <1>7, <2>1, <3>2 DEF SearchInv, Swept
      <4>2. stack'[i].current = v /\ m \in stack'[i].left
        BY <1>6, <2>1, <4>1
      <4>3. i \in 1..Depth'
        BY <1>6
      <4> QED
        BY <4>2, <4>3
    <3> QED
      BY <2>1, <3>1, <3>2
  <2>2. taskID' \notin visited' /\ visited' = visited \cup {n} /\ edges' = edges
    BY <1>1, <1>2 DEF SearchInv, Swept
  <2> QED
    BY <2>1, <2>2 DEF Swept
<1>11. Cleared' /\ Answered'
  BY <1>1, <1>2, <1>5, <1>7 DEF SearchInv, Cleared, Answered
<1>12. Depth' <= Cardinality(visited')
  <2>1. /\ IsFiniteSet(visited) /\ Cardinality(visited) \in Nat /\ Depth <= Cardinality(visited)
    BY <1>1, VisitedCount DEF SearchInv
  <2>2. Cardinality(visited') = Cardinality(visited) + 1
    BY <1>1, <1>2, <2>1, FS_AddElement
  <2> QED
    BY <1>6, <2>1, <2>2
<1> QED
  BY <1>8, <1>9, <1>10, <1>11, <1>12 DEF SearchInv

\* A call has no neighbour left, and returns.
LEMMA CallReturns ==
    ASSUME SearchInv, Return
    PROVE  SearchInv'
<1>1. TypeOK /\ stack # <<>> /\ stack[Depth].left = {} /\ stack \in Seq(Call)
  BY DEF SearchInv, Return, Innermost, TypeOK
<1>2. /\ stack' = SubSeq(stack, 1, Depth - 1)
      /\ UNCHANGED <<edges, taskID, newDeps, untried, visited, answer>>
  BY DEF Return, edit
<1>3. Depth \in Nat \ {0} /\ \A i \in 1..Depth : stack[i] \in Call
  BY <1>1, EmptySeq, ElementOfSeq DEF Depth
<1>4. /\ stack' \in Seq(Call) /\ Depth' = Depth - 1
      /\ \A i \in 1..Depth - 1 : stack'[i] = stack[i]
  <2>1. \A i \in 1..Depth - 1 : stack[i] \in Call
    BY <1>3
  <2> HIDE DEF Depth
  <2>2. /\ SubSeq(stack, 1, Depth - 1) \in Seq(Call)
        /\ Len(SubSeq(stack, 1, Depth - 1)) = IF 1 <= Depth - 1 THEN (Depth - 1) - 1 + 1 ELSE 0
        /\ \A i \in 1..(Depth - 1) - 1 + 1 : SubSeq(stack, 1, Depth - 1)[i] = stack[1 + i - 1]
    BY <1>3, <2>1, SubSeqProperties
  <2>3. Depth' = Len(SubSeq(stack, 1, Depth - 1))
    BY <1>2 DEF Depth
  <2> QED
    BY <1>2, <1>3, <2>2, <2>3
<1>5. answer = "none"
  BY <1>1 DEF SearchInv, Answered, TypeOK
<1>6. TypeOK'
  BY <1>1, <1>2, <1>4 DEF TypeOK
<1>7. Traced'
  BY <1>2, <1>3, <1>4 DEF SearchInv, Traced
<1>8. Swept'
  <2> SUFFICES ASSUME NEW v \in visited, NEW m \in edges[v], m \notin visited
               PROVE  \E i \in 1..Depth - 1 : stack'[i].current = v /\ m \in stack'[i].left
    BY <1>2, <1>4 DEF SearchInv, Swept
  <2>1. PICK i \in 1..Depth : stack[i].current = v /\ m \in stack[i].left
    BY <1>5 DEF SearchInv, Swept
  <2>2. i \in 1..Depth - 1
    BY <1>1, <1>3, <2>1
  <2> QED
    BY <1>4, <2>1, <2>2
<1>9. Cleared'
  <2>1. CASE stack' # <<>>
    BY <1>1, <1>2, <2>1 DEF SearchInv, Cleared
  <2>2. CASE stack' = <<>>
    <3>1. Depth' = 0
      BY <2>2 DEF Depth
    <3>2. Closed(edges, visited) /\ visited \in SUBSET Row /\ taskID \notin visited
      BY <1>1, <1>2, <1>5, <1>8, <3>1 DEF Swept, Closed, TypeOK
    <3>3. \A d \in visited : ~Leads(edges, d, taskID)
      BY <3>2, LeadsInside
    <3> QED
      BY <1>2, <3>3 DEF SearchInv, Cleared
  <2> QED
    BY <2>1, <2>2
<1>10. Answered'
  BY <1>2, <1>5 DEF Answered
<1>11. Depth' <= Cardinality(visited')
  BY <1>1, <1>2, <1>3, <1>4, VisitedCount DEF SearchInv
<1> QED
  BY <1>6, <1>7, <1>8, <1>9, <1>10, <1>11 DEF SearchInv

\* The invariant holds throughout the check.
THEOREM SearchInvariance == Spec => []SearchInv
<1>1. Init => SearchInv
  <2> SUFFICES ASSUME Init PROVE SearchInv
    OBVIOUS
  <2>1. stack \in Seq(Call) /\ Depth = 0 /\ Cardinality(visited) = 0
    BY EmptySeq, FS_EmptySet DEF Init, Depth
  <2>2. TypeOK
    BY <2>1 DEF Init, TypeOK
  <2> QED
    BY <2>1, <2>2 DEF Init, SearchInv, Traced, Swept, Cleared, Answered
<1>2. SearchInv /\ [Next]_vars => SearchInv'
  <2> SUFFICES ASSUME SearchInv, [Next]_vars PROVE SearchInv'
    OBVIOUS
  <2>1. CASE UNCHANGED vars
    BY <2>1 DEF vars, edit, SearchInv, TypeOK, Traced, Swept, Cleared, Answered, Depth
  <2>2. ASSUME NEW d \in untried, Refuse(d) PROVE SearchInv'
    <3>1. /\ answer' = "refused" /\ untried' = untried \ {d}
          /\ UNCHANGED <<edges, taskID, newDeps, stack, visited>>
          /\ stack = <<>> /\ d = taskID
      BY <2>2 DEF Refuse, edit
    <3>2. d \in newDeps /\ Leads(edges, d, taskID)
      BY <2>2, <3>1, LeadsOn DEF SearchInv, TypeOK
    <3> QED
      BY <3>1, <3>2
         DEF SearchInv, TypeOK, Traced, Swept, Cleared, Answered, Depth
  <2>3. CASE Accept
    <3>1. /\ answer' = "accepted" /\ answer = "none" /\ stack = <<>> /\ untried = {}
          /\ UNCHANGED <<edges, taskID, newDeps, untried, stack, visited>>
      BY <2>3 DEF Accept, edit
    <3> QED
      BY <3>1 DEF SearchInv, TypeOK, Traced, Swept, Cleared, Answered, Depth
  <2> QED
    BY <2>1, <2>2, <2>3, SearchStarts, TargetReached, LoopGoesOn, OneDeeper, CallReturns
       DEF Next
<1> QED
  BY <1>1, <1>2, PTL DEF Spec

\* The search finds what is reachable, no more and no less, in every graph.
THEOREM SearchExact == Spec => []SearchIsExact
<1>1. SearchInv => SearchIsExact
  BY DEF SearchInv, Answered, Cleared, SearchIsExact
<1> QED
  BY <1>1, SearchInvariance, PTL

\* An edit of an acyclic graph is refused if and only if it would close a cycle.
THEOREM RefusalExact == Spec => []RefusalIsExact
<1>1. SearchInv => RefusalIsExact
  <2> SUFFICES ASSUME SearchInv, Acyclic(edges), answer # "none"
               PROVE  answer = "refused" <=> ~Acyclic([edges EXCEPT ![taskID] = newDeps])
    BY DEF RefusalIsExact
  <2>1. /\ edges \in [Row -> SUBSET Row] /\ taskID \in Row /\ newDeps \in SUBSET Row
        /\ answer \in {"refused", "accepted"}
    BY GraphAssumption DEF SearchInv, TypeOK
  <2>2. answer = "refused" <=> \E d \in newDeps : Leads(edges, d, taskID)
    BY <2>1 DEF SearchInv, Answered, Cleared
  <2> QED
    BY <2>1, <2>2, EditClosesCycle
<1> QED
  BY <1>1, SearchInvariance, PTL

\* The recursion goes no deeper than there are rows.
THEOREM RecursionBounded == Spec => []RecursionIsBounded
<1>1. SearchInv => RecursionIsBounded
  <2> SUFFICES ASSUME SearchInv PROVE RecursionIsBounded
    OBVIOUS
  <2>1. Depth \in Nat
    BY LenProperties DEF SearchInv, TypeOK, Depth
  <2> QED
    BY <2>1, VisitedCount DEF SearchInv, RecursionIsBounded
<1> QED
  BY <1>1, SearchInvariance, PTL
=============================================================================
