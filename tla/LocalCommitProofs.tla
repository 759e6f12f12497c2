-------------------------- MODULE LocalCommitProofs --------------------------
(***************************************************************************)
(* Theorems about local commit mode, for every fleet of agents, planner,   *)
(* ladder and naming of branches, with any number of rows, sessions and    *)
(* verbs at once.                                                          *)
(***************************************************************************)
EXTENDS LocalCommit, TaskBoardOrder

-----------------------------------------------------------------------------
(* Prefixes.                                                               *)

\* IsPrefix, entry by entry.
LEMMA PrefixByEntry ==
    ASSUME NEW S, NEW s \in Seq(S), NEW t \in Seq(S)
    PROVE  IsPrefix(s, t) <=>
            Len(s) <= Len(t) /\ \A i \in 1..Len(s) : s[i] = t[i]
<1>1. Len(s) \in Nat /\ Len(t) \in Nat
  BY LenProperties
<1>2. SubSeq(s, 1, Len(s)) = s
  BY <1>1, SubSeqProperties, SeqEqual
<1>3. CASE Len(s) <= Len(t)
  <2> DEFINE h == SubSeq(t, 1, Len(s))
  <2>1. h \in Seq(S) /\ Len(h) = Len(s) /\ \A i \in 1..Len(s) : h[i] = t[i]
    BY <1>1, <1>3, SubSeqProperties
  <2> HIDE DEF h
  <2>2. s = h <=> \A i \in 1..Len(s) : s[i] = h[i]
    BY <2>1, SeqEqual
  <2> QED
    BY <1>2, <1>3, <2>1, <2>2 DEF IsPrefix, h
<1> QED
  BY <1>1, <1>3 DEF IsPrefix

\* Being ahead is an order on histories.
LEMMA PrefixChain ==
    ASSUME NEW S, NEW s \in Seq(S), NEW t \in Seq(S), NEW u \in Seq(S),
           IsPrefix(s, t), IsPrefix(t, u)
    PROVE  IsPrefix(s, u)
<1>1. Len(s) \in Nat /\ Len(t) \in Nat /\ Len(u) \in Nat
  BY LenProperties
<1>2. Len(s) <= Len(t) /\ \A i \in 1..Len(s) : s[i] = t[i]
  BY PrefixByEntry
<1>3. Len(t) <= Len(u) /\ \A i \in 1..Len(t) : t[i] = u[i]
  BY PrefixByEntry
<1>4. \A i \in 1..Len(s) : s[i] = u[i]
  BY <1>1, <1>2, <1>3
<1> QED
  BY <1>1, <1>2, <1>3, <1>4, PrefixByEntry

\* A history is ahead of itself.
LEMMA PrefixOfItself ==
    ASSUME NEW S, NEW s \in Seq(S)
    PROVE  IsPrefix(s, s)
  BY PrefixByEntry, LenProperties

\* A commit on top keeps what was below it.
LEMMA PrefixOfCommitted ==
    ASSUME NEW S, NEW s \in Seq(S), NEW t \in Seq(S), NEW x \in S, IsPrefix(s, t)
    PROVE  Append(t, x) \in Seq(S) /\ IsPrefix(s, Append(t, x))
<1>1. Len(s) \in Nat /\ Len(t) \in Nat
  BY LenProperties
<1>2. /\ Append(t, x) \in Seq(S) /\ Len(Append(t, x)) = Len(t) + 1
      /\ \A i \in 1..Len(t) : Append(t, x)[i] = t[i]
  BY AppendProperties
<1>3. Len(s) <= Len(t) /\ \A i \in 1..Len(s) : s[i] = t[i]
  BY PrefixByEntry
<1> DEFINE u == Append(t, x)
<1>4. u \in Seq(S) /\ Len(s) <= Len(u) /\ \A i \in 1..Len(s) : s[i] = u[i]
  BY <1>1, <1>2, <1>3
<1> HIDE DEF u
<1>5. IsPrefix(s, u)
  BY <1>4, PrefixByEntry
<1> QED
  BY <1>4, <1>5 DEF u

\* A commit amended keeps what was below it.
LEMMA PrefixOfAmended ==
    ASSUME NEW S, NEW s \in Seq(S), NEW t \in Seq(S), NEW x \in S,
           IsPrefix(s, t), s # t
    PROVE  /\ Front(t) \in Seq(S) /\ IsPrefix(s, Front(t))
<1>1. Len(s) \in Nat /\ Len(t) \in Nat
  BY LenProperties
<1>2. Len(s) <= Len(t) /\ \A i \in 1..Len(s) : s[i] = t[i]
  BY PrefixByEntry
<1>3. Len(s) < Len(t)
  <2> SUFFICES ASSUME Len(s) = Len(t) PROVE FALSE
    BY <1>1, <1>2
  <2> QED
    BY <1>1, <1>2, SeqEqual
<1>4. /\ Front(t) \in Seq(S) /\ Len(Front(t)) = Len(t) - 1
      /\ \A i \in 1..Len(t) - 1 : Front(t)[i] = t[i]
  <2> DEFINE n == Len(t) - 1
  <2>1. n \in Nat /\ 1 \in Int /\ \A i \in 1..n : t[i] \in S
    BY <1>1, <1>3, ElementOfSeq
  <2> HIDE DEF n
  <2>2. /\ SubSeq(t, 1, n) \in Seq(S) /\ Len(SubSeq(t, 1, n)) = n
        /\ \A i \in 1..n : SubSeq(t, 1, n)[i] = t[i]
    BY <1>1, <2>1, SubSeqProperties
  <2> QED
    BY <2>2 DEF Front, n
<1> DEFINE u == Front(t)
<1>5. u \in Seq(S) /\ Len(s) <= Len(u) /\ \A i \in 1..Len(s) : s[i] = u[i]
  BY <1>1, <1>2, <1>3, <1>4
<1> HIDE DEF u
<1>6. IsPrefix(s, u)
  BY <1>5, PrefixByEntry
<1> QED
  BY <1>5, <1>6 DEF u

\* A commit on top of a history, or in place of its last one: what is on it then.
LEMMA OnTop ==
    ASSUME NEW S, NEW h \in Seq(S) \ {<<>>}, NEW x \in S
    PROVE  /\ Front(h) \in Seq(S) /\ Last(h) \in Range(h) /\ Last(h) \in S
           /\ Range(h) = Range(Front(h)) \cup {Last(h)}
           /\ Append(h, x) \in Seq(S) \ {<<>>} /\ Append(Front(h), x) \in Seq(S) \ {<<>>}
           /\ Range(Append(h, x)) = Range(h) \cup {x}
           /\ Range(Append(Front(h), x)) = Range(Front(h)) \cup {x}
<1>1. Len(h) \in Nat /\ Len(h) # 0 /\ DOMAIN h = 1..Len(h)
  BY LenProperties, EmptySeq
<1>2. /\ Front(h) \in Seq(S) /\ Len(Front(h)) = Len(h) - 1
      /\ \A i \in 1..Len(h) - 1 : Front(h)[i] = h[i]
  <2> DEFINE n == Len(h) - 1
  <2>1. n \in Nat /\ 1 \in Int /\ \A i \in 1..n : h[i] \in S
    BY <1>1, ElementOfSeq
  <2> HIDE DEF n
  <2>2. /\ SubSeq(h, 1, n) \in Seq(S) /\ Len(SubSeq(h, 1, n)) = n
        /\ \A i \in 1..n : SubSeq(h, 1, n)[i] = h[i]
    BY <1>1, <2>1, SubSeqProperties
  <2> QED
    BY <2>2 DEF Front, n
<1>3. Last(h) \in Range(h) /\ Last(h) \in S
  BY <1>1, ElementOfSeq DEF Last, Range
<1>4. ASSUME NEW g \in Seq(S)
      PROVE  Append(g, x) \in Seq(S) \ {<<>>} /\ Range(Append(g, x)) = Range(g) \cup {x}
  <2> DEFINE k == Append(g, x)
  <2>1. /\ k \in Seq(S) /\ Len(g) \in Nat /\ Len(k) = Len(g) + 1
        /\ \A i \in 1..Len(g) : k[i] = g[i]
        /\ k[Len(g) + 1] = x
    BY AppendProperties, LenProperties
  <2> HIDE DEF k
  <2>2. k # <<>>
    BY <2>1, EmptySeq
  <2>3. DOMAIN k = 1..Len(g) + 1 /\ DOMAIN g = 1..Len(g)
    BY <2>1, LenProperties
  <2>4. Range(k) = Range(g) \cup {x}
    BY <2>1, <2>3 DEF Range
  <2> QED
    BY <2>1, <2>2, <2>4 DEF k
<1>5. Range(h) = Range(Front(h)) \cup {Last(h)}
  <2> DEFINE f == Front(h)
  <2>1. DOMAIN f = 1..Len(h) - 1
    BY <1>2, LenProperties
  <2>2. \A i \in 1..Len(h) - 1 : f[i] = h[i]
    BY <1>2
  <2> HIDE DEF f
  <2>3. 1..Len(h) = (1..Len(h) - 1) \cup {Len(h)}
    BY <1>1
  <2>4. Range(h) = Range(f) \cup {h[Len(h)]}
    BY <1>1, <2>1, <2>2, <2>3 DEF Range
  <2> QED
    BY <2>4 DEF f, Last
<1> QED
  BY <1>2, <1>3, <1>4, <1>5

\* What is on a history, one that is ahead of it has too.
LEMMA RangeAhead ==
    ASSUME NEW S, NEW g \in Seq(S), NEW h \in Seq(S), IsPrefix(g, h)
    PROVE  Range(g) \subseteq Range(h)
<1>1. Len(g) \in Nat /\ Len(h) \in Nat /\ DOMAIN g = 1..Len(g) /\ DOMAIN h = 1..Len(h)
  BY LenProperties
<1>2. Len(g) <= Len(h) /\ \A i \in 1..Len(g) : g[i] = h[i]
  BY PrefixByEntry
<1> QED
  BY <1>1, <1>2 DEF Range

-----------------------------------------------------------------------------
(* The invariant.                                                          *)

\* Whoever works works on a row of the table, whoever named a commit names one that was
\* made, and the MR branch a session has resolved is there.
SessionOK(s) ==
    /\ s \in Session
    /\ s.row \in Id \cup {NoTask}
    /\ s.at # "idle" => s.row \in Id
    /\ s.sha \in objects
    /\ s.at \in {"resolved", "submitting"} /\ s.tip = "mr" => SlugOf(s.row) \in DOMAIN mr

SessionsOK == session \in [Agent -> Session] /\ \A a \in Agent : SessionOK(session[a])

VerbsOK == verb \in [DOMAIN verb -> Step] /\ DOMAIN verb \subseteq Id

BranchesOK ==
    /\ mr \in [DOMAIN mr -> History]
    /\ wip \in [DOMAIN wip -> History] /\ DOMAIN wip \subseteq Id
    /\ base \in [DOMAIN base -> History] /\ DOMAIN base = DOMAIN wip
    /\ worktree \in [DOMAIN worktree -> Changes]
    /\ DOMAIN worktree \subseteq DOMAIN wip
    /\ objects \subseteq Commit /\ IsFiniteSet(objects) /\ MainHead \in objects
    /\ rewritten \subseteq objects
    /\ lost \subseteq History

\* Branches are of commits that were made.
Made ==
    /\ \A s \in DOMAIN mr : Range(mr[s]) \subseteq objects
    /\ \A t \in DOMAIN wip : Range(wip[t]) \subseteq objects

LinksOK ==
    /\ checkedOut \subseteq DOMAIN mr
    /\ linked \subseteq [row : Id, sha : objects]

\* Until an MR branch has lost a commit, MR branches are ahead of main, and where a wip
\* branch last met its MR branch both still are, or the wip branch has replaced a
\* commit that was published.
Based ==
    lost = {} =>
        /\ \A s \in DOMAIN mr : IsPrefix(OriginMain, mr[s])
        /\ \A t \in DOMAIN wip :
            /\ IsPrefix(base[t], Tip(t))
            /\ IsPrefix(base[t], wip[t]) \/ Range(wip[t]) \cap rewritten # {}

BranchInv == BranchesOK /\ Made /\ Based
LInv == Inv /\ SessionsOK /\ VerbsOK /\ BranchInv /\ LinksOK

\* Nothing that was there to be referred to goes.
Grows ==
    /\ Len(task) \in Nat /\ Len(task') \in Nat /\ Len(task) <= Len(task')
    /\ objects \subseteq objects'
    /\ DOMAIN mr \subseteq DOMAIN mr'

-----------------------------------------------------------------------------
(* The board, seen from local mode.                                        *)

\* Each step of local mode is a step of the board or leaves the board alone: a
\* session submits for a row of the table, and with a commit it submits no link the
\* board knows of.
LEMMA BoardSteps ==
    ASSUME LInv, [LocalNext]_localvars
    PROVE  [Next]_vars
<1> USE DEF AgentStep
<1>1. CASE UNCHANGED localvars
  BY <1>1 DEF localvars, vars
<1>2. CASE BoardStep
  BY <1>2 DEF BoardStep, Next
<1>3. ASSUME NEW a \in Agent, SessionStep(a) PROVE [Next]_vars
  <2>1. session[a].at # "idle" => session[a].row \in Id
    BY DEF LInv, SessionsOK, SessionOK
  <2>2. {} \in Submissions /\ {"no_op"} \in Submissions
    BY LocalSubmissions
  <2>3. ASSUME NEW t \in Id, NEW model \in ModelName, ClaimWork(t, a, model)
        PROVE  Next
    BY <2>3 DEF ClaimWork, Next
  <2>4. CASE SubmitCommit(a)
    <3>1. session[a].row \in Id
      BY <2>1, <2>4 DEF SubmitCommit
    <3>2. SubmitWork(session[a].row, a, {}) => Next
      BY <3>1, <2>2 DEF Next
    <3> QED
      BY <3>2, <2>4 DEF SubmitCommit, vars
  <2>5. CASE SubmitNoOp(a)
    <3>1. session[a].row \in Id
      BY <2>1, <2>5 DEF SubmitNoOp
    <3>2. SubmitWork(session[a].row, a, {"no_op"}) => Next
      BY <3>1, <2>2 DEF Next
    <3> QED
      BY <3>2, <2>5 DEF SubmitNoOp, vars
  <2>6. CASE \/ ResolveTip(a) \/ AddWorktree(a) \/ Edit(a) \/ CheckRework(a) \/ StageAll(a)
            \/ CommitStaged(a) \/ RevParse(a) \/ SessionEnds(a)
    BY <2>6 DEF ResolveTip, AddWorktree, Edit, CheckRework, StageAll, CommitStaged, RevParse,
                 SessionEnds, vars
  <2> QED
    BY <1>3, <2>3, <2>4, <2>5, <2>6 DEF SessionStep
<1>4. ASSUME NEW t \in Id, VerbStep(t) PROVE [Next]_vars
  <2>1. ASSUME Transition(t) PROVE [Next]_vars
    <3>1. ASSUME NEW to \in State, TransitionTask(t, to) PROVE Next
      BY <3>1 DEF Next
    <3>2. "done" \in State /\ "ready" \in State /\ "failed" \in State
      BY DEF State
    <3>3. UNCHANGED task \/ \E to \in State : TransitionTask(t, to)
      BY <2>1, <3>2 DEF Transition
    <3> QED
      BY <3>1, <3>3 DEF vars
  <2>2. CASE ~Transition(t)
    <3> USE <2>2
    <3>1. ASSUME NEW step, ReadTask(t, step) PROVE UNCHANGED vars
      BY <3>1 DEF ReadTask, vars
    <3>2. CASE FreezeOnly(t) \/ FreezeGuard(t) \/ FreezeAdvance(t) \/ FreezeRemove(t)
      BY <3>2 DEF FreezeOnly, FreezeGuard, FreezeAdvance, FreezeRemove, vars
    <3>3. CASE FreezeDelete(t) \/ CleanupRemove(t) \/ CleanupDelete(t) \/ VerbEnds(t)
      BY <3>3 DEF FreezeDelete, CleanupRemove, CleanupDelete, WipDeleted, VerbEnds, vars
    <3> QED
      BY <1>4, <3>1, <3>2, <3>3 DEF VerbStep
  <2> QED
    BY <2>1, <2>2
<1>5. ASSUME NEW s, Checkout(s) PROVE [Next]_vars
  BY <1>5 DEF Checkout, vars
<1> QED
  BY <1>1, <1>2, <1>3, <1>4, <1>5 DEF LocalNext

-----------------------------------------------------------------------------
(* The branches.                                                           *)

\* Steps that change worktrees and no branch, or nothing at all.
LEMMA WorktreeChanges ==
    ASSUME LInv, Grows, UNCHANGED <<mr, wip, objects, base, rewritten, lost>>,
           worktree' \in [DOMAIN worktree' -> Changes],
           DOMAIN worktree' \subseteq DOMAIN wip
    PROVE  BranchInv'
<1>1. BranchesOK'
  BY DEF LInv, BranchInv, BranchesOK, Grows, Id
<1>2. Made'
  BY DEF LInv, BranchInv, Made
<1>3. \A t : Tip(t)' = Tip(t)
  BY DEF Tip, Named, TipName
<1>4. Based'
  BY <1>3 DEF LInv, BranchInv, Based
<1> QED
  BY <1>1, <1>2, <1>4 DEF BranchInv

\* What a step does to the branches that is none of the invariant's business.
LEMMA SameBranches ==
    ASSUME LInv, Grows, UNCHANGED branches
    PROVE  BranchInv'
<1>1. UNCHANGED <<mr, wip, worktree, objects, base, rewritten, lost>>
  BY DEF branches
<1>2. worktree' \in [DOMAIN worktree' -> Changes] /\ DOMAIN worktree' \subseteq DOMAIN wip
  BY <1>1 DEF LInv, BranchInv, BranchesOK
<1> QED
  BY <1>1, <1>2, WorktreeChanges

\* The main branch has one commit here.
LEMMA MainIsHistory ==
    /\ MainHead \in Commit /\ OriginMain \in History
    /\ Range(OriginMain) = {MainHead} /\ IsPrefix(OriginMain, OriginMain)
<1>1. MainHead \in Commit
  BY DEF MainHead, Commit, NoTask
<1> HIDE DEF MainHead
<1>2. OriginMain \in Seq(Commit) /\ Len(OriginMain) = 1 /\ OriginMain[1] = MainHead
  BY <1>1 DEF OriginMain
<1>3. OriginMain # <<>>
  BY <1>2, EmptySeq
<1>4. DOMAIN OriginMain = 1..1
  BY <1>2, LenProperties
<1>5. Range(OriginMain) = {MainHead}
  BY <1>2, <1>4 DEF Range
<1> QED
  BY <1>1, <1>2, <1>3, <1>5, PrefixOfItself DEF History

\* The tip of a slug is a history, with or without an MR branch, and ahead of main until
\* something was lost.
LEMMA TipIsHistory ==
    ASSUME BranchInv, NEW t
    PROVE  /\ Tip(t) \in History /\ Range(Tip(t)) \subseteq objects
           /\ lost = {} => IsPrefix(OriginMain, Tip(t))
<1>1. CASE SlugOf(t) \in DOMAIN mr
  <2>1. Tip(t) = mr[SlugOf(t)]
    BY <1>1 DEF Tip, Named, TipName
  <2> QED
    BY <1>1, <2>1 DEF BranchInv, BranchesOK, Made, Based
<1>2. CASE SlugOf(t) \notin DOMAIN mr
  <2>1. Tip(t) = OriginMain
    BY <1>2 DEF Tip, Named, TipName
  <2> QED
    BY <2>1, MainIsHistory DEF BranchInv, BranchesOK
<1> QED
  BY <1>1, <1>2

\* What a session has resolved is a history that is behind the tip of its slug.
LEMMA NamedIsBehind ==
    ASSUME BranchInv, NEW t, NEW tip, tip = "mr" => SlugOf(t) \in DOMAIN mr
    PROVE  /\ Named(t, tip) \in History /\ Range(Named(t, tip)) \subseteq objects
           /\ lost = {} => IsPrefix(Named(t, tip), Tip(t))
<1>1. CASE tip = "mr"
  <2>1. Named(t, tip) = Tip(t)
    BY <1>1 DEF Tip, Named, TipName
  <2>2. Tip(t) \in History
    BY TipIsHistory
  <2>3. IsPrefix(Tip(t), Tip(t))
    BY <2>2, PrefixOfItself DEF History
  <2> QED
    BY <2>1, <2>3, TipIsHistory
<1>2. CASE tip # "mr"
  <2>1. Named(t, tip) = OriginMain
    BY <1>2 DEF Named
  <2> QED
    BY <2>1, TipIsHistory, MainIsHistory DEF BranchInv, BranchesOK
<1> QED
  BY <1>1, <1>2

\* A new worktree starts where its MR branch is, or, if the session saw none, at
\* origin/main.
LEMMA AddWorktreeBranches ==
    ASSUME LInv, Grows, NEW a \in Agent, AddWorktree(a)
    PROVE  BranchInv'
<1> DEFINE t == session[a].row
           tip == Named(t, session[a].tip)
<1>1. t \in Id /\ (session[a].tip = "mr" => SlugOf(t) \in DOMAIN mr)
  BY DEF AddWorktree, LInv, SessionsOK, SessionOK
<1>2. /\ BranchesOK /\ tip \in History /\ Range(tip) \subseteq objects
      /\ lost = {} => IsPrefix(tip, Tip(t))
  BY <1>1, NamedIsBehind DEF LInv, BranchInv
<1>3. CASE UNCHANGED branches
  BY <1>3, SameBranches
<1>4. CASE ~UNCHANGED branches
  <2>1. /\ t \notin DOMAIN worktree /\ t \notin DOMAIN wip
        /\ wip' = With(wip, t, tip) /\ base' = With(base, t, tip)
        /\ worktree' = With(worktree, t, {})
        /\ UNCHANGED <<mr, objects, rewritten, lost>>
    BY <1>4 DEF AddWorktree
  <2> HIDE DEF t, tip
  <2>2. /\ wip' \in [DOMAIN wip' -> History] /\ DOMAIN wip' = DOMAIN wip \cup {t}
        /\ \A x \in DOMAIN wip' : wip'[x] = IF x = t THEN tip ELSE wip[x]
    <3>1. wip \in [DOMAIN wip -> History]
      BY <1>2 DEF BranchesOK
    <3> QED
      BY <3>1, <1>2, <2>1 DEF With
  <2>3. /\ base' \in [DOMAIN base' -> History] /\ DOMAIN base' = DOMAIN wip \cup {t}
        /\ \A x \in DOMAIN wip' : base'[x] = IF x = t THEN tip ELSE base[x]
    <3>1. base \in [DOMAIN base -> History] /\ DOMAIN base = DOMAIN wip
      BY <1>2 DEF BranchesOK
    <3> QED
      BY <3>1, <1>2, <2>1, <2>2 DEF With
  <2>4. /\ worktree' \in [DOMAIN worktree' -> Changes]
        /\ DOMAIN worktree' = DOMAIN worktree \cup {t}
    <3>1. worktree \in [DOMAIN worktree -> Changes] /\ {} \in Changes
      BY <1>2 DEF BranchesOK, Changes
    <3> QED
      BY <3>1, <2>1 DEF With
  <2>5. BranchesOK'
    BY <1>1, <1>2, <2>1, <2>2, <2>3, <2>4 DEF BranchesOK, Grows, Id
  <2>6. Made'
    BY <1>2, <2>1, <2>2 DEF LInv, BranchInv, Made
  <2>7. \A u : Tip(u)' = Tip(u)
    BY <2>1 DEF Tip, Named, TipName
  <2>8. IsPrefix(tip, tip)
    BY <1>2, PrefixOfItself DEF History
  <2>9. Based'
    BY <1>2, <2>1, <2>2, <2>3, <2>7, <2>8 DEF LInv, BranchInv, Based
  <2> QED
    BY <2>5, <2>6, <2>9 DEF BranchInv
<1> QED
  BY <1>3, <1>4

\* Editing and staging change files only.
LEMMA EditBranches ==
    ASSUME LInv, Grows, NEW a \in Agent, Edit(a) \/ StageAll(a)
    PROVE  BranchInv'
<1> DEFINE t == session[a].row
<1>1. /\ UNCHANGED <<mr, wip, objects, base, rewritten, lost>>
      /\ t \in DOMAIN worktree
      /\ \/ worktree' = [worktree EXCEPT ![t] = @ \cup {"edited"}]
         \/ worktree' = [worktree EXCEPT ![t] = IF @ = {} THEN {} ELSE {"staged"}]
  BY DEF Edit, StageAll
<1>2. worktree \in [DOMAIN worktree -> Changes] /\ DOMAIN worktree \subseteq DOMAIN wip
  BY DEF LInv, BranchInv, BranchesOK
<1>3. /\ worktree[t] \cup {"edited"} \in Changes
      /\ {} \in Changes /\ {"staged"} \in Changes
  BY <1>1, <1>2 DEF Changes
<1> HIDE DEF t
<1>4. worktree' \in [DOMAIN worktree -> Changes]
  BY <1>1, <1>2, <1>3
<1> QED
  BY <1>1, <1>2, <1>4, WorktreeChanges

\* The same of histories.
LEMMA OnHistory ==
    ASSUME NEW h \in History, NEW c \in Commit
    PROVE  /\ h \in Seq(Commit) /\ Front(h) \in Seq(Commit)
           /\ Last(h) \in Range(h) /\ Last(h) \in Commit
           /\ Range(h) = Range(Front(h)) \cup {Last(h)}
           /\ Append(h, c) \in History /\ Append(Front(h), c) \in History
           /\ Range(Append(h, c)) = Range(h) \cup {c}
           /\ Range(Append(Front(h), c)) = Range(Front(h)) \cup {c}
<1>1. h \in Seq(Commit) \ {<<>>} /\ History = Seq(Commit) \ {<<>>}
  BY DEF History
<1> HIDE DEF History
<1>2. /\ Front(h) \in Seq(Commit) /\ Last(h) \in Range(h) /\ Last(h) \in Commit
      /\ Range(h) = Range(Front(h)) \cup {Last(h)}
  BY <1>1, OnTop
<1>3. Append(h, c) \in History /\ Append(Front(h), c) \in History
  BY <1>1, OnTop
<1>4. /\ Range(Append(h, c)) = Range(h) \cup {c}
      /\ Range(Append(Front(h), c)) = Range(Front(h)) \cup {c}
  BY <1>1, OnTop
<1> QED
  BY <1>1, <1>2, <1>3, <1>4

\* The head of a branch replaced.  If that reaches below where the branch last met its
\* MR branch, the commit replaced is on both.
LEMMA AmendedIsBased ==
    ASSUME NEW g \in History, NEW h \in History, NEW tip \in History, NEW c \in Commit,
           NEW r, IsPrefix(g, tip),
           IsPrefix(g, h) \/ Range(h) \cap r # {}
    PROVE  \/ Last(h) \in Range(tip) \cup r
           \/ IsPrefix(g, Append(Front(h), c))
           \/ Range(Append(Front(h), c)) \cap r # {}
<1>1. /\ Range(h) = Range(Front(h)) \cup {Last(h)}
      /\ Range(Append(Front(h), c)) = Range(Front(h)) \cup {c}
      /\ Last(h) \in Range(h) /\ Front(h) \in Seq(Commit)
  BY OnTop DEF History
<1>2. CASE Range(h) \cap r # {}
  BY <1>1, <1>2
<1>3. CASE IsPrefix(g, h) /\ g = h
  <2>1. Range(g) \subseteq Range(tip)
    BY RangeAhead DEF History
  <2> QED
    BY <1>1, <1>3, <2>1
<1>4. CASE IsPrefix(g, h) /\ g # h
  <2>1. IsPrefix(g, Front(h))
    BY <1>4, PrefixOfAmended DEF History
  <2>2. IsPrefix(g, Append(Front(h), c))
    BY <1>1, <2>1, PrefixOfCommitted DEF History
  <2> QED
    BY <2>2
<1> QED
  BY <1>2, <1>3, <1>4

\* A commit on top, or the head amended.
LEMMA CommitBranches ==
    ASSUME LInv, NEW a \in Agent, CommitStaged(a), Len(task) \in Nat,
           NEW t, t = session[a].row, NEW c, c = NewCommit(t)
    PROVE  /\ BranchInv' /\ Grows
           /\ t \in DOMAIN wip /\ t \in Id
           /\ c \in Commit /\ c.row = t /\ c.n = Cardinality({d \in objects : d.row = t}) + 1
           /\ objects' = objects \cup {c}
           /\ \E h \in Seq(Commit) :
                Range(h) \subseteq Range(wip[t]) /\ wip' = [wip EXCEPT ![t] = Append(h, c)]
<1> DEFINE mine == {d \in objects : d.row = t}
           amend == session[a].rework
           h == wip[t]
           below == IF amend THEN Front(h) ELSE h
           top == Append(below, c)
           published == Last(h) \in Range(Tip(t)) \cup rewritten
<1>1. /\ t \in DOMAIN worktree
      /\ wip' = [wip EXCEPT ![t] = top]
      /\ objects' = objects \cup {c}
      /\ rewritten' = IF amend /\ published THEN rewritten \cup {c} ELSE rewritten
      /\ worktree' = [worktree EXCEPT ![t] = @ \ {"staged"}]
      /\ UNCHANGED <<task, mr, base, lost, checkedOut, linked, verb>>
  BY DEF CommitStaged, Amended
<1>2. /\ BranchesOK /\ t \in DOMAIN wip /\ t \in Nat /\ t \in Id
      /\ wip \in [DOMAIN wip -> History] /\ h \in History /\ h \in Seq(Commit) \ {<<>>}
      /\ base[t] \in History /\ Range(h) \subseteq objects
  BY <1>1 DEF LInv, BranchInv, BranchesOK, Made, Id, History
<1>3. Cardinality(mine) \in Nat
  <2>1. IsFiniteSet(objects) /\ mine \in SUBSET objects
    BY <1>2 DEF BranchesOK
  <2> HIDE DEF mine
  <2>2. IsFiniteSet(mine)
    BY <2>1, FS_Subset
  <2> QED
    BY <2>2, FS_CardinalityType
<1>4. c \in Commit /\ c.row = t /\ c.n = Cardinality(mine) + 1
  BY <1>2, <1>3 DEF Commit, NewCommit
<1> HIDE DEF mine
<1>5. /\ below \in Seq(Commit) /\ Range(below) \subseteq Range(h) /\ top \in History
      /\ Range(top) \subseteq Range(h) \cup {c} /\ c \in Range(top)
      /\ ~amend => top = Append(h, c) /\ Range(top) = Range(h) \cup {c}
      /\ amend => top = Append(Front(h), c)
  <2>1. /\ h \in Seq(Commit) /\ Front(h) \in Seq(Commit)
        /\ Range(h) = Range(Front(h)) \cup {Last(h)}
        /\ Append(h, c) \in History /\ Append(Front(h), c) \in History
        /\ Range(Append(h, c)) = Range(h) \cup {c}
        /\ Range(Append(Front(h), c)) = Range(Front(h)) \cup {c}
    <3> HIDE DEF h
    <3> QED
      BY <1>2, <1>4, OnHistory
  <2>2. CASE amend
    <3>1. below = Front(h) /\ top = Append(Front(h), c)
      BY <2>2
    <3> HIDE DEF below, top, h
    <3> QED
      BY <2>1, <2>2, <3>1
  <2>3. CASE ~amend
    <3>1. below = h /\ top = Append(h, c)
      BY <2>3
    <3> HIDE DEF below, top, h
    <3> QED
      BY <2>1, <2>3, <3>1
  <2> QED
    BY <2>2, <2>3
<1>6. Tip(t) \in History /\ \A u : Tip(u)' = Tip(u)
  BY <1>1, TipIsHistory DEF LInv, Tip, Named, TipName
<1>7. rewritten \subseteq rewritten' /\ rewritten' \subseteq rewritten \cup {c}
  BY <1>1
<1>8. lost = {} => IsPrefix(base[t], top) \/ Range(top) \cap rewritten' # {}
  <2> SUFFICES ASSUME lost = {}
               PROVE  IsPrefix(base[t], top) \/ Range(top) \cap rewritten' # {}
    OBVIOUS
  <2>1. /\ IsPrefix(base[t], Tip(t))
        /\ IsPrefix(base[t], h) \/ Range(h) \cap rewritten # {}
    BY <1>2 DEF LInv, BranchInv, Based
  <2>2. CASE ~amend
    <3>1. CASE IsPrefix(base[t], h)
      <4>1. IsPrefix(base[t], Append(h, c))
        BY <1>2, <1>4, <3>1, PrefixOfCommitted DEF History
      <4> QED
        BY <1>5, <2>2, <4>1
    <3>2. CASE Range(h) \cap rewritten # {}
      BY <1>5, <1>7, <2>2, <3>2
    <3> QED
      BY <2>1, <3>1, <3>2
  <2>3. CASE amend
    <3>1. \/ published
          \/ IsPrefix(base[t], Append(Front(h), c))
          \/ Range(Append(Front(h), c)) \cap rewritten # {}
      BY <1>2, <1>4, <1>6, <2>1, AmendedIsBased
    <3>2. published => c \in rewritten'
      BY <1>1, <2>3
    <3> QED
      BY <1>5, <1>7, <2>3, <3>1, <3>2
  <2> QED
    BY <2>2, <2>3
<1>9. \E g \in Seq(Commit) :
        Range(g) \subseteq Range(wip[t]) /\ wip' = [wip EXCEPT ![t] = Append(g, c)]
  <2> HIDE DEF below
  <2> QED
    BY <1>1, <1>5
<1> HIDE DEF top, below, published
<1>10. /\ DOMAIN wip' = DOMAIN wip /\ wip' \in [DOMAIN wip' -> History]
       /\ \A u \in DOMAIN wip : wip'[u] = IF u = t THEN top ELSE wip[u]
  BY <1>1, <1>2, <1>5
<1>11. BranchesOK'
  <2>1. /\ objects' \subseteq Commit /\ IsFiniteSet(objects') /\ MainHead \in objects'
        /\ rewritten' \subseteq objects'
    BY <1>1, <1>2, <1>4, <1>7, FS_AddElement DEF BranchesOK
  <2>2. worktree' \in [DOMAIN worktree -> Changes] /\ DOMAIN worktree' = DOMAIN worktree
    <3>1. worktree \in [DOMAIN worktree -> Changes]
      BY <1>2 DEF BranchesOK
    <3>2. worktree[t] \ {"staged"} \in Changes
      BY <1>1, <3>1 DEF Changes
    <3> QED
      BY <1>1, <3>1, <3>2
  <2> QED
    BY <1>1, <1>2, <1>10, <2>1, <2>2 DEF BranchesOK, Id
<1>12. Made'
  BY <1>1, <1>2, <1>5, <1>10 DEF LInv, BranchInv, Made
<1>13. Based'
  <2> SUFFICES ASSUME lost' = {}, NEW u \in DOMAIN wip'
               PROVE  /\ IsPrefix(base[u], Tip(u))
                      /\ IsPrefix(base[u], wip'[u]) \/ Range(wip'[u]) \cap rewritten' # {}
    BY <1>1, <1>6 DEF LInv, BranchInv, Based
  <2>1. /\ lost = {} /\ u \in DOMAIN wip /\ IsPrefix(base[u], Tip(u))
        /\ IsPrefix(base[u], wip[u]) \/ Range(wip[u]) \cap rewritten # {}
    BY <1>1, <1>10 DEF LInv, BranchInv, Based
  <2>2. CASE u = t
    BY <1>8, <1>10, <2>1, <2>2
  <2>3. CASE u # t
    BY <1>7, <1>10, <2>1, <2>3
  <2> QED
    BY <2>2, <2>3
<1>14. Grows
  BY <1>1 DEF Grows
<1> QED
  BY <1>1, <1>2, <1>4, <1>9, <1>11, <1>12, <1>13, <1>14 DEF BranchInv, mine

\* Freezing moves the MR branch of a slug, and the two have met again.  As long as the MR
\* branch only moves ahead, every other branch of the slug still has its base below it.
LEMMA AdvanceBranches ==
    ASSUME LInv, NEW t \in Id, FreezeAdvance(t), Len(task) \in Nat
    PROVE  BranchInv' /\ Grows
<1> DEFINE s == SlugOf(t)
<1>1. UNCHANGED <<task, checkedOut, linked, session>>
  BY DEF FreezeAdvance
<1>2. CASE UNCHANGED branches
  <2>1. Grows
    BY <1>1, <1>2 DEF Grows, branches
  <2> QED
    BY <1>2, <2>1, SameBranches
<1>3. CASE ~UNCHANGED branches
  <2>1. /\ t \in DOMAIN wip /\ mr' = With(mr, s, wip[t])
        /\ lost' = IF IsPrefix(Tip(t), wip[t]) THEN lost ELSE lost \cup {Tip(t)}
        /\ base' = [base EXCEPT ![t] = wip[t]]
        /\ UNCHANGED <<wip, worktree, objects, rewritten>>
    BY <1>3 DEF FreezeAdvance
  <2>2. /\ BranchesOK /\ wip[t] \in History /\ Range(wip[t]) \subseteq objects
        /\ \A u : Tip(u) \in History
    BY <2>1, TipIsHistory DEF LInv, BranchInv, BranchesOK, Made
  <2>3. /\ mr' \in [DOMAIN mr' -> History] /\ DOMAIN mr' = DOMAIN mr \cup {s}
        /\ \A x \in DOMAIN mr' : mr'[x] = IF x = s THEN wip[t] ELSE mr[x]
    <3>1. mr \in [DOMAIN mr -> History]
      BY <2>2 DEF BranchesOK
    <3> HIDE DEF s
    <3> QED
      BY <3>1, <2>1, <2>2 DEF With
  <2>4. /\ base' \in [DOMAIN base -> History] /\ DOMAIN base' = DOMAIN base
        /\ \A u \in DOMAIN base : base'[u] = IF u = t THEN wip[t] ELSE base[u]
    <3>1. base \in [DOMAIN base -> History] /\ DOMAIN base = DOMAIN wip
      BY <2>2 DEF BranchesOK
    <3> QED
      BY <3>1, <2>1, <2>2
  <2>5. Grows
    BY <1>1, <2>1, <2>3 DEF Grows
  <2>6. BranchesOK'
    BY <1>1, <2>1, <2>2, <2>3, <2>4 DEF BranchesOK, Id
  <2>7. Made'
    BY <2>1, <2>2, <2>3 DEF LInv, BranchInv, Made
  <2>8. \A u : Tip(u)' = IF SlugOf(u) = s THEN wip[t] ELSE Tip(u)
    BY <2>3 DEF Tip, Named, TipName
  <2>9. \A u : SlugOf(u) = s => Tip(u) = Tip(t)
    BY DEF Tip, Named, TipName
  <2>10. ASSUME lost' = {}, NEW u \in DOMAIN wip'
         PROVE  /\ IsPrefix(base'[u], Tip(u)')
                /\ IsPrefix(base'[u], wip[u]) \/ Range(wip[u]) \cap rewritten # {}
    <3>1. lost = {} /\ IsPrefix(Tip(t), wip[t]) /\ IsPrefix(wip[t], wip[t])
      BY <2>1, <2>2, <2>10, PrefixOfItself DEF History
    <3>2. u \in DOMAIN wip /\ u \in DOMAIN base /\ base[u] \in History
      BY <2>1, <2>2, <2>10 DEF BranchesOK
    <3>3. /\ IsPrefix(base[u], wip[u]) \/ Range(wip[u]) \cap rewritten # {}
          /\ IsPrefix(base[u], Tip(u))
      BY <3>1, <3>2 DEF LInv, BranchInv, Based
    <3>4. CASE u = t
      BY <2>4, <2>8, <3>1, <3>2, <3>4
    <3>5. CASE u # t /\ SlugOf(u) = s
      <4>1. IsPrefix(base[u], Tip(t))
        BY <3>3, <3>5, <2>9
      <4>2. IsPrefix(base[u], wip[t])
        BY <4>1, <3>1, <3>2, <2>2, PrefixChain DEF History
      <4> QED
        BY <4>2, <3>2, <3>3, <3>5, <2>4, <2>8
    <3>6. CASE u # t /\ SlugOf(u) # s
      BY <3>2, <3>3, <3>6, <2>4, <2>8
    <3> QED
      BY <3>4, <3>5, <3>6
  <2>11. ASSUME lost' = {}, NEW x \in DOMAIN mr'
         PROVE  IsPrefix(OriginMain, mr'[x])
    <3>1. lost = {} /\ IsPrefix(Tip(t), wip[t])
      BY <2>1, <2>11
    <3>2. IsPrefix(OriginMain, Tip(t))
      BY <3>1, TipIsHistory DEF LInv
    <3>3. IsPrefix(OriginMain, wip[t])
      BY <2>2, <3>1, <3>2, MainIsHistory, PrefixChain DEF History
    <3> QED
      BY <2>3, <3>1, <3>3 DEF LInv, BranchInv, Based
  <2>12. Based'
    BY <2>1, <2>10, <2>11 DEF Based
  <2> QED
    BY <2>5, <2>6, <2>7, <2>12 DEF BranchInv
<1> QED
  BY <1>2, <1>3

\* A branch is deleted only when no worktree has it checked out.
LEMMA DeletedBranches ==
    ASSUME LInv, Grows, NEW t \in Id, WipDeleted(t)
    PROVE  BranchInv'
<1>1. UNCHANGED <<task, mr, worktree, objects, rewritten, lost, checkedOut, linked, session>>
  BY DEF WipDeleted
<1>2. CASE UNCHANGED <<wip, base>>
  BY <1>1, <1>2, SameBranches DEF branches
<1>3. CASE ~UNCHANGED <<wip, base>>
  <2>1. t \notin DOMAIN worktree /\ wip' = Without(wip, t) /\ base' = Without(base, t)
    BY <1>3 DEF WipDeleted
  <2>2. BranchesOK
    BY DEF LInv, BranchInv
  <2>3. /\ wip' \in [DOMAIN wip' -> History] /\ DOMAIN wip' = DOMAIN wip \ {t}
        /\ \A u \in DOMAIN wip' : wip'[u] = wip[u]
    BY <2>1, <2>2 DEF Without, Restrict, BranchesOK
  <2>4. /\ base' \in [DOMAIN base' -> History] /\ DOMAIN base' = DOMAIN wip \ {t}
        /\ \A u \in DOMAIN wip' : base'[u] = base[u]
    BY <2>1, <2>2, <2>3 DEF Without, Restrict, BranchesOK
  <2>5. BranchesOK'
    BY <1>1, <2>1, <2>2, <2>3, <2>4 DEF BranchesOK, Id
  <2>6. Made'
    BY <1>1, <2>3 DEF LInv, BranchInv, Made
  <2>7. \A u : Tip(u)' = Tip(u)
    BY <1>1 DEF Tip, Named, TipName
  <2>8. Based'
    BY <1>1, <2>3, <2>4, <2>7 DEF LInv, BranchInv, Based
  <2> QED
    BY <2>5, <2>6, <2>8 DEF BranchInv
<1> QED
  BY <1>2, <1>3

\* Removing a worktree leaves the branches.
LEMMA RemovedWorktree ==
    ASSUME LInv, Grows, NEW t \in Id, FreezeRemove(t) \/ CleanupRemove(t)
    PROVE  BranchInv'
<1>1. UNCHANGED <<mr, wip, objects, base, rewritten, lost>>
  BY DEF FreezeRemove, CleanupRemove
<1>2. worktree' = worktree \/ worktree' = Without(worktree, t)
  BY DEF FreezeRemove, CleanupRemove
<1>3. worktree' \in [DOMAIN worktree' -> Changes]
      /\ DOMAIN worktree' \subseteq DOMAIN wip
  BY <1>2 DEF LInv, BranchInv, BranchesOK, Without, Restrict
<1> QED
  BY <1>1, <1>3, WorktreeChanges

-----------------------------------------------------------------------------
(* The sessions.                                                           *)

\* Sessions outlive every step that leaves them alone.
LEMMA SameSessions ==
    ASSUME LInv, Grows, UNCHANGED session
    PROVE  SessionsOK'
<1>1. Id \subseteq Id'
  BY DEF Grows, Id
<1>2. ASSUME NEW s, SessionOK(s) PROVE SessionOK(s)'
  BY <1>1, <1>2 DEF SessionOK, Grows
<1> QED
  BY <1>2 DEF LInv, SessionsOK

\* The session of one agent moves on.
LEMMA OneSession ==
    ASSUME LInv, Grows, NEW a \in Agent, NEW s, SessionOK(s)',
           session' = [session EXCEPT ![a] = s]
    PROVE  SessionsOK'
<1>1. Id \subseteq Id'
  BY DEF Grows, Id
<1>2. ASSUME NEW r, SessionOK(r) PROVE SessionOK(r)'
  BY <1>1, <1>2 DEF SessionOK, Grows
<1>3. s \in Session
  BY DEF SessionOK
<1> QED
  BY <1>2, <1>3 DEF LInv, SessionsOK

\* What each step of a session leaves it as, but for its first and its last: on the row
\* it was on, with what the step found out.
SessionMoves(a, s) ==
    LET t == session[a].row
    IN  \/ /\ s = [OnRow(a, "resolved") EXCEPT !.tip = TipName(t)]
           /\ ResolveTip(a) /\ session[a].at = "claimed"
        \/ /\ s = [OnRow(a, "submitting") EXCEPT !.tip = TipName(t)]
           /\ ResolveTip(a) /\ session[a].at = "working"
        \/ s = OnRow(a, "working") /\ AddWorktree(a)
        \/ s = session[a] /\ Edit(a)
        \/ /\ s = [OnRow(a, "checked") EXCEPT !.rework =
                        t \in DOMAIN worktree /\ IsRework(t, session[a].tip)]
           /\ CheckRework(a)
        \/ s = [OnRow(a, "staged") EXCEPT !.rework = session[a].rework] /\ StageAll(a)
        \/ s = OnRow(a, "committed") /\ CommitStaged(a)
        \/ s = [OnRow(a, "named") EXCEPT !.sha = Last(wip[t])] /\ RevParse(a)
        \/ s = Idle /\ (SubmitCommit(a) \/ SubmitNoOp(a) \/ SessionEnds(a))
        \/ \E p \in Id, model \in ModelName :
            /\ s = [Idle EXCEPT !.at = "claimed", !.row = p] /\ ClaimWork(p, a, model)

\* There is no other step.
LEMMA SessionsMove ==
    ASSUME LInv, NEW a \in Agent, SessionStep(a)
    PROVE  \E s : session' = [session EXCEPT ![a] = s] /\ SessionMoves(a, s)
<1>1. session \in [Agent -> Session]
  BY DEF LInv, SessionsOK
<1>2. CASE ResolveTip(a)
  <2> DEFINE r(at) == [OnRow(a, at) EXCEPT !.tip = TipName(session[a].row)]
  <2>1. PICK step \in {<<"claimed", "resolved">>, <<"working", "submitting">>} :
            session[a].at = step[1] /\ session' = [session EXCEPT ![a] = r(step[2])]
    BY <1>2 DEF ResolveTip
  <2>2. CASE step = <<"claimed", "resolved">>
    <3>1. session[a].at = "claimed" /\ session' = [session EXCEPT ![a] = r("resolved")]
      BY <2>1, <2>2
    <3>2. SessionMoves(a, r("resolved"))
      BY <1>2, <3>1 DEF SessionMoves
    <3> QED
      BY <3>1, <3>2
  <2>3. CASE step = <<"working", "submitting">>
    <3>1. session[a].at = "working" /\ session' = [session EXCEPT ![a] = r("submitting")]
      BY <2>1, <2>3
    <3>2. SessionMoves(a, r("submitting"))
      BY <1>2, <3>1 DEF SessionMoves
    <3> QED
      BY <3>1, <3>2
  <2> QED
    BY <2>1, <2>2, <2>3
<1>3. CASE AddWorktree(a) \/ StageAll(a) \/ CommitStaged(a) \/ RevParse(a)
  BY <1>3 DEF AddWorktree, StageAll, CommitStaged, RevParse, SessionMoves
<1>4. CASE CheckRework(a)
  BY <1>4 DEF CheckRework, SessionMoves
<1>5. CASE Edit(a)
  <2>1. session' = [session EXCEPT ![a] = session[a]]
    BY <1>1, <1>5 DEF Edit
  <2> QED
    BY <1>5, <2>1 DEF SessionMoves
<1>6. CASE SubmitCommit(a) \/ SubmitNoOp(a) \/ SessionEnds(a)
  BY <1>6 DEF SubmitCommit, SubmitNoOp, SessionEnds, Ended, SessionMoves
<1>7. ASSUME NEW p \in Id, NEW model \in ModelName, ClaimWork(p, a, model)
      PROVE  \E s : session' = [session EXCEPT ![a] = s] /\ SessionMoves(a, s)
  BY <1>7 DEF ClaimWork, SessionMoves
<1> QED
  BY <1>2, <1>3, <1>4, <1>5, <1>6, <1>7 DEF SessionStep

\* A session as its steps leave it.
LEMMA SessionsGoOn ==
    ASSUME LInv, Grows, NEW a \in Agent, SessionStep(a)
    PROVE  SessionsOK'
<1>1. /\ session \in [Agent -> Session] /\ session[a] \in Session
      /\ session[a].row \in Id \cup {NoTask} /\ session[a].sha \in objects
      /\ session[a].at # "idle" => session[a].row \in Id
  BY DEF LInv, SessionsOK, SessionOK
<1>2. /\ Id \subseteq Id' /\ Id \subseteq Nat /\ NoTask \in Nat
      /\ objects \subseteq objects' /\ objects \subseteq Commit /\ MainHead \in objects
      /\ DOMAIN mr \subseteq DOMAIN mr'
  BY DEF Grows, Id, NoTask, LInv, BranchInv, BranchesOK
<1>3. PICK s : session' = [session EXCEPT ![a] = s] /\ SessionMoves(a, s)
  BY SessionsMove
<1> DEFINE t == session[a].row
<1>4. /\ s \in Session
      /\ s.row \in Id \cup {NoTask}
      /\ s.at # "idle" => s.row \in Id
      /\ s.sha \in objects
      /\ s.at \in {"resolved", "submitting"} /\ s.tip = "mr" => SlugOf(s.row) \in DOMAIN mr
  <2> DEFINE Fine == /\ s \in Session
                     /\ s.row \in Id \cup {NoTask}
                     /\ s.at # "idle" => s.row \in Id
                     /\ s.sha \in objects
                     /\ s.at \in {"resolved", "submitting"} /\ s.tip = "mr"
                            => SlugOf(s.row) \in DOMAIN mr
  <2>1. ASSUME ResolveTip(a), session[a].at # "idle",
               \/ s = [OnRow(a, "resolved") EXCEPT !.tip = TipName(t)]
               \/ s = [OnRow(a, "submitting") EXCEPT !.tip = TipName(t)]
        PROVE  Fine
    <3>1. TipName(t) \in {"mr", "origin/main"}
          /\ (TipName(t) = "mr" => SlugOf(t) \in DOMAIN mr)
      BY DEF TipName
    <3>2. s \in Session /\ s.row = t /\ s.sha = MainHead /\ s.tip = TipName(t)
      BY <1>1, <1>2, <2>1, <3>1 DEF OnRow, Idle, Session
    <3> QED
      BY <1>1, <1>2, <2>1, <3>1, <3>2
  <2>2. ASSUME session[a].at # "idle",
               NEW step \in {"working", "committed"}, s = OnRow(a, step)
        PROVE  Fine
    <3>1. s \in Session /\ s.row = t /\ s.sha = MainHead /\ s.at = step
      BY <1>1, <1>2, <2>2 DEF OnRow, Idle, Session
    <3> QED
      BY <1>1, <1>2, <2>2, <3>1
  <2>3. ASSUME session[a].at # "idle", NEW step \in {"checked", "staged"},
               NEW b \in BOOLEAN, s = [OnRow(a, step) EXCEPT !.rework = b]
        PROVE  Fine
    <3>1. s \in Session /\ s.row = t /\ s.sha = MainHead /\ s.at = step
      BY <1>1, <1>2, <2>3 DEF OnRow, Idle, Session
    <3> QED
      BY <1>1, <1>2, <2>3, <3>1
  <2>4. ASSUME RevParse(a), s = [OnRow(a, "named") EXCEPT !.sha = Last(wip[t])]
        PROVE  Fine
    <3>1. t \in DOMAIN wip /\ session[a].at # "idle"
      BY <2>4 DEF RevParse, LInv, BranchInv, BranchesOK
    <3>2. wip[t] \in History /\ Range(wip[t]) \subseteq objects
      BY <3>1 DEF LInv, BranchInv, BranchesOK, Made
    <3>3. Last(wip[t]) \in objects
      <4> SUFFICES ASSUME NEW h, h = wip[t] PROVE Last(h) \in objects
        OBVIOUS
      <4>1. h \in Seq(Commit) \ {<<>>} /\ MainHead \in Commit
        BY <3>2, MainIsHistory DEF History
      <4>2. Last(h) \in Range(h)
        BY <4>1, OnTop
      <4> QED
        BY <3>2, <4>2
    <3>4. s \in Session /\ s.row = t /\ s.sha = Last(wip[t]) /\ s.at = "named"
      BY <1>1, <1>2, <2>4, <3>3 DEF OnRow, Idle, Session
    <3> QED
      BY <1>1, <1>2, <3>1, <3>3, <3>4
  <2>5. ASSUME s = Idle PROVE Fine
    BY <1>2, <2>5 DEF Idle, Session
  <2>6. ASSUME NEW p \in Id, s = [Idle EXCEPT !.at = "claimed", !.row = p] PROVE Fine
    <3>1. s \in Session /\ s.row = p /\ s.sha = MainHead /\ s.at = "claimed"
      BY <1>2, <2>6 DEF Idle, Session
    <3> QED
      BY <1>2, <3>1
  <2>7. ASSUME s = session[a], Edit(a) PROVE Fine
    BY <2>7 DEF LInv, SessionsOK, SessionOK
  <2>8. /\ AddWorktree(a) \/ CheckRework(a) \/ StageAll(a) \/ CommitStaged(a) =>
                session[a].at # "idle"
        /\ session[a].rework \in BOOLEAN
    BY <1>1 DEF AddWorktree, CheckRework, StageAll, CommitStaged, Session
  <2>9. (t \in DOMAIN worktree /\ IsRework(t, session[a].tip)) \in BOOLEAN
    BY DEF IsRework
  <2>10. Fine
    <3> HIDE DEF Fine
    <3> QED
      BY <1>3, <2>1, <2>2, <2>3, <2>4, <2>5, <2>6, <2>7, <2>8, <2>9 DEF SessionMoves
  <2> QED
    BY <2>10
<1>5. SessionOK(s)'
  BY <1>2, <1>4 DEF SessionOK
<1> QED
  BY <1>3, <1>5, OneSession

-----------------------------------------------------------------------------
(* The verbs and the links.                                                *)

\* Running verbs outlive every step that leaves them alone.
LEMMA SameVerbs ==
    ASSUME LInv, Grows, UNCHANGED verb
    PROVE  VerbsOK'
  BY DEF LInv, VerbsOK, Grows, Id

\* One verb goes on or exits.
LEMMA OneVerb ==
    ASSUME LInv, Grows, NEW t \in Id,
           Exits(t) \/ \E step \in Step : Goes(t, step)
    PROVE  VerbsOK'
<1>1. verb \in [DOMAIN verb -> Step] /\ DOMAIN verb \subseteq Id /\ Id \subseteq Id'
  BY DEF LInv, VerbsOK, Grows, Id
<1>2. ASSUME NEW step \in Step, Goes(t, step) PROVE VerbsOK'
  BY <1>1, <1>2 DEF Goes, With, VerbsOK
<1>3. CASE Exits(t)
  BY <1>1, <1>3 DEF Exits, Without, Restrict, VerbsOK
<1> QED
  BY <1>2, <1>3

\* Every step of a verb is one of the two.
LEMMA VerbsGoOn ==
    ASSUME LInv, Grows, NEW t \in Id, VerbStep(t)
    PROVE  VerbsOK'
<1>1. /\ "guard" \in Step /\ "advance" \in Step /\ "remove worktree" \in Step
      /\ "delete wip" \in Step /\ "force remove" \in Step /\ "force delete" \in Step
  BY DEF Step
<1>2. CASE Transition(t)
  BY <1>1, <1>2, OneVerb DEF Transition, Follows
<1>3. CASE FreezeOnly(t) \/ \E step \in Step : ReadTask(t, step)
  BY <1>1, <1>3, OneVerb DEF FreezeOnly, ReadTask
<1>4. CASE FreezeGuard(t) \/ FreezeAdvance(t) \/ FreezeRemove(t)
  BY <1>1, <1>4, OneVerb DEF FreezeGuard, FreezeAdvance, FreezeRemove
<1>5. CASE FreezeDelete(t) \/ CleanupDelete(t) \/ CleanupRemove(t) \/ VerbEnds(t)
  BY <1>1, <1>5, OneVerb DEF FreezeDelete, CleanupDelete, CleanupRemove, VerbEnds
<1> QED
  BY <1>2, <1>3, <1>4, <1>5 DEF VerbStep

\* Links outlive every step that leaves them alone.
LEMMA SameLinks ==
    ASSUME LInv, Grows, UNCHANGED <<checkedOut, linked>>
    PROVE  LinksOK'
  BY DEF LInv, LinksOK, Grows, Id

\* A submission links a commit that was made.
LEMMA SubmittedLink ==
    ASSUME LInv, Grows, NEW a \in Agent, SubmitCommit(a)
    PROVE  LinksOK'
<1> DEFINE t == session[a].row
           sha == session[a].sha
<1>1. t \in Id /\ sha \in objects
  BY DEF LInv, SessionsOK, SessionOK, SubmitCommit
<1>2. UNCHANGED <<mr, objects, checkedOut>>
  BY DEF SubmitCommit, branches
<1>3. linked' \subseteq linked \cup {[row |-> t, sha |-> sha]}
  BY DEF SubmitCommit
<1> HIDE DEF sha, t
<1>4. Id \subseteq Id'
  BY DEF Grows, Id
<1>5. [row |-> t, sha |-> sha] \in [row : Id, sha : objects]
  BY <1>1
<1>6. linked' \subseteq [row : Id, sha : objects]
  BY <1>3, <1>5 DEF LInv, LinksOK
<1>7. linked' \subseteq [row : Id', sha : objects']
  BY <1>2, <1>4, <1>6
<1> QED
  BY <1>2, <1>7 DEF LInv, LinksOK

-----------------------------------------------------------------------------
(* The steps together.                                                     *)

Rest == SessionsOK /\ VerbsOK /\ BranchInv /\ LinksOK

\* What others do to the board.
LEMMA BoardStepKeeps ==
    ASSUME LInv, Grows, Elsewhere
    PROVE  Rest'
<1>1. UNCHANGED branches /\ UNCHANGED session /\ UNCHANGED verb
      /\ UNCHANGED <<checkedOut, linked>>
  BY DEF Elsewhere
<1> QED
  BY <1>1, SameBranches, SameSessions, SameVerbs, SameLinks DEF Rest

\* A worker's session.
LEMMA SessionStepKeeps ==
    ASSUME LInv, [Next]_vars, NEW a \in Agent, SessionStep(a)
    PROVE  Rest'
<1>1. Len(task) \in Nat /\ Len(task') \in Nat /\ Len(task) <= Len(task')
  BY RowsStay DEF LInv
<1>2. UNCHANGED verb
  BY DEF SessionStep, ClaimWork, ResolveTip, AddWorktree, Edit, CheckRework, StageAll,
         CommitStaged, RevParse, SubmitCommit, SubmitNoOp, SessionEnds
<1>3. BranchInv' /\ Grows
  <2>1. CASE CommitStaged(a)
    BY <1>1, <2>1, CommitBranches
  <2>2. CASE AddWorktree(a) \/ Edit(a) \/ StageAll(a)
    <3>1. Grows
      BY <1>1, <2>2 DEF AddWorktree, Edit, StageAll, branches, Grows
    <3> QED
      BY <2>2, <3>1, AddWorktreeBranches, EditBranches
  <2>3. CASE UNCHANGED branches
    <3>1. Grows
      BY <1>1, <2>3 DEF Grows, branches
    <3> QED
      BY <2>3, <3>1, SameBranches
  <2> QED
    BY <2>1, <2>2, <2>3 DEF SessionStep, ClaimWork, ResolveTip, CheckRework, RevParse,
       SubmitCommit, SubmitNoOp, SessionEnds
<1>4. LinksOK'
  <2>1. CASE SubmitCommit(a)
    BY <1>3, <2>1, SubmittedLink
  <2>2. CASE ~SubmitCommit(a)
    <3>1. UNCHANGED <<checkedOut, linked>>
      BY <2>2 DEF SessionStep, ClaimWork, ResolveTip, AddWorktree, Edit, CheckRework, StageAll,
         CommitStaged, RevParse, SubmitNoOp, SessionEnds
    <3> QED
      BY <1>3, <3>1, SameLinks
  <2> QED
    BY <2>1, <2>2
<1> QED
  BY <1>2, <1>3, <1>4, SessionsGoOn, SameVerbs DEF Rest

\* A verb of the person.
LEMMA VerbStepKeeps ==
    ASSUME LInv, [Next]_vars, NEW t \in Id, VerbStep(t)
    PROVE  Rest'
<1>1. Len(task) \in Nat /\ Len(task') \in Nat /\ Len(task) <= Len(task')
  BY RowsStay DEF LInv
<1>2. UNCHANGED <<checkedOut, linked>> /\ UNCHANGED session
  BY DEF VerbStep, ReadTask, FreezeOnly, Transition, FreezeGuard, FreezeAdvance,
         FreezeRemove, FreezeDelete, CleanupRemove, CleanupDelete, VerbEnds, WipDeleted
<1>3. BranchInv' /\ Grows
  <2>1. CASE FreezeAdvance(t)
    BY <1>1, <2>1, AdvanceBranches
  <2>2. CASE FreezeRemove(t) \/ CleanupRemove(t)
    <3>1. Grows
      BY <1>1, <2>2 DEF FreezeRemove, CleanupRemove, Grows
    <3> QED
      BY <2>2, <3>1, RemovedWorktree
  <2>3. CASE FreezeDelete(t) \/ CleanupDelete(t)
    <3>1. WipDeleted(t)
      BY <2>3 DEF FreezeDelete, CleanupDelete
    <3>2. Grows
      BY <1>1, <3>1 DEF WipDeleted, Grows
    <3> QED
      BY <3>1, <3>2, DeletedBranches
  <2>4. CASE \/ \E step \in Step : ReadTask(t, step)
             \/ FreezeOnly(t) \/ Transition(t) \/ FreezeGuard(t) \/ VerbEnds(t)
    <3>1. UNCHANGED branches
      BY <2>4 DEF ReadTask, FreezeOnly, Transition, FreezeGuard, VerbEnds
    <3>2. Grows
      BY <1>1, <3>1 DEF Grows, branches
    <3> QED
      BY <3>1, <3>2, SameBranches
  <2> QED
    BY <2>1, <2>2, <2>3, <2>4 DEF VerbStep
<1> QED
  BY <1>2, <1>3, VerbsGoOn, SameSessions, SameLinks DEF Rest

\* A person looks at an MR branch that is there.
LEMMA CheckoutKeeps ==
    ASSUME LInv, [Next]_vars, NEW s \in DOMAIN mr, Checkout(s)
    PROVE  Rest'
<1>1. UNCHANGED branches /\ UNCHANGED session /\ UNCHANGED verb /\ UNCHANGED linked
      /\ UNCHANGED task
  BY DEF Checkout
<1>2. Grows
  BY <1>1, RowsStay DEF LInv, Grows, branches
<1>3. LinksOK'
  BY <1>1, <1>2 DEF Checkout, LInv, LinksOK, Grows, branches, Id
<1> QED
  BY <1>1, <1>2, <1>3, SameBranches, SameSessions, SameVerbs DEF Rest

\* All of them keep the invariant.
LEMMA LocalNextKeepsLInv ==
    ASSUME LInv, [LocalNext]_localvars
    PROVE  LInv'
<1>1. [Next]_vars
  BY BoardSteps
<1>2. Inv'
  BY <1>1, RowsStay DEF LInv
<1>3. Rest'
  <2>1. Elsewhere => Rest'
    <3> SUFFICES ASSUME Elsewhere PROVE Rest'
      OBVIOUS
    <3>1. Grows
      BY <1>1, RowsStay DEF Elsewhere, branches, Grows, LInv
    <3> QED
      BY <3>1, BoardStepKeeps
  <2>2. CASE UNCHANGED localvars
    BY <2>1, <2>2 DEF localvars, Elsewhere
  <2>3. CASE BoardStep
    BY <2>1, <2>3 DEF BoardStep
  <2> QED
    BY <1>1, <2>2, <2>3, SessionStepKeeps, VerbStepKeeps, CheckoutKeeps DEF LocalNext
<1> QED
  BY <1>2, <1>3 DEF LInv, Rest

\* It holds where nothing is on the board.
LEMMA LocalInitHasLInv ==
    ASSUME LocalInit
    PROVE  LInv
<1>1. Inv
  <2>1. task = <<>> /\ task \in Seq(Row) /\ Len(task) = 0
    BY EmptySeq DEF LocalInit, Init
  <2> QED
    BY <2>1 DEF Inv, WellFormed, Gate, Rows
<1>2. SessionsOK
  BY MainIsHistory DEF LocalInit, SessionsOK, SessionOK, Idle, Session, NoTask
<1>3. VerbsOK /\ BranchInv /\ LinksOK
  <2>1. /\ task = <<>> /\ mr = <<>> /\ wip = <<>> /\ worktree = <<>> /\ verb = <<>> /\ base = <<>>
        /\ checkedOut = {} /\ linked = {} /\ rewritten = {} /\ lost = {}
        /\ objects = {MainHead}
    BY MainIsHistory DEF LocalInit, Init
  <2>2. IsFiniteSet(objects) /\ objects \subseteq Commit /\ MainHead \in objects
    BY <2>1, FS_Singleton, MainIsHistory
  <2>3. DOMAIN mr = {} /\ DOMAIN wip = {} /\ DOMAIN worktree = {} /\ DOMAIN verb = {}
        /\ DOMAIN base = {}
    BY <2>1
  <2>4. VerbsOK /\ LinksOK
    BY <2>1, <2>3 DEF VerbsOK, LinksOK
  <2>5. BranchesOK
    BY <2>1, <2>2, <2>3 DEF BranchesOK
  <2>6. Made /\ Based
    BY <2>3 DEF Made, Based
  <2> QED
    BY <2>4, <2>5, <2>6 DEF BranchInv
<1> QED
  BY <1>1, <1>2, <1>3 DEF LInv

-----------------------------------------------------------------------------

\* The inductive invariant of local mode.
THEOREM LocalInvariance == LocalSpec => []LInv
<1>1. LInv /\ [LocalNext]_localvars => LInv'
  BY LocalNextKeepsLInv
<1> QED
  BY <1>1, LocalInitHasLInv, PTL DEF LocalSpec

\* Local mode uses the board as the board is meant to be used: with its branches,
\* sessions and verbs left out, what happens is a behaviour of the board, so that every
\* guarantee proved of the board holds in local mode.
THEOREM LocalModeUsesTheBoard == LocalSpec => Spec
<1>1. LocalInit => Init
  BY DEF LocalInit
<1>2. LInv /\ [LocalNext]_localvars => [Next]_vars
  BY BoardSteps
<1> QED
  BY <1>1, <1>2, LocalInvariance, PTL DEF LocalSpec, Spec

\* Every branch, worktree, link and verb belongs to a row of the table.
THEOREM LocalTypeCorrect == LocalSpec => []LocalTypeOK
<1>1. LInv => LocalTypeOK
  BY DEF LInv, SessionsOK, SessionOK, VerbsOK, BranchInv, BranchesOK, LinksOK, LocalTypeOK
<1> QED
  BY <1>1, LocalInvariance, PTL

\* Freezing moves MR branches ahead, for any number of rows that share a slug and sessions
\* that overlap in any way, until a freeze finds the MR branch moved by another row's or
\* a published commit replaced on the branch it freezes.
THEOREM OnlyStaleFreezesLose == LocalSpec => FirstLossIsStale
<1> DEFINE A == lost = {} /\ lost' # {} =>
        \E t \in Id :
            /\ At(t, "advance") /\ t \in DOMAIN wip
            /\ base[t] # Tip(t) \/ Range(wip[t]) \cap rewritten # {}
<1>1. LInv /\ [LocalNext]_localvars => [A]_localvars
  <2> SUFFICES ASSUME LInv, LocalNext, lost = {}, lost' # {} PROVE A
    OBVIOUS
  <2>1. PICK t \in Id : FreezeAdvance(t)
    BY DEF LocalNext, BoardStep, Elsewhere, branches, SessionStep, ClaimWork, ResolveTip,
           AddWorktree, Edit, CheckRework, StageAll, CommitStaged, RevParse,
           SubmitCommit, SubmitNoOp, SessionEnds,
           VerbStep, ReadTask, FreezeOnly, Transition, FreezeGuard, FreezeRemove,
           FreezeDelete, WipDeleted, CleanupRemove, CleanupDelete, VerbEnds, Checkout
  <2>2. At(t, "advance") /\ t \in DOMAIN wip /\ ~IsPrefix(Tip(t), wip[t])
    BY <2>1 DEF FreezeAdvance, branches
  <2>3. IsPrefix(base[t], wip[t]) \/ Range(wip[t]) \cap rewritten # {}
    BY <2>2 DEF LInv, BranchInv, Based
  <2> QED
    BY <2>2, <2>3
<1> QED
  BY <1>1, LocalInvariance, PTL DEF LocalSpec, FirstLossIsStale

-----------------------------------------------------------------------------
(* As long as people are orderly on the board, and freeze by hand only     *)
(* what is done: rework finds its worktree, and no accepted work is lost.  *)

\* approve --freeze-only, which looks at no state, is used to take up a freeze.
FreezesFinished == \A t \in Id : FreezeOnly(t) => task[t].state = "done"

OrderlyLocal ==
    [LocalNext]_localvars /\ [OrderlyNext]_vars /\ [FreezesFinished]_localvars

Freezing == {"guard", "advance", "remove worktree", "delete wip"}
Clearing == {"force remove", "force delete"}

\* Branches are moved and removed for rows that have ended only, and a branch without
\* its worktree is one of theirs.
Settled ==
    /\ \A t \in DOMAIN verb :
        /\ verb[t] \in Freezing => task[t].state = "done"
        /\ verb[t] \in Clearing => task[t].state = "failed"
    /\ \A t \in DOMAIN wip \ DOMAIN worktree : task[t].state \in {"done", "failed"}

\* What is done or failed stays so.
LEMMA EndsStay ==
    ASSUME LInv, Order(task, NoTask), OrderlyLocal
    PROVE  /\ Order(task', NoTask) /\ LInv'
           /\ \A t \in Id : task[t].state \in {"done", "failed"} => task'[t].state = task[t].state
<1>1. Orderly(task', task)
  BY StepIsOrderly DEF LInv, OrderlyLocal
<1>2. LInv'
  BY LocalNextKeepsLInv DEF OrderlyLocal
<1> QED
  BY <1>1, <1>2 DEF Orderly, Kept, Keeps, Final, Id, Rows

\* A verb starts, stops, or goes on with its freeze or its cleanup, which it begins with
\* a transition, or by hand.
LEMMA VerbsMove ==
    ASSUME LInv, OrderlyLocal, NEW t \in DOMAIN verb'
    PROVE  \/ verb'[t] \notin Freezing \cup Clearing
           \/ t \in DOMAIN verb /\ verb'[t] = verb[t]
           \/ t \in DOMAIN verb /\ verb[t] \in Freezing /\ verb'[t] \in Freezing
           \/ t \in DOMAIN verb /\ verb[t] \in Clearing /\ verb'[t] \in Clearing
           \/ t \in Id /\ verb'[t] \in Freezing /\ task'[t].state = "done"
           \/ t \in Id /\ verb'[t] \in Clearing /\ task'[t].state = "failed"
<1> DEFINE Fine ==
        \/ verb'[t] \notin Freezing \cup Clearing
        \/ t \in DOMAIN verb /\ verb'[t] = verb[t]
        \/ t \in DOMAIN verb /\ verb[t] \in Freezing /\ verb'[t] \in Freezing
        \/ t \in DOMAIN verb /\ verb[t] \in Clearing /\ verb'[t] \in Clearing
        \/ t \in Id /\ verb'[t] \in Freezing /\ task'[t].state = "done"
        \/ t \in Id /\ verb'[t] \in Clearing /\ task'[t].state = "failed"
<1>1. CASE UNCHANGED verb
  BY <1>1
<1>2. ASSUME NEW p, Exits(p) PROVE Fine
  BY <1>2 DEF Exits, Without, Restrict
<1>3. ASSUME NEW p, NEW step, Goes(p, step) PROVE (t = p => verb'[t] = step) /\ (t # p => Fine)
  BY <1>3 DEF Goes, With
<1>4. ASSUME NEW p \in Id, VerbStep(p), ~UNCHANGED localvars PROVE Fine
  <2>1. CASE \E step \in Step : ReadTask(p, step)
    BY <2>1, <1>3 DEF ReadTask, Freezing, Clearing
  <2>2. CASE FreezeOnly(p)
    <3>1. task'[p].state = "done" /\ Goes(p, "guard")
      BY <2>2, <1>4 DEF OrderlyLocal, FreezesFinished, FreezeOnly
    <3>2. CASE t = p
      <4>1. verb'[t] \in Freezing
        BY <3>1, <3>2, <1>3 DEF Freezing
      <4> QED
        BY <1>4, <3>1, <3>2, <4>1
    <3> QED
      BY <3>1, <3>2, <1>3
  <2>3. CASE Transition(p)
    <3>1. Exits(p) \/ \E to : TransitionTask(p, to) /\ Follows(p, to)
      BY <2>3 DEF Transition
    <3>2. ASSUME NEW to, TransitionTask(p, to), Follows(p, to) PROVE Fine
      <4>1. task'[p].state = to
        BY <3>2, <1>4, OneTransition DEF LInv
      <4>2. CASE Exits(p)
        BY <4>2, <1>2
      <4>3. CASE to = "done" /\ Goes(p, "guard")
        BY <4>1, <4>3, <1>3, <1>4 DEF Freezing
      <4>4. CASE to = "failed" /\ Goes(p, "force remove")
        BY <4>1, <4>4, <1>3, <1>4 DEF Clearing
      <4> QED
        BY <3>2, <4>2, <4>3, <4>4 DEF Follows
    <3> QED
      BY <3>1, <3>2, <1>2
  <2>4. CASE FreezeGuard(p) \/ FreezeAdvance(p) \/ FreezeRemove(p)
    BY <2>4, <1>2, <1>3 DEF FreezeGuard, FreezeAdvance, FreezeRemove, At, Freezing
  <2>5. CASE CleanupRemove(p)
    BY <2>5, <1>3 DEF CleanupRemove, At, Clearing
  <2>6. CASE FreezeDelete(p) \/ CleanupDelete(p) \/ VerbEnds(p)
    BY <2>6, <1>2 DEF FreezeDelete, CleanupDelete, VerbEnds
  <2> QED
    BY <1>4, <2>1, <2>2, <2>3, <2>4, <2>5, <2>6 DEF VerbStep
<1> QED
  BY <1>1, <1>4 DEF OrderlyLocal, LocalNext, localvars, BoardStep, Elsewhere, SessionStep, Checkout,
     ClaimWork, ResolveTip, AddWorktree, Edit, CheckRework, StageAll, CommitStaged, RevParse,
     SubmitCommit, SubmitNoOp, SessionEnds

\* A branch is parted from its worktree by a freeze or a cleanup.
LEMMA WorktreesGo ==
    ASSUME LInv, [LocalNext]_localvars, NEW t \in DOMAIN wip' \ DOMAIN worktree'
    PROVE  \/ t \in DOMAIN wip \ DOMAIN worktree
           \/ At(t, "remove worktree") \/ At(t, "force remove")
<1> DEFINE Fine == \/ t \in DOMAIN wip \ DOMAIN worktree
                   \/ At(t, "remove worktree") \/ At(t, "force remove")
<1>1. DOMAIN worktree \subseteq DOMAIN wip
  BY DEF LInv, BranchInv, BranchesOK
<1>2. CASE UNCHANGED <<wip, worktree>>
  BY <1>2
<1>3. ASSUME NEW a \in Agent, SessionStep(a) PROVE Fine
  <2>1. CASE AddWorktree(a)
    <3>1. \/ UNCHANGED branches
          \/ \E row, tip : wip' = With(wip, row, tip) /\ worktree' = With(worktree, row, {})
      BY <2>1 DEF AddWorktree
    <3>2. CASE \E row, tip :
                wip' = With(wip, row, tip) /\ worktree' = With(worktree, row, {})
      BY <3>2 DEF With
    <3> QED
      BY <3>1, <3>2, <1>2 DEF branches
  <2>2. CASE Edit(a) \/ StageAll(a) \/ CommitStaged(a)
    BY <2>2 DEF Edit, StageAll, CommitStaged
  <2> QED
    BY <1>2, <1>3, <2>1, <2>2
       DEF SessionStep, ClaimWork, ResolveTip, CheckRework, RevParse, SubmitCommit, SubmitNoOp,
           SessionEnds, branches
<1>4. ASSUME NEW p, WipDeleted(p) PROVE Fine
  BY <1>4 DEF WipDeleted, Without, Restrict
<1>5. ASSUME NEW p \in Id, VerbStep(p) PROVE Fine
  <2>1. CASE FreezeRemove(p)
    BY <2>1 DEF FreezeRemove, Without, Restrict
  <2>2. CASE CleanupRemove(p)
    BY <2>2 DEF CleanupRemove, Without, Restrict
  <2>3. CASE FreezeAdvance(p)
    BY <1>2, <2>3 DEF FreezeAdvance, branches
  <2> QED
    BY <1>2, <1>4, <1>5, <2>1, <2>2, <2>3
       DEF VerbStep, ReadTask, FreezeOnly, Transition, FreezeGuard, FreezeDelete, CleanupDelete,
           VerbEnds, branches
<1> QED
  BY <1>2, <1>3, <1>5 DEF LocalNext, localvars, BoardStep, Elsewhere, Checkout, branches

\* Both together.
LEMMA StaysSettled ==
    ASSUME LInv, Order(task, NoTask), Settled, OrderlyLocal
    PROVE  Settled'
<1>1. \A t \in Id : task[t].state \in {"done", "failed"} => task'[t].state = task[t].state
  BY EndsStay
<1>2. DOMAIN verb \subseteq Id /\ DOMAIN wip \subseteq Id
  BY DEF LInv, VerbsOK, BranchInv, BranchesOK
<1>3. \A t \in DOMAIN verb' :
        /\ verb'[t] \in Freezing => task'[t].state = "done"
        /\ verb'[t] \in Clearing => task'[t].state = "failed"
  <2> SUFFICES ASSUME NEW t \in DOMAIN verb'
               PROVE  /\ verb'[t] \in Freezing => task'[t].state = "done"
                      /\ verb'[t] \in Clearing => task'[t].state = "failed"
    OBVIOUS
  <2>1. verb'[t] \in Freezing => verb'[t] \notin Clearing
    BY DEF Freezing, Clearing
  <2> QED
    BY <2>1, <1>1, <1>2, VerbsMove DEF Settled
<1>4. \A t \in DOMAIN wip' \ DOMAIN worktree' : task'[t].state \in {"done", "failed"}
  <2> SUFFICES ASSUME NEW t \in DOMAIN wip' \ DOMAIN worktree'
               PROVE  task'[t].state \in {"done", "failed"}
    OBVIOUS
  <2>1. \/ t \in DOMAIN wip \ DOMAIN worktree
        \/ At(t, "remove worktree") \/ At(t, "force remove")
    BY WorktreesGo DEF OrderlyLocal
  <2>2. t \in Id /\ task[t].state \in {"done", "failed"}
    BY <2>1, <1>2 DEF Settled, At, Freezing, Clearing
  <2> QED
    BY <2>2, <1>1
<1> QED
  BY <1>3, <1>4 DEF Settled

-----------------------------------------------------------------------------
(* Published commits.                                                      *)

Over(t) == task[t].state \in {"done", "failed"}

\* A commit of main, or of a row that has ended.
Public(c) == c.row = NoTask \/ (c.row \in Id /\ Over(c.row))

\* What a row that has not ended committed is on its own wip branch only.
Published ==
    /\ \A s \in DOMAIN mr : \A c \in Range(mr[s]) : Public(c)
    /\ \A t \in DOMAIN wip : \A c \in Range(wip[t]) : c.row = t \/ Public(c)

\* The wip branch of such a row is where it was branched, or its head is the row's own.
OwnTops ==
    \A t \in DOMAIN wip :
        \/ Over(t)
        \/ /\ wip[t] = base[t] \/ Last(wip[t]).row = t
           /\ base[t] = OriginMain \/ SlugOf(t) \in DOMAIN mr

\* What a session on such a row has found out still holds.
SessionLive(s) ==
    s.at \notin {"idle", "claimed", "resolved"} /\ ~Over(s.row) =>
        /\ s.row \in DOMAIN worktree
        /\ s.at = "submitting" /\ s.tip # "mr" => base[s.row] = OriginMain
        /\ s.rework /\ lost = {} => Last(wip[s.row]).row = s.row
        /\ s.at \in {"committed", "named"} => Last(wip[s.row]).row = s.row
        /\ s.at = "named" => s.sha.row = s.row

LateRewrites == lost = {} => \A c \in rewritten : c.row \in Id /\ Over(c.row)

Live == Published /\ OwnTops /\ LateRewrites /\ \A a \in Agent : SessionLive(session[a])

\* Rows that have ended stay so.
StayOver ==
    /\ Len(task) \in Nat /\ Len(task') \in Nat /\ Len(task) <= Len(task')
    /\ \A t \in Id : Over(t) => Over(t)'

\* All of it but what the session that takes the step finds out.
LiveOn ==
    /\ Published' /\ OwnTops' /\ LateRewrites'
    /\ \A s : SessionOK(s) /\ SessionLive(s) => SessionLive(s)'

\* Public commits stay public.
LEMMA PublicStays ==
    ASSUME StayOver, NEW c, Public(c)
    PROVE  Public(c)'
  BY DEF StayOver, Public, Id

\* Steps that change no branch, and take no worktree but of a row that has ended.
LEMMA QuietSteps ==
    ASSUME LInv, Live, StayOver, UNCHANGED <<mr, wip, base, rewritten, lost>>,
           \A t \in DOMAIN worktree : t \in DOMAIN worktree' \/ Over(t)
    PROVE  LiveOn
<1>1. DOMAIN wip \subseteq Id /\ Id \subseteq Id'
  BY DEF LInv, BranchInv, BranchesOK, StayOver, Id
<1>2. Published'
  BY PublicStays DEF Live, Published
<1>3. OwnTops'
  BY <1>1 DEF Live, OwnTops, StayOver
<1>4. LateRewrites'
  BY <1>1 DEF Live, LateRewrites, StayOver
<1>5. ASSUME NEW s, SessionOK(s), SessionLive(s) PROVE SessionLive(s)'
  <2>1. s.at # "idle" => s.row \in Id
    BY <1>5 DEF SessionOK
  <2> QED
    BY <1>5, <2>1 DEF SessionLive, StayOver
<1> QED
  BY <1>2, <1>3, <1>4, <1>5 DEF LiveOn

\* A new branch has commits of its MR branch or of main.
LEMMA AddWorktreeLive ==
    ASSUME LInv, Live, StayOver, NEW a \in Agent, AddWorktree(a)
    PROVE  LiveOn /\ session[a].row \in DOMAIN worktree'
<1> DEFINE t == session[a].row
           tip == Named(t, session[a].tip)
<1>1. t \in Id /\ (session[a].tip = "mr" => SlugOf(t) \in DOMAIN mr)
  BY DEF AddWorktree, LInv, SessionsOK, SessionOK
<1>2. DOMAIN wip \subseteq Id /\ Id \subseteq Id' /\ DOMAIN worktree \subseteq DOMAIN wip
  BY DEF LInv, BranchInv, BranchesOK, StayOver, Id
<1>3. CASE UNCHANGED branches
  <2>1. t \in DOMAIN worktree'
    <3>1. CASE t \in DOMAIN worktree
      BY <1>3, <3>1 DEF branches
    <3>2. CASE t \notin DOMAIN worktree
      <4>1. worktree' = With(worktree, t, {})
        BY <3>2 DEF AddWorktree
      <4> QED
        BY <4>1 DEF With
    <3> QED
      BY <3>1, <3>2
  <2>2. LiveOn
    BY <1>3, QuietSteps DEF branches
  <2> QED
    BY <2>1, <2>2
<1>4. CASE ~UNCHANGED branches
  <2>1. /\ t \notin DOMAIN worktree /\ t \notin DOMAIN wip
        /\ wip' = With(wip, t, tip) /\ base' = With(base, t, tip)
        /\ worktree' = With(worktree, t, {})
        /\ UNCHANGED <<mr, objects, rewritten, lost>>
    BY <1>4 DEF AddWorktree
  <2>2. /\ \A c \in Range(tip) : Public(c)
        /\ tip = OriginMain \/ SlugOf(t) \in DOMAIN mr
    <3>1. CASE session[a].tip = "mr"
      BY <1>1, <3>1 DEF Named, Live, Published
    <3>2. CASE session[a].tip # "mr"
      <4>1. tip = OriginMain
        BY <3>2 DEF Named
      <4>2. Range(tip) = {MainHead}
        BY <4>1, MainIsHistory
      <4> QED
        BY <4>1, <4>2 DEF Public, MainHead
    <3> QED
      BY <3>1, <3>2
  <2> HIDE DEF t, tip
  <2>3. /\ DOMAIN wip' = DOMAIN wip \cup {t}
        /\ \A x \in DOMAIN wip' : wip'[x] = IF x = t THEN tip ELSE wip[x]
        /\ DOMAIN worktree' = DOMAIN worktree \cup {t}
        /\ DOMAIN base = DOMAIN wip
        /\ \A x \in DOMAIN wip' : base'[x] = IF x = t THEN tip ELSE base[x]
    <3>1. DOMAIN base = DOMAIN wip
      BY DEF LInv, BranchInv, BranchesOK
    <3> QED
      BY <2>1, <3>1 DEF With
  <2>4. Published'
    BY <2>1, <2>2, <2>3, PublicStays DEF Live, Published
  <2>5. OwnTops'
    BY <1>2, <2>1, <2>2, <2>3 DEF Live, OwnTops, StayOver
  <2>6. LateRewrites'
    BY <1>2, <2>1 DEF Live, LateRewrites, StayOver
  <2>7. ASSUME NEW s, SessionOK(s), SessionLive(s) PROVE SessionLive(s)'
    <3>1. s.at # "idle" => s.row \in Id
      BY <2>7 DEF SessionOK
    <3>2. s.row \in DOMAIN worktree =>
            /\ s.row \in DOMAIN worktree'
            /\ wip'[s.row] = wip[s.row] /\ base'[s.row] = base[s.row]
      BY <1>2, <2>1, <2>3
    <3> QED
      BY <2>1, <2>7, <3>1, <3>2 DEF SessionLive, StayOver
  <2> QED
    BY <2>3, <2>4, <2>5, <2>6, <2>7 DEF LiveOn, t
<1> QED
  BY <1>3, <1>4

\* A session of a row that has not ended commits on top of the row's branch, or amends a
\* commit of the row that is nowhere else.
LEMMA CommitLive ==
    ASSUME LInv, Live, StayOver, NEW a \in Agent, CommitStaged(a)
    PROVE  LiveOn /\ (\A r : r = OnRow(a, "committed") => SessionLive(r)')
<1> SUFFICES ASSUME NEW t, t = session[a].row, NEW c, c = NewCommit(t)
             PROVE  LiveOn /\ (\A r : r = OnRow(a, "committed") => SessionLive(r)')
  OBVIOUS
<1>1. /\ BranchInv' /\ t \in DOMAIN wip /\ t \in Id /\ c \in Commit /\ c.row = t
      /\ \E h \in Seq(Commit) :
            Range(h) \subseteq Range(wip[t]) /\ wip' = [wip EXCEPT ![t] = Append(h, c)]
  BY CommitBranches DEF StayOver
<1>2. PICK h \in Seq(Commit) :
        Range(h) \subseteq Range(wip[t]) /\ wip' = [wip EXCEPT ![t] = Append(h, c)]
  BY <1>1
<1>3. /\ UNCHANGED <<mr, base, lost>> /\ t \in DOMAIN worktree
      /\ DOMAIN worktree' = DOMAIN worktree
      /\ rewritten' \subseteq rewritten \cup {c}
      /\ c \in rewritten' /\ c \notin rewritten =>
            session[a].rework /\ Last(wip[t]) \in Range(Tip(t)) \cup rewritten
  BY DEF CommitStaged
<1>4. /\ DOMAIN wip' = DOMAIN wip /\ DOMAIN wip \subseteq Id /\ Id \subseteq Id'
      /\ \A u \in DOMAIN wip : wip'[u] = IF u = t THEN Append(h, c) ELSE wip[u]
  <2>1. DOMAIN wip \subseteq Id /\ Id \subseteq Id'
    BY DEF LInv, BranchInv, BranchesOK, StayOver, Id
  <2> QED
    BY <1>2, <2>1
<1>5. Last(Append(h, c)) = c /\ Range(Append(h, c)) = Range(h) \cup {c}
  <2> DEFINE g == Append(h, c)
  <2>1. /\ Len(h) \in Nat /\ Len(g) = Len(h) + 1 /\ g[Len(h) + 1] = c
        /\ \A i \in 1..Len(h) : g[i] = h[i]
        /\ g \in Seq(Commit)
    BY <1>1, AppendProperties, LenProperties
  <2> HIDE DEF g
  <2>2. DOMAIN g = 1..Len(h) + 1 /\ DOMAIN h = 1..Len(h)
    BY <2>1, LenProperties
  <2> QED
    BY <2>1, <2>2 DEF g, Last, Range
<1>6. Published'
  <2>1. \A u \in DOMAIN wip' : \A d \in Range(wip'[u]) :
            d.row = u \/ \E v \in DOMAIN wip : v = u /\ d \in Range(wip[v])
    BY <1>1, <1>2, <1>4, <1>5
  <2> QED
    BY <1>3, <1>4, <2>1, PublicStays DEF Live, Published
<1>7. OwnTops'
  <2> SUFFICES ASSUME NEW u \in DOMAIN wip', ~Over(u)'
               PROVE  /\ wip'[u] = base'[u] \/ Last(wip'[u]).row = u
                      /\ base'[u] = OriginMain \/ SlugOf(u) \in DOMAIN mr'
    BY DEF OwnTops
  <2>1. u \in DOMAIN wip /\ ~Over(u)
    BY <1>4 DEF StayOver
  <2> QED
    BY <1>1, <1>3, <1>4, <1>5, <2>1 DEF Live, OwnTops
<1>8. LateRewrites'
  <2> SUFFICES ASSUME lost = {}, c \in rewritten', c \notin rewritten, ~Over(t)
               PROVE  FALSE
    BY <1>1, <1>3, <1>4 DEF Live, LateRewrites, StayOver
  <2>1. session[a].rework /\ Last(wip[t]) \in Range(Tip(t)) \cup rewritten
    BY <1>3
  <2>2. Last(wip[t]).row = t
    BY <2>1 DEF CommitStaged, Live, SessionLive
  <2>3. CASE Last(wip[t]) \in rewritten
    BY <2>2, <2>3 DEF Live, LateRewrites
  <2>4. CASE Last(wip[t]) \in Range(Tip(t))
    <3>1. \A d \in Range(Tip(t)) : Public(d)
      <4>1. CASE SlugOf(t) \in DOMAIN mr
        BY <4>1 DEF Tip, Named, TipName, Live, Published
      <4>2. CASE SlugOf(t) \notin DOMAIN mr
        <5>1. Range(Tip(t)) = {MainHead}
          BY <4>2, MainIsHistory DEF Tip, Named, TipName
        <5> QED
          BY <5>1 DEF Public, MainHead
      <4> QED
        BY <4>1, <4>2
    <3>2. t # NoTask
      BY <1>1 DEF Id, NoTask
    <3> QED
      BY <2>2, <2>4, <3>1, <3>2 DEF Public
  <2> QED
    BY <2>1, <2>3, <2>4
<1>9. ASSUME NEW s, SessionOK(s), SessionLive(s) PROVE SessionLive(s)'
  <2>1. s.at # "idle" => s.row \in Id
    BY <1>9 DEF SessionOK
  <2>2. s.row \in DOMAIN worktree => s.row \in DOMAIN wip
    BY DEF LInv, BranchInv, BranchesOK
  <2>3. s.row \in DOMAIN worktree /\ (Last(wip[s.row]).row = s.row \/ s.row = t) =>
            Last(wip'[s.row]).row = s.row
    BY <1>1, <1>4, <1>5, <2>2
  <2> QED
    BY <1>3, <1>9, <2>1, <2>2, <2>3 DEF SessionLive, StayOver
<1>10. \A r : r = OnRow(a, "committed") => SessionLive(r)'
  <2>1. \A r : r = OnRow(a, "committed") => r.row = t /\ r.at = "committed" /\ ~r.rework
    BY DEF OnRow, Idle
  <2>2. t \in DOMAIN worktree' /\ Last(wip'[t]).row = t
    BY <1>1, <1>3, <1>4, <1>5
  <2> QED
    BY <2>1, <2>2 DEF SessionLive
<1> QED
  BY <1>6, <1>7, <1>8, <1>9, <1>10 DEF LiveOn

\* A freeze puts the commits of a row that is done on its MR branch.
LEMMA AdvanceLive ==
    ASSUME LInv, Live, Settled, StayOver, NEW t \in Id, FreezeAdvance(t)
    PROVE  LiveOn
<1>1. Over(t)
  BY DEF FreezeAdvance, At, Settled, Freezing, Over
<1>2. CASE UNCHANGED branches
  BY <1>2, QuietSteps DEF branches
<1>3. CASE ~UNCHANGED branches
  <2> DEFINE s == SlugOf(t)
  <2>1. /\ t \in DOMAIN wip /\ mr' = With(mr, s, wip[t])
        /\ lost' = {} => lost = {}
        /\ base' = [base EXCEPT ![t] = wip[t]]
        /\ UNCHANGED <<wip, worktree, rewritten>>
    BY <1>3 DEF FreezeAdvance
  <2>2. /\ DOMAIN wip \subseteq Id /\ Id \subseteq Id' /\ DOMAIN worktree \subseteq DOMAIN wip
        /\ \A u \in DOMAIN wip : base'[u] = IF u = t THEN wip[t] ELSE base[u]
    BY <2>1 DEF LInv, BranchInv, BranchesOK, StayOver, Id
  <2>3. /\ DOMAIN mr \subseteq DOMAIN mr'
        /\ \A x \in DOMAIN mr' : mr'[x] = IF x = s THEN wip[t] ELSE mr[x]
        /\ \A x \in DOMAIN mr' : x # s => x \in DOMAIN mr
    <3> HIDE DEF s
    <3> QED
      BY <2>1 DEF With
  <2>4. \A c \in Range(wip[t]) : Public(c)
    BY <1>1, <2>1 DEF Live, Published, Public
  <2>5. Published'
    <3>1. \A x \in DOMAIN mr' : \A c \in Range(mr'[x]) : Public(c)
      BY <2>3, <2>4 DEF Live, Published
    <3>2. \A u \in DOMAIN wip' : \A c \in Range(wip'[u]) : c.row = u \/ Public(c)
      BY <2>1 DEF Live, Published
    <3> QED
      BY <3>1, <3>2, PublicStays DEF Published
  <2>6. OwnTops'
    <3> SUFFICES ASSUME NEW u \in DOMAIN wip', ~Over(u)'
                 PROVE  /\ wip'[u] = base'[u] \/ Last(wip'[u]).row = u
                        /\ base'[u] = OriginMain \/ SlugOf(u) \in DOMAIN mr'
      BY DEF OwnTops
    <3>1. u \in DOMAIN wip /\ ~Over(u) /\ u # t
      BY <1>1, <2>1, <2>2 DEF StayOver
    <3> QED
      BY <2>1, <2>2, <2>3, <3>1 DEF Live, OwnTops
  <2>7. LateRewrites'
    BY <2>1, <2>2 DEF Live, LateRewrites, StayOver
  <2>8. ASSUME NEW r, SessionOK(r), SessionLive(r) PROVE SessionLive(r)'
    <3>1. r.at # "idle" => r.row \in Id
      BY <2>8 DEF SessionOK
    <3>2. r.row # t /\ r.row \in DOMAIN worktree => base'[r.row] = base[r.row]
      BY <2>2
    <3> QED
      BY <1>1, <2>1, <2>8, <3>1, <3>2 DEF SessionLive, StayOver
  <2> QED
    BY <2>5, <2>6, <2>7, <2>8 DEF LiveOn
<1> QED
  BY <1>2, <1>3

\* A branch is deleted of a row that has ended.
LEMMA DeleteLive ==
    ASSUME LInv, Live, StayOver, NEW t \in Id, Over(t), WipDeleted(t)
    PROVE  LiveOn
<1>1. CASE UNCHANGED <<wip, base>>
  BY <1>1, QuietSteps DEF WipDeleted
<1>2. CASE ~UNCHANGED <<wip, base>>
  <2>1. /\ t \notin DOMAIN worktree /\ wip' = Without(wip, t) /\ base' = Without(base, t)
        /\ UNCHANGED <<mr, worktree, rewritten, lost>>
    BY <1>2 DEF WipDeleted
  <2>2. /\ DOMAIN wip \subseteq Id /\ Id \subseteq Id' /\ DOMAIN worktree \subseteq DOMAIN wip
        /\ DOMAIN base = DOMAIN wip
    BY DEF LInv, BranchInv, BranchesOK, StayOver, Id
  <2>3. /\ DOMAIN wip' = DOMAIN wip \ {t}
        /\ \A u \in DOMAIN wip \ {t} : wip'[u] = wip[u] /\ base'[u] = base[u]
    BY <2>1, <2>2 DEF Without, Restrict
  <2>4. Published'
    BY <2>1, <2>3, PublicStays DEF Live, Published
  <2>5. OwnTops'
    BY <2>1, <2>2, <2>3 DEF Live, OwnTops, StayOver
  <2>6. LateRewrites'
    BY <2>1, <2>2 DEF Live, LateRewrites, StayOver
  <2>7. ASSUME NEW s, SessionOK(s), SessionLive(s) PROVE SessionLive(s)'
    <3>1. s.at # "idle" => s.row \in Id
      BY <2>7 DEF SessionOK
    <3>2. s.row \in DOMAIN worktree => wip'[s.row] = wip[s.row] /\ base'[s.row] = base[s.row]
      BY <2>1, <2>2, <2>3
    <3> QED
      BY <2>1, <2>7, <3>1, <3>2 DEF SessionLive, StayOver
  <2> QED
    BY <2>4, <2>5, <2>6, <2>7 DEF LiveOn
<1> QED
  BY <1>1, <1>2

\* What the session finds out in its step.
LEMMA OwnSession ==
    ASSUME LInv, Live, LiveOn, StayOver, NEW a \in Agent, NEW s, SessionMoves(a, s),
           AddWorktree(a) => session[a].row \in DOMAIN worktree',
           CommitStaged(a) => \A r : r = OnRow(a, "committed") => SessionLive(r)'
    PROVE  SessionLive(s)'
<1> DEFINE t == session[a].row
<1>1. /\ SessionOK(session[a]) /\ SessionLive(session[a]) /\ session[a] \in Session
      /\ session[a].at # "idle" => t \in Id
  BY DEF LInv, SessionsOK, SessionOK, Live
<1>2. DOMAIN worktree \subseteq DOMAIN wip
  BY DEF LInv, BranchInv, BranchesOK
<1>3. CASE s.at \in {"idle", "claimed", "resolved"}
  BY <1>3 DEF SessionLive
<1>4. CASE s = [OnRow(a, "submitting") EXCEPT !.tip = TipName(t)]
           /\ ResolveTip(a) /\ session[a].at = "working"
  <2>1. /\ UNCHANGED <<branches, task>> /\ s.at = "submitting" /\ s.row = t
        /\ ~s.rework /\ s.tip = TipName(t)
    BY <1>4 DEF ResolveTip, OnRow, Idle
  <2>2. ~Over(t) => t \in DOMAIN worktree /\ (TipName(t) # "mr" => base[t] = OriginMain)
    BY <1>1, <1>2, <1>4 DEF SessionLive, Live, OwnTops, TipName
  <2> QED
    BY <2>1, <2>2 DEF SessionLive, branches, Over
<1>5. CASE s = OnRow(a, "working") /\ AddWorktree(a)
  <2>1. s.at = "working" /\ s.row = t /\ ~s.rework
    BY <1>5 DEF OnRow, Idle
  <2> QED
    BY <1>5, <2>1 DEF SessionLive
<1>6. CASE s = session[a] /\ Edit(a)
  BY <1>1, <1>6 DEF LiveOn
<1>7. CASE s = [OnRow(a, "checked") EXCEPT !.rework =
                    t \in DOMAIN worktree /\ IsRework(t, session[a].tip)] /\ CheckRework(a)
  <2>1. /\ UNCHANGED <<branches, task>> /\ s.at = "checked" /\ s.row = t
        /\ s.rework <=> t \in DOMAIN worktree /\ IsRework(t, session[a].tip)
        /\ session[a].at = "submitting"
    BY <1>7 DEF CheckRework, OnRow, Idle
  <2>2. ASSUME ~Over(t), lost = {}, IsRework(t, session[a].tip), Last(wip[t]).row # t
        PROVE  FALSE
    <3>1. t \in DOMAIN wip /\ wip[t] = base[t] /\ wip[t] \in History
      BY <1>1, <1>2, <2>1, <2>2 DEF SessionLive, Live, OwnTops, LInv, BranchInv, BranchesOK
    <3>2. ~IsPrefix(wip[t], Named(t, session[a].tip))
      BY <2>2 DEF IsRework
    <3>3. CASE session[a].tip = "mr"
      <4>1. SlugOf(t) \in DOMAIN mr
        BY <1>1, <2>1, <3>3 DEF SessionOK
      <4>2. Named(t, session[a].tip) = Tip(t)
        BY <3>3, <4>1 DEF Tip, Named, TipName
      <4> QED
        BY <2>2, <3>1, <3>2, <4>2 DEF LInv, BranchInv, Based
    <3>4. CASE session[a].tip # "mr"
      <4>1. wip[t] = OriginMain /\ Named(t, session[a].tip) = OriginMain
        BY <1>1, <2>1, <2>2, <3>1, <3>4 DEF SessionLive, Named
      <4> QED
        BY <3>2, <4>1, MainIsHistory
    <3> QED
      BY <3>3, <3>4
  <2>3. ~Over(t) => t \in DOMAIN worktree
    BY <1>1, <2>1 DEF SessionLive
  <2> QED
    BY <2>1, <2>2, <2>3 DEF SessionLive, branches, Over
<1>8. CASE s = [OnRow(a, "staged") EXCEPT !.rework = session[a].rework] /\ StageAll(a)
  <2>1. /\ s.at = "staged" /\ s.row = t /\ s.rework = session[a].rework
        /\ session[a].at = "checked"
    BY <1>8 DEF StageAll, OnRow, Idle
  <2>2. \A r : r = session[a] => SessionLive(r)'
    BY <1>1 DEF LiveOn
  <2> QED
    BY <2>1, <2>2 DEF SessionLive
<1>9. CASE s = OnRow(a, "committed") /\ CommitStaged(a)
  BY <1>9
<1>10. CASE s = [OnRow(a, "named") EXCEPT !.sha = Last(wip[t])] /\ RevParse(a)
  <2>1. /\ s.at = "named" /\ s.row = t /\ ~s.rework /\ s.sha = Last(wip[t])
        /\ session[a].at = "committed" /\ UNCHANGED <<branches, task>>
    BY <1>10 DEF RevParse, OnRow, Idle
  <2>2. ~Over(t) => t \in DOMAIN worktree /\ Last(wip[t]).row = t
    BY <1>1, <2>1 DEF SessionLive
  <2> QED
    BY <2>1, <2>2 DEF SessionLive, branches, Over
<1>11. CASE s = [OnRow(a, "resolved") EXCEPT !.tip = TipName(t)]
  <2>1. s.at = "resolved"
    BY <1>11 DEF OnRow, Idle
  <2> QED
    BY <2>1, <1>3
<1>12. CASE s = Idle
  BY <1>12, <1>3 DEF Idle
<1>13. ASSUME NEW p, s = [Idle EXCEPT !.at = "claimed", !.row = p] PROVE SessionLive(s)'
  <2>1. s.at = "claimed"
    BY <1>13 DEF Idle
  <2> QED
    BY <2>1, <1>3
<1> QED
  BY <1>4, <1>5, <1>6, <1>7, <1>8, <1>9, <1>10, <1>11, <1>12, <1>13 DEF SessionMoves

\* The steps together.
LEMMA StaysLive ==
    ASSUME LInv, Order(task, NoTask), Settled, Live, OrderlyLocal
    PROVE  Live'
<1>1. StayOver
  <2>1. /\ Len(task) \in Nat /\ Len(task') \in Nat /\ Len(task) <= Len(task')
    BY BoardSteps, RowsStay DEF LInv, OrderlyLocal
  <2> QED
    BY <2>1, EndsStay DEF StayOver, Over
<1>2. ASSUME LiveOn, UNCHANGED session PROVE Live'
  BY <1>2 DEF LiveOn, Live, LInv, SessionsOK
<1>4. ASSUME NEW a \in Agent, SessionStep(a) PROVE Live'
  <2>1. PICK s : session' = [session EXCEPT ![a] = s] /\ SessionMoves(a, s)
    BY <1>4, SessionsMove
  <2>2. /\ LiveOn
        /\ AddWorktree(a) => session[a].row \in DOMAIN worktree'
        /\ CommitStaged(a) => \A r : r = OnRow(a, "committed") => SessionLive(r)'
    <3>1. CASE AddWorktree(a)
      <4>1. ~CommitStaged(a)
        BY <3>1 DEF AddWorktree, CommitStaged
      <4> QED
        BY <1>1, <3>1, <4>1, AddWorktreeLive
    <3>2. CASE CommitStaged(a)
      <4>1. ~AddWorktree(a)
        BY <3>2 DEF AddWorktree, CommitStaged
      <4> QED
        BY <1>1, <3>2, <4>1, CommitLive
    <3>3. CASE ~AddWorktree(a) /\ ~CommitStaged(a)
      <4>1. /\ UNCHANGED <<mr, wip, base, rewritten, lost>>
            /\ DOMAIN worktree' = DOMAIN worktree
        BY <1>4, <3>3 DEF SessionStep, ClaimWork, ResolveTip, Edit, CheckRework, StageAll,
           RevParse, SubmitCommit, SubmitNoOp, SessionEnds, branches
      <4> QED
        BY <1>1, <3>3, <4>1, QuietSteps
    <3> QED
      BY <3>1, <3>2, <3>3
  <2>3. SessionLive(s)'
    BY <1>1, <2>1, <2>2, OwnSession
  <2>4. \A b \in Agent : session'[b] = IF b = a THEN s ELSE session[b]
    BY <2>1 DEF LInv, SessionsOK
  <2>5. ASSUME NEW b \in Agent PROVE SessionLive(session[b])'
    <3>1. \A r : r = session[b] => SessionLive(r)'
      BY <2>2 DEF LiveOn, Live, LInv, SessionsOK
    <3>2. \A r : r = session'[b] => SessionLive(r)'
      BY <2>3, <2>4, <3>1
    <3> QED
      BY <3>2 DEF SessionLive
  <2> QED
    BY <2>2, <2>5 DEF LiveOn, Live
<1>5. ASSUME NEW t \in Id, VerbStep(t) PROVE Live'
  <2>1. UNCHANGED session
    BY <1>5 DEF VerbStep, ReadTask, FreezeOnly, Transition, FreezeGuard, FreezeAdvance,
       FreezeRemove, FreezeDelete, CleanupRemove, CleanupDelete, VerbEnds, WipDeleted
  <2>2. CASE FreezeAdvance(t)
    BY <1>1, <1>2, <2>1, <2>2, AdvanceLive
  <2>3. CASE FreezeRemove(t) \/ CleanupRemove(t)
    <3>1. Over(t)
      BY <2>3 DEF FreezeRemove, CleanupRemove, At, Settled, Freezing, Clearing, Over
    <3>2. UNCHANGED <<mr, wip, base, rewritten, lost>>
          /\ \A u \in DOMAIN worktree : u \in DOMAIN worktree' \/ u = t
      BY <2>3 DEF FreezeRemove, CleanupRemove, Without, Restrict
    <3>3. LiveOn
      BY <1>1, <3>1, <3>2, QuietSteps
    <3> QED
      BY <1>2, <2>1, <3>3
  <2>4. CASE FreezeDelete(t) \/ CleanupDelete(t)
    <3>1. Over(t) /\ WipDeleted(t)
      BY <2>4 DEF FreezeDelete, CleanupDelete, At, Settled, Freezing, Clearing, Over
    <3> QED
      BY <1>1, <1>2, <2>1, <3>1, DeleteLive
  <2>5. CASE UNCHANGED branches
    BY <1>1, <1>2, <2>1, <2>5, QuietSteps DEF branches
  <2> QED
    BY <1>5, <2>2, <2>3, <2>4, <2>5 DEF VerbStep, ReadTask, FreezeOnly, Transition, FreezeGuard,
       VerbEnds
<1>6. CASE UNCHANGED branches /\ UNCHANGED session
  BY <1>1, <1>2, <1>6, QuietSteps DEF branches
<1> QED
  BY <1>4, <1>5, <1>6 DEF OrderlyLocal, LocalNext, localvars, BoardStep, Elsewhere, Checkout

\* The invariant.
LEMMA SettledInvariance ==
    LocalSpec /\ [][OrderlyNext]_vars /\ [][FreezesFinished]_localvars
        => [](LInv /\ Order(task, NoTask) /\ Settled /\ Live)
<1>1. LocalInit => Settled /\ Order(task, NoTask) /\ Live
  <2> SUFFICES ASSUME LocalInit PROVE Settled /\ Order(task, NoTask) /\ Live
    OBVIOUS
  <2>1. Rows(task) = {}
    BY EmptySeq DEF LocalInit, Init, Rows
  <2>2. DOMAIN verb = {} /\ DOMAIN wip = {} /\ DOMAIN mr = {} /\ rewritten = {}
    BY DEF LocalInit
  <2>3. Settled
    BY <2>2 DEF Settled
  <2>4. Live
    BY <2>2 DEF LocalInit, Live, Published, OwnTops, LateRewrites, SessionLive, Idle
  <2> QED
    BY <2>1, <2>3, <2>4 DEF LocalInit, Order
<1>2. LInv /\ Order(task, NoTask) /\ Settled /\ Live /\ [LocalNext]_localvars /\ [OrderlyNext]_vars
      /\ [FreezesFinished]_localvars => (LInv /\ Order(task, NoTask) /\ Settled /\ Live)'
  BY EndsStay, StaysSettled, StaysLive DEF OrderlyLocal
<1> QED
  BY <1>1, <1>2, LocalInitHasLInv, PTL DEF LocalSpec

\* A commit that is on an MR branch, or on main, is replaced for rows that have ended only:
\* the check for a rework and the amend it decides on are commands of their own, and yet
\* no freeze comes between them as long as the row can be worked on.
THEOREM RewritesComeLate ==
    LocalSpec /\ [][OrderlyNext]_vars /\ [][FreezesFinished]_localvars => []RewritesAreLate
<1>1. Live => RewritesAreLate
  BY DEF Live, LateRewrites, RewritesAreLate, Over
<1> QED
  BY <1>1, SettledInvariance, PTL

\* Rework is never locked out: whatever sessions crash and wherever a freeze or a cleanup
\* is interrupted, a row that can be claimed has its worktree or no branch.
THEOREM ReworkResumes ==
    LocalSpec /\ [][OrderlyNext]_vars /\ [][FreezesFinished]_localvars => []ReworkCanResume
<1>1. Settled => ReworkCanResume
  BY DEF Settled, ReworkCanResume, Claimable
<1> QED
  BY <1>1, SettledInvariance, PTL

-----------------------------------------------------------------------------
(* Accepted work.                                                          *)

\* What a history holds, one that is ahead of it holds too.
LEMMA HeldAhead ==
    ASSUME NEW g \in History, NEW h \in History, IsPrefix(g, h), NEW t, NEW n, Holds(g, t, n)
    PROVE  Holds(h, t, n)
<1>1. Len(g) \in Nat /\ Len(h) \in Nat
  BY LenProperties DEF History
<1>2. Len(g) <= Len(h) /\ \A i \in 1..Len(g) : g[i] = h[i]
  BY PrefixByEntry DEF History
<1> QED
  BY <1>1, <1>2 DEF Holds

\* A commit on top holds all that came before it for its row.
LEMMA HeldOnTop ==
    ASSUME NEW h \in Seq(Commit), NEW c \in Commit, NEW n, n <= c.n
    PROVE  Holds(Append(h, c), c.row, n)
<1>1. /\ Len(h) \in Nat /\ Len(Append(h, c)) = Len(h) + 1
      /\ Append(h, c)[Len(h) + 1] = c
  BY AppendProperties, LenProperties
<1> DEFINE g == Append(h, c)
<1>2. Len(g) \in 1..Len(g) /\ g[Len(g)] = c
  BY <1>1
<1> HIDE DEF g
<1>3. c.n \in Nat /\ (c.n >= n <=> n <= c.n)
  BY DEF Commit
<1>4. Holds(g, c.row, n)
  BY <1>2, <1>3 DEF Holds
<1> QED
  BY <1>4 DEF g

\* The commits of a row are numbered.
Numbered == \A c \in objects : c.n <= Cardinality({d \in objects : d.row = c.row})

OnBranch(t, n) == t \in DOMAIN wip /\ Holds(wip[t], t, n)
Frozen(t, n) == Holds(Tip(t), t, n) \/ lost # {}

\* What was linked, and what is about to be, is on a branch, until its row has failed; and
\* a freeze that is past its second step has put it on the MR branch.
WorkKept ==
    /\ \A l \in linked :
        /\ l.sha.row = l.row
        /\ task[l.row].state = "failed" \/ OnBranch(l.row, l.sha.n) \/ Frozen(l.row, l.sha.n)
        /\ At(l.row, "remove worktree") \/ At(l.row, "delete wip") => Frozen(l.row, l.sha.n)
    /\ \A a \in Agent : session[a].at = "named" =>
        \/ Over(session[a].row)
        \/ OnBranch(session[a].row, session[a].sha.n) \/ Frozen(session[a].row, session[a].sha.n)

\* Commits go on being numbered, and a late one stands for all before it.
LEMMA CommitsCount ==
    ASSUME LInv, Numbered, NEW a \in Agent, CommitStaged(a)
    PROVE  /\ Numbered'
           /\ \A c \in objects' : c.row = session[a].row => OnBranch(c.row, c.n)'
<1> SUFFICES ASSUME NEW t, t = session[a].row, NEW sha, sha = NewCommit(t)
             PROVE  /\ Numbered'
                    /\ \A c \in objects' : c.row = t => OnBranch(c.row, c.n)'
  OBVIOUS
<1> DEFINE mine == {d \in objects : d.row = t}
<1>1. /\ sha \in Commit /\ sha.row = t /\ sha.n = Cardinality(mine) + 1
      /\ objects' = objects \cup {sha} /\ t \in DOMAIN wip
      /\ \E h \in Seq(Commit) : wip' = [wip EXCEPT ![t] = Append(h, sha)]
  <2>1. Len(task) \in Nat
    BY LenProperties DEF LInv, Inv, WellFormed
  <2>2. sha.n = Cardinality(mine) + 1
    BY DEF NewCommit
  <2>3. sha \in Commit /\ sha.row = t /\ objects' = objects \cup {sha} /\ t \in DOMAIN wip
    BY <2>1, CommitBranches, Zenon
  <2>4. \E h \in Seq(Commit) :
            Range(h) \subseteq Range(wip[t]) /\ wip' = [wip EXCEPT ![t] = Append(h, sha)]
    BY <2>1, CommitBranches, Zenon
  <2> HIDE DEF mine
  <2> QED
    BY <2>2, <2>3, <2>4
<1>2. /\ objects \subseteq Commit /\ IsFiniteSet(objects)
      /\ wip \in [DOMAIN wip -> History]
  BY DEF LInv, BranchInv, BranchesOK
<1>4. IsFiniteSet(mine) /\ Cardinality(mine) \in Nat
  <2>1. mine \in SUBSET objects
    OBVIOUS
  <2> HIDE DEF mine
  <2> QED
    BY <2>1, <1>2, FS_Subset, FS_CardinalityType
<1>5. \A c \in mine : c.n <= Cardinality(mine) /\ c.n \in Nat
  BY <1>2 DEF Numbered, Commit
<1>6. sha \notin mine
  BY <1>1, <1>4, <1>5
<1>7. Cardinality(mine \cup {sha}) = sha.n
  <2> HIDE DEF mine
  <2> QED
    BY <1>1, <1>4, <1>6, FS_AddElement
<1>8. \A c \in objects' : c.row = t => c.n <= sha.n /\ c.n \in Nat
  <2> SUFFICES ASSUME NEW c \in objects', c.row = t PROVE c.n <= sha.n /\ c.n \in Nat
    OBVIOUS
  <2>1. CASE c = sha
    BY <2>1, <1>1 DEF Commit
  <2>2. CASE c \in mine
    <3>1. c.n <= Cardinality(mine) /\ c.n \in Nat
      BY <2>2, <1>5
    <3> HIDE DEF mine
    <3> QED
      BY <3>1, <1>1, <1>4
  <2> QED
    BY <2>1, <2>2, <1>1
<1>9. {d \in objects' : d.row = t} = mine \cup {sha}
  BY <1>1
<1>10. Numbered'
  <2> SUFFICES ASSUME NEW c \in objects'
               PROVE  c.n <= Cardinality({d \in objects' : d.row = c.row})
    BY DEF Numbered
  <2>1. CASE c.row = t
    <3> HIDE DEF mine
    <3> QED
      BY <2>1, <1>7, <1>8, <1>9
  <2>2. CASE c.row # t
    <3>1. c \in objects /\ {d \in objects' : d.row = c.row} = {d \in objects : d.row = c.row}
      BY <2>2, <1>1
    <3> QED
      BY <3>1 DEF Numbered
  <2> QED
    BY <2>1, <2>2
<1>11. ASSUME NEW c \in objects', c.row = t PROVE OnBranch(c.row, c.n)'
  <2>1. PICK h \in Seq(Commit) : wip' = [wip EXCEPT ![t] = Append(h, sha)]
    BY <1>1
  <2>2. Holds(Append(h, sha), sha.row, c.n)
    BY <1>1, <1>8, <1>11, HeldOnTop
  <2>3. t \in DOMAIN wip' /\ wip'[t] = Append(h, sha)
    BY <2>1, <1>1
  <2> QED
    BY <1>1, <2>2, <2>3, <1>11 DEF OnBranch, Holds
<1> QED
  BY <1>10, <1>11

\* Commits are made at one place.
LEMMA NumberedStays ==
    ASSUME LInv, Numbered, [LocalNext]_localvars
    PROVE  Numbered'
<1>1. CASE UNCHANGED objects
  BY <1>1 DEF Numbered
<1>2. CASE \E a \in Agent : CommitStaged(a)
  BY <1>2, CommitsCount
<1> QED
  BY <1>1, <1>2 DEF LocalNext, localvars, branches, BoardStep, Elsewhere, SessionStep, ClaimWork,
     ResolveTip, AddWorktree, Edit, CheckRework, StageAll, RevParse, SubmitCommit, SubmitNoOp,
     SessionEnds, Checkout, VerbStep,
     ReadTask, FreezeOnly, Transition, FreezeGuard, FreezeAdvance, FreezeRemove, FreezeDelete,
     CleanupRemove, CleanupDelete, VerbEnds, WipDeleted

\* Only the second step of a freeze moves an MR branch.
LEMMA BranchesRest ==
    ASSUME [LocalNext]_localvars
    PROVE  \/ UNCHANGED <<mr, lost>>
           \/ \E p \in Id : FreezeAdvance(p) /\ p \in DOMAIN wip
<1>1. ASSUME NEW p \in Id, FreezeAdvance(p) PROVE UNCHANGED <<mr, lost>> \/ p \in DOMAIN wip
  BY <1>1 DEF FreezeAdvance, branches
<1>2. ASSUME NEW p \in Id, VerbStep(p) PROVE UNCHANGED <<mr, lost>> \/ FreezeAdvance(p)
  BY <1>2 DEF VerbStep, ReadTask, FreezeOnly, Transition, FreezeGuard, FreezeRemove,
     FreezeDelete, CleanupRemove, CleanupDelete, VerbEnds, WipDeleted, branches
<1>3. ASSUME NEW a \in Agent, SessionStep(a) PROVE UNCHANGED <<mr, lost>>
  BY <1>3 DEF SessionStep, ClaimWork, ResolveTip, AddWorktree, Edit, CheckRework, StageAll,
     CommitStaged, RevParse, SubmitCommit, SubmitNoOp, SessionEnds, branches
<1> QED
  BY <1>1, <1>2, <1>3 DEF LocalNext, localvars, branches, BoardStep, Elsewhere, Checkout

\* It moves the branch ahead, or what is lost is recorded.
LEMMA FrozenStays ==
    ASSUME LInv, [LocalNext]_localvars, NEW t, NEW n, Frozen(t, n)
    PROVE  Frozen(t, n)'
<1>1. CASE UNCHANGED <<mr, lost>>
  <2>1. Tip(t)' = Tip(t)
    BY <1>1 DEF Tip, Named, TipName
  <2> QED
    BY <1>1, <2>1 DEF Frozen, Holds
<1>2. ASSUME NEW p \in DOMAIN wip, FreezeAdvance(p) PROVE Frozen(t, n)'
  <2>1. CASE UNCHANGED branches
    BY <1>1, <2>1 DEF branches
  <2>2. CASE ~UNCHANGED branches
    <3>1. /\ mr' = With(mr, SlugOf(p), wip[p])
          /\ lost' = IF IsPrefix(Tip(p), wip[p]) THEN lost ELSE lost \cup {Tip(p)}
      BY <1>2, <2>2 DEF FreezeAdvance
    <3>2. CASE lost' # {}
      BY <3>2 DEF Frozen
    <3>3. CASE lost' = {}
      <4>1. lost = {} /\ IsPrefix(Tip(p), wip[p])
        BY <3>1, <3>3
      <4>2. Holds(Tip(t), t, n)
        BY <4>1 DEF Frozen
      <4>3. CASE SlugOf(t) = SlugOf(p)
        <5>1. Tip(t) = Tip(p)
          BY <4>3 DEF Tip, Named, TipName
        <5>2. wip[p] \in History /\ Tip(p) \in History
          BY TipIsHistory DEF LInv, BranchInv, BranchesOK
        <5>3. Holds(wip[p], t, n)
          BY <4>1, <4>2, <5>1, <5>2, HeldAhead
        <5>4. Tip(t)' = wip[p]
          BY <3>1, <4>3 DEF Tip, Named, TipName, With
        <5> QED
          BY <5>3, <5>4 DEF Frozen, Holds
      <4>4. CASE SlugOf(t) # SlugOf(p)
        <5>1. Tip(t)' = Tip(t)
          BY <3>1, <4>4 DEF Tip, Named, TipName, With
        <5> QED
          BY <4>2, <5>1 DEF Frozen, Holds
      <4> QED
        BY <4>3, <4>4
    <3> QED
      BY <3>2, <3>3
  <2> QED
    BY <2>1, <2>2
<1> QED
  BY <1>1, <1>2, BranchesRest

\* A freeze gets past its second step by putting the branch where the work is.
LEMMA AdvanceFreezes ==
    ASSUME LInv, [LocalNext]_localvars, NEW t, FreezeAdvance(t), At(t, "remove worktree")',
           NEW n, OnBranch(t, n) \/ Frozen(t, n)
    PROVE  Frozen(t, n)'
<1>1. verb[t] = "advance"
  BY DEF FreezeAdvance, At
<1>2. ~Exits(t)
  BY DEF Exits, Without, Restrict, At
<1>3. mr' = With(mr, SlugOf(t), wip[t])
  BY <1>2 DEF FreezeAdvance
<1>4. Tip(t)' = wip[t]
  BY <1>3 DEF Tip, Named, TipName, With
<1>5. CASE OnBranch(t, n)
  BY <1>4, <1>5 DEF OnBranch, Frozen, Holds
<1>6. CASE Frozen(t, n)
  BY <1>6, FrozenStays
<1> QED
  BY <1>5, <1>6

\* A commit of a row stays on the row's branch, or is amended there, until the branch goes.
LEMMA BranchStays ==
    ASSUME LInv, Numbered, [LocalNext]_localvars, NEW c \in objects, OnBranch(c.row, c.n)
    PROVE  \/ OnBranch(c.row, c.n)'
           \/ At(c.row, "delete wip") \/ At(c.row, "force delete")
<1> DEFINE Fine == \/ OnBranch(c.row, c.n)'
                   \/ At(c.row, "delete wip") \/ At(c.row, "force delete")
<1>1. CASE UNCHANGED wip
  BY <1>1 DEF OnBranch, Holds
<1>2. ASSUME NEW a \in Agent, AddWorktree(a) PROVE Fine
  <2>1. CASE wip' = wip
    BY <1>1, <2>1
  <2>2. CASE wip' # wip
    <3>1. /\ session[a].row \notin DOMAIN wip
          /\ \E tip : wip' = With(wip, session[a].row, tip)
      BY <1>2, <2>2 DEF AddWorktree, branches
    <3>2. c.row \in DOMAIN wip' /\ wip'[c.row] = wip[c.row]
      BY <3>1 DEF With, OnBranch
    <3> QED
      BY <3>2 DEF OnBranch, Holds
  <2> QED
    BY <2>1, <2>2
<1>3. ASSUME NEW a \in Agent, CommitStaged(a) PROVE Fine
  <2> SUFFICES ASSUME NEW t, t = session[a].row, NEW sha, sha = NewCommit(t) PROVE Fine
    OBVIOUS
  <2>1. Len(task) \in Nat
    BY LenProperties DEF LInv, Inv, WellFormed
  <2>2. PICK h \in Seq(Commit) : wip' = [wip EXCEPT ![t] = Append(h, sha)]
    BY <1>3, <2>1, CommitBranches
  <2>3. objects \subseteq objects'
    BY <1>3, <2>1, CommitBranches
  <2>4. CASE c.row = t
    BY <1>3, <2>3, <2>4, CommitsCount
  <2>5. CASE c.row # t
    <3>1. c.row \in DOMAIN wip' /\ wip'[c.row] = wip[c.row]
      BY <2>2, <2>5 DEF OnBranch
    <3> QED
      BY <3>1 DEF OnBranch, Holds
  <2> QED
    BY <2>4, <2>5
<1>4. ASSUME NEW p \in Id, WipDeleted(p), At(p, "delete wip") \/ At(p, "force delete") PROVE Fine
  <2>1. CASE c.row = p
    BY <1>4, <2>1
  <2>2. CASE c.row # p /\ wip' # wip
    <3>1. wip' = Without(wip, p)
      BY <1>4, <2>2 DEF WipDeleted
    <3>2. c.row \in DOMAIN wip' /\ wip'[c.row] = wip[c.row]
      BY <3>1, <2>2 DEF Without, Restrict, OnBranch
    <3> QED
      BY <3>2 DEF OnBranch, Holds
  <2> QED
    BY <1>1, <2>1, <2>2
<1>5. \/ UNCHANGED wip
      \/ \E a \in Agent : AddWorktree(a) \/ CommitStaged(a)
      \/ \E p \in Id : WipDeleted(p) /\ (At(p, "delete wip") \/ At(p, "force delete"))
  BY DEF LocalNext, localvars, branches, BoardStep, Elsewhere, SessionStep, ClaimWork,
     ResolveTip, Edit, CheckRework, StageAll, RevParse, SubmitCommit, SubmitNoOp, SessionEnds,
     Checkout, VerbStep,
     ReadTask, FreezeOnly, Transition, FreezeGuard, FreezeAdvance, FreezeRemove, FreezeDelete,
     CleanupRemove, CleanupDelete, VerbEnds
<1> QED
  BY <1>1, <1>2, <1>3, <1>4, <1>5

\* The late steps of a freeze are reached through its second one.
LEMMA VerbsReach ==
    ASSUME LInv, OrderlyLocal, NEW t, At(t, "remove worktree")' \/ At(t, "delete wip")'
    PROVE  \/ At(t, "remove worktree") \/ At(t, "delete wip")
           \/ FreezeAdvance(t) /\ At(t, "remove worktree")'
<1> DEFINE Late == At(t, "remove worktree")' \/ At(t, "delete wip")'
           Fine == \/ At(t, "remove worktree") \/ At(t, "delete wip")
                   \/ FreezeAdvance(t) /\ At(t, "remove worktree")'
<1>1. CASE UNCHANGED verb
  BY <1>1 DEF At
<1>2. ASSUME NEW p, Exits(p) PROVE Fine
  BY <1>2 DEF Exits, Without, Restrict, At
<1>3. ASSUME NEW p, NEW step, Goes(p, step), p # t PROVE Fine
  BY <1>3 DEF Goes, With, At
<1>4. ASSUME NEW p, NEW step, Goes(p, step), step \notin {"remove worktree", "delete wip"}
      PROVE  Fine
  BY <1>4 DEF Goes, With, At
<1>5. ASSUME NEW p \in Id, VerbStep(p) PROVE Fine
  <2>1. CASE \E step \in Step : ReadTask(p, step)
    BY <2>1, <1>4 DEF ReadTask
  <2>2. CASE FreezeOnly(p)
    BY <2>2, <1>4 DEF FreezeOnly
  <2>3. CASE Transition(p)
    BY <2>3, <1>2, <1>4 DEF Transition, Follows
  <2>4. CASE FreezeGuard(p)
    BY <2>4, <1>2, <1>4 DEF FreezeGuard
  <2>5. CASE FreezeAdvance(p)
    <3>1. Exits(p) \/ Goes(p, "remove worktree")
      BY <2>5 DEF FreezeAdvance
    <3>2. CASE p = t /\ Goes(p, "remove worktree")
      BY <2>5, <3>2 DEF Goes, With, At
    <3> QED
      BY <3>1, <3>2, <1>2, <1>3
  <2>6. CASE FreezeRemove(p)
    BY <2>6, <1>3 DEF FreezeRemove
  <2>7. CASE CleanupRemove(p)
    BY <2>7, <1>4 DEF CleanupRemove
  <2>8. CASE FreezeDelete(p) \/ CleanupDelete(p) \/ VerbEnds(p)
    BY <2>8, <1>2 DEF FreezeDelete, CleanupDelete, VerbEnds
  <2> QED
    BY <1>5, <2>1, <2>2, <2>3, <2>4, <2>5, <2>6, <2>7, <2>8 DEF VerbStep
<1> QED
  BY <1>1, <1>5 DEF OrderlyLocal, LocalNext, localvars, BoardStep, Elsewhere, SessionStep, Checkout,
     ClaimWork, ResolveTip, AddWorktree, Edit, CheckRework, StageAll, CommitStaged, RevParse,
     SubmitCommit, SubmitNoOp, SessionEnds

\* A commit waits to be submitted once it is named.
LEMMA CommitWaits ==
    ASSUME LInv, [LocalNext]_localvars, NEW a \in Agent, session'[a].at = "named"
    PROVE  session'[a] = session[a] \/ RevParse(a)
<1>1. session \in [Agent -> Session]
  BY DEF LInv, SessionsOK
<1>2. CASE UNCHANGED session
  BY <1>2
<1>3. ASSUME NEW b \in Agent, SessionStep(b) PROVE session'[a] = session[a] \/ RevParse(a)
  <2>1. PICK s : session' = [session EXCEPT ![b] = s] /\ SessionMoves(b, s)
    BY <1>3, SessionsMove
  <2>2. CASE b # a
    BY <1>1, <2>1, <2>2
  <2>3. CASE b = a
    <3>1. session'[a] = s /\ s.at = "named"
      BY <1>1, <2>1, <2>3
    <3> DEFINE t == session[a].row
               checks == t \in DOMAIN worktree /\ IsRework(t, session[a].tip)
    <3>2. CASE \/ s = [OnRow(a, "resolved") EXCEPT !.tip = TipName(t)]
               \/ s = [OnRow(a, "submitting") EXCEPT !.tip = TipName(t)]
               \/ s = OnRow(a, "working") \/ s = OnRow(a, "committed")
      BY <3>1, <3>2 DEF OnRow, Idle
    <3>3. CASE s = [OnRow(a, "checked") EXCEPT !.rework = checks]
      BY <3>1, <3>3 DEF OnRow, Idle
    <3>4. CASE s = [OnRow(a, "staged") EXCEPT !.rework = session[a].rework]
      BY <3>1, <3>4 DEF OnRow, Idle
    <3>5. CASE s = Idle
      BY <3>1, <3>5 DEF Idle
    <3>6. CASE s = session[a] \/ RevParse(a)
      BY <3>1, <3>6
    <3>7. \A p : s # [Idle EXCEPT !.at = "claimed", !.row = p]
      BY <3>1 DEF Idle
    <3> QED
      BY <2>1, <2>3, <3>2, <3>3, <3>4, <3>5, <3>6, <3>7, Zenon DEF SessionMoves
  <2> QED
    BY <2>2, <2>3
<1> QED
  BY <1>2, <1>3 DEF LocalNext, localvars, BoardStep, Elsewhere, Checkout, VerbStep,
     ReadTask, FreezeOnly, Transition, FreezeGuard, FreezeAdvance, FreezeRemove, FreezeDelete,
     CleanupRemove, CleanupDelete, VerbEnds, WipDeleted

\* A link is the commit of a session whose agent the board has at work on the row.
LEMMA LinkComes ==
    ASSUME LInv, [LocalNext]_localvars, NEW l \in linked', l \notin linked
    PROVE  \E a \in Agent :
            /\ session[a].at = "named" /\ l.row = session[a].row /\ l.sha = session[a].sha
            /\ task[l.row].state = "in_progress"
            /\ UNCHANGED <<branches, verb>>
<1>1. PICK a \in Agent : SubmitCommit(a)
  BY DEF LocalNext, localvars, BoardStep, Elsewhere, SessionStep, Checkout, ClaimWork,
     ResolveTip, AddWorktree, Edit, CheckRework, StageAll, CommitStaged, RevParse, SubmitNoOp,
     SessionEnds, VerbStep, ReadTask, FreezeOnly, Transition, FreezeGuard, FreezeAdvance,
     FreezeRemove, FreezeDelete, CleanupRemove, CleanupDelete, VerbEnds, WipDeleted
<1> SUFFICES ASSUME NEW t, t = session[a].row, NEW sha, sha = session[a].sha
             PROVE  /\ session[a].at = "named" /\ l.row = t /\ l.sha = sha
                    /\ task[l.row].state = "in_progress"
                    /\ UNCHANGED <<branches, verb>>
  OBVIOUS
<1>2. /\ session[a].at = "named" /\ UNCHANGED <<branches, verb>>
      /\ SubmitWork(t, a, {}) /\ linked' = linked \cup {[row |-> t, sha |-> sha]}
  BY <1>1 DEF SubmitCommit
<1>3. task[t].state = "in_progress"
  BY <1>2 DEF SubmitWork, InProgressBy
<1>4. l = [row |-> t, sha |-> sha]
  BY <1>2
<1> QED
  BY <1>2, <1>3, <1>4

\* A commit that is on its row's branch, or frozen, is so after any step but the last one
\* of a freeze that has frozen something else, or of a cleanup.
LEMMA WorkStays ==
    ASSUME LInv, Numbered, Settled, OrderlyLocal, NEW c \in objects,
           OnBranch(c.row, c.n) \/ Frozen(c.row, c.n)
    PROVE  \/ OnBranch(c.row, c.n)' \/ Frozen(c.row, c.n)'
           \/ At(c.row, "delete wip") /\ ~Frozen(c.row, c.n)
           \/ task[c.row].state = "failed"
<1>1. CASE Frozen(c.row, c.n)
  BY <1>1, FrozenStays DEF OrderlyLocal
<1>2. CASE OnBranch(c.row, c.n) /\ ~Frozen(c.row, c.n)
  <2>1. At(c.row, "force delete") => task[c.row].state = "failed"
    BY DEF Settled, At, Clearing
  <2> QED
    BY <1>2, <2>1, BranchStays DEF OrderlyLocal
<1> QED
  BY <1>1, <1>2

\* Accepted work, over a step.
LEMMA WorkKeptStays ==
    ASSUME LInv, Order(task, NoTask), Settled, Live, Numbered, WorkKept, OrderlyLocal
    PROVE  WorkKept'
<1>1. /\ LInv' /\ Settled' /\ Live' /\ [LocalNext]_localvars
      /\ \A t \in Id : task[t].state \in {"done", "failed"} => task'[t].state = task[t].state
  BY EndsStay, StaysSettled, StaysLive DEF OrderlyLocal
<1>2. linked \subseteq [row : Id, sha : objects]
  BY DEF LInv, LinksOK
<1>3. ASSUME NEW l \in linked
      PROVE  /\ l.sha.row = l.row
             /\ \/ task'[l.row].state = "failed"
                \/ OnBranch(l.row, l.sha.n)' \/ Frozen(l.row, l.sha.n)'
             /\ At(l.row, "remove worktree")' \/ At(l.row, "delete wip")'
                    => Frozen(l.row, l.sha.n)'
  <2>1. l.row \in Id /\ l.sha \in objects /\ l.sha.row = l.row
    BY <1>2, <1>3 DEF WorkKept
  <2>2. \/ task[l.row].state = "failed"
        \/ OnBranch(l.row, l.sha.n) \/ Frozen(l.row, l.sha.n)
    BY <1>3 DEF WorkKept
  <2>3. At(l.row, "remove worktree") \/ At(l.row, "delete wip") => Frozen(l.row, l.sha.n)
    BY <1>3 DEF WorkKept
  <2>4. CASE At(l.row, "remove worktree")' \/ At(l.row, "delete wip")'
    <3>1. \/ At(l.row, "remove worktree") \/ At(l.row, "delete wip")
          \/ FreezeAdvance(l.row) /\ At(l.row, "remove worktree")'
      BY <2>4, VerbsReach
    <3>2. CASE At(l.row, "remove worktree") \/ At(l.row, "delete wip")
      BY <3>2, <2>1, <2>3, <1>1, FrozenStays
    <3>3. CASE FreezeAdvance(l.row) /\ At(l.row, "remove worktree")'
      <4>1. task[l.row].state = "done"
        BY <3>3 DEF FreezeAdvance, At, Settled, Freezing
      <4> QED
        BY <3>3, <4>1, <2>1, <2>2, <1>1, AdvanceFreezes
    <3> QED
      BY <3>1, <3>2, <3>3
  <2>5. \/ task'[l.row].state = "failed"
        \/ OnBranch(l.row, l.sha.n)' \/ Frozen(l.row, l.sha.n)'
    <3>1. CASE task[l.row].state = "failed"
      BY <3>1, <2>1, <1>1
    <3>2. CASE OnBranch(l.row, l.sha.n) \/ Frozen(l.row, l.sha.n)
      BY <3>2, <2>1, <2>3, <1>1, WorkStays
    <3> QED
      BY <2>2, <3>1, <3>2
  <2> QED
    BY <2>1, <2>4, <2>5
<1>4. ASSUME NEW l \in linked', l \notin linked
      PROVE  /\ l.sha.row = l.row
             /\ OnBranch(l.row, l.sha.n)' \/ Frozen(l.row, l.sha.n)'
             /\ ~At(l.row, "remove worktree")' /\ ~At(l.row, "delete wip")'
  <2>1. PICK a \in Agent :
            /\ session[a].at = "named" /\ l.row = session[a].row /\ l.sha = session[a].sha
            /\ task[l.row].state = "in_progress"
            /\ UNCHANGED <<branches, verb>>
    BY <1>1, <1>4, LinkComes
  <2>2. /\ l.sha.row = l.row
        /\ OnBranch(l.row, l.sha.n) \/ Frozen(l.row, l.sha.n)
    BY <2>1 DEF WorkKept, Live, SessionLive, Over
  <2>3. ~At(l.row, "remove worktree") /\ ~At(l.row, "delete wip")
    BY <2>1 DEF Settled, At, Freezing
  <2>4. UNCHANGED <<mr, wip, lost, verb>>
    BY <2>1 DEF branches
  <2>5. Tip(l.row)' = Tip(l.row)
    BY <2>4 DEF Tip, Named, TipName
  <2> QED
    BY <2>1, <2>2, <2>3, <2>4, <2>5 DEF OnBranch, Frozen, Holds, At
<1>5. ASSUME NEW a \in Agent, session'[a].at = "named",
             NEW t, NEW sha, t = session'[a].row, sha = session'[a].sha
      PROVE  task'[t].state \in {"done", "failed"} \/ OnBranch(t, sha.n)' \/ Frozen(t, sha.n)'
  <2> SUFFICES ASSUME task'[t].state \notin {"done", "failed"}
               PROVE  OnBranch(t, sha.n)' \/ Frozen(t, sha.n)'
    OBVIOUS
  <2>1. sha.row = t /\ t \in Id' /\ t \in DOMAIN worktree'
    BY <1>1, <1>5 DEF Live, SessionLive, Over, LInv, SessionsOK, SessionOK
  <2>2. CASE session'[a] = session[a]
    <3>1. t \in Id /\ sha \in objects
      BY <1>5, <2>2 DEF LInv, SessionsOK, SessionOK
    <3>2. task[t].state \notin {"done", "failed"}
      BY <3>1, <1>1
    <3>3. OnBranch(t, sha.n) \/ Frozen(t, sha.n)
      BY <1>5, <2>2, <3>2 DEF WorkKept, Over
    <3>4. ~At(t, "delete wip")
      BY <3>2 DEF Settled, At, Freezing
    <3> QED
      BY <2>1, <3>1, <3>2, <3>3, <3>4, WorkStays
  <2>3. CASE RevParse(a)
    <3>1. session[a] \in Session /\ session \in [Agent -> Session]
      BY DEF LInv, SessionsOK
    <3>2. t = session[a].row /\ sha = Last(wip[t]) /\ UNCHANGED <<wip, worktree>>
      BY <1>5, <2>3, <3>1 DEF RevParse, OnRow, Idle, branches
    <3>3. t \in DOMAIN wip /\ wip[t] \in History
      BY <2>1, <3>2 DEF LInv, BranchInv, BranchesOK
    <3>4. sha \in Commit /\ Len(wip[t]) \in Nat /\ Len(wip[t]) \in 1..Len(wip[t])
          /\ wip[t][Len(wip[t])] = sha
      <4>1. wip[t] \in Seq(Commit) /\ wip[t] # <<>>
        BY <3>3 DEF History
      <4>2. Len(wip[t]) \in Nat \ {0}
        BY <4>1, EmptySeq, LenProperties
      <4>3. Len(wip[t]) \in 1..Len(wip[t])
        BY <4>2
      <4> QED
        BY <3>2, <4>1, <4>2, <4>3, ElementOfSeq DEF Last
    <3>5. sha.n >= sha.n
      BY <3>4 DEF Commit
    <3> QED
      BY <2>1, <3>2, <3>3, <3>4, <3>5 DEF OnBranch, Holds
  <2> QED
    BY <1>1, <1>5, <2>2, <2>3, CommitWaits
<1>6. \A a \in Agent : session'[a].at = "named" =>
        \/ Over(session[a].row)'
        \/ (OnBranch(session[a].row, session[a].sha.n) \/ Frozen(session[a].row, session[a].sha.n))'
  BY <1>5 DEF OnBranch, Frozen, Holds, Tip, Named, TipName, Over
<1> QED
  BY <1>3, <1>4, <1>6 DEF WorkKept

\* The invariant.
LEMMA WorkIsKept ==
    LocalSpec /\ [][OrderlyNext]_vars /\ [][FreezesFinished]_localvars
        => [](Numbered /\ WorkKept)
<1>1. LocalInit => Numbered /\ WorkKept
  <2> SUFFICES ASSUME LocalInit PROVE Numbered /\ WorkKept
    OBVIOUS
  <2>1. WorkKept
    BY DEF LocalInit, WorkKept, Idle
  <2>2. objects = {MainHead}
    BY MainIsHistory DEF LocalInit
  <2>3. Cardinality({d \in objects : d.row = MainHead.row}) \in Nat
    <3> DEFINE mine == {d \in objects : d.row = MainHead.row}
    <3>1. mine \in SUBSET objects
      OBVIOUS
    <3> HIDE DEF mine
    <3>2. IsFiniteSet(mine)
      BY <2>2, <3>1, FS_Singleton, FS_Subset
    <3> QED
      BY <3>2, FS_CardinalityType DEF mine
  <2>4. MainHead.n = 0
    BY DEF MainHead
  <2>5. Numbered
    <3> SUFFICES ASSUME NEW c \in objects
                 PROVE  c.n <= Cardinality({d \in objects : d.row = c.row})
      BY DEF Numbered
    <3>1. c = MainHead
      BY <2>2
    <3> QED
      BY <2>3, <2>4, <3>1
  <2> QED
    BY <2>1, <2>5
<1>2. (LInv /\ Order(task, NoTask) /\ Settled /\ Live) /\ (Numbered /\ WorkKept) /\ [LocalNext]_localvars
      /\ [OrderlyNext]_vars /\ [FreezesFinished]_localvars => (Numbered /\ WorkKept)'
  BY NumberedStays, WorkKeptStays DEF OrderlyLocal
<1> QED
  BY <1>1, <1>2, SettledInvariance, PTL DEF LocalSpec

\* Accepted work is not lost: the commit of a submission the board took is on the wip
\* branch of its row or on the MR branch, or amended there, until the row is given up or a
\* stale worktree has been frozen.
THEOREM AcceptedIsKept ==
    LocalSpec /\ [][OrderlyNext]_vars /\ [][FreezesFinished]_localvars => []AcceptedWorkIsKept
<1>1. WorkKept => AcceptedWorkIsKept
  BY DEF WorkKept, AcceptedWorkIsKept, OnBranch, Frozen
<1> QED
  BY <1>1, WorkIsKept, PTL
=============================================================================
