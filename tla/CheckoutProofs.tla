--------------------------- MODULE CheckoutProofs ---------------------------
(* Proofs about Checkout, for every set of commits, files, remotes and faults. *)
EXTENDS Checkout, TLAPS

-----------------------------------------------------------------------------
(* Lemmas about the operators *)

LEMMA TreeTyped == \A c \in MaybeCommit : Tree[c] \in [Paths -> Contents]
BY ConstantsOK

LEMMA MaterialTyped ==
  ASSUME NEW t \in [Paths -> Contents]
  PROVE  MaterialOf(t) \in [UnitFiles -> Materials]
BY DEF MaterialOf, Materials

LEMMA FetchedTyped ==
  ASSUME repo \in RepoType, remote \in RemoteType
  PROVE  FetchedRefs \in [Branches -> MaybeCommit]
BY DEF RepoType, RemoteType, FetchedRefs

LEMMA ConfigTyped ==
  ASSUME NEW cfg \in [url : Urls, branch : MaybeBranch], remote \in RemoteType
  PROVE  Asked(cfg) \in Branches /\ Tip(cfg) \in MaybeCommit
BY DEF Asked, Tip, RemoteType, MaybeBranch

LEMMA TipsTyped ==
  ASSUME NEW r \in RemoteType
  PROVE  AllTips(r) \subseteq Commits
BY DEF AllTips, RemoteType, MaybeCommit

\* What a sync reports of two commits has the type of changes.
LEMMA DiffTyped ==
  ASSUME NEW o, NEW n
  PROVE  Diff(o, n) \in ChangesType
BY DEF Diff, MarkWatched, Present, ChangesType

LEMMA FoundTyped ==
  ASSUME NEW n, NEW ch \in Found(n)
  PROVE  ch \in ChangesType
<1>1. /\ FromPresent \in ChangesType
      /\ Untouched \in ChangesType
  BY DEF FromPresent, Untouched, Present, ChangesType
<1>2. ch \in {FromPresent, Untouched, Diff(pre, n)}
  BY DEF Found
<1>3. QED
  BY <1>1, <1>2, DiffTyped

\* The heart of a pull: what goes in is the new commit's files over the old ones.
LEMMA FastForwardTyped ==
  ASSUME repo \in RepoType, remote \in RemoteType, branch \in Branches,
         Incoming # NoCommit, FastForward
  PROVE  repo' \in RepoType
<1> DEFINE merged == [p \in Paths |-> IF p \in Touched(repo.head, Incoming)
                                        THEN Tree[Incoming][p] ELSE repo.tree[p]]
<1>1. Incoming \in MaybeCommit
  BY DEF Incoming, RemoteType, RepoType
<1>2. merged \in [Paths -> Contents]
  BY <1>1, TreeTyped DEF RepoType
<1>3. repo' = [repo EXCEPT !.tracked[branch] = Incoming,
                           !.head = IF Ahead THEN @ ELSE Incoming,
                           !.tree = IF Ahead THEN @ ELSE merged]
  BY DEF FastForward
<1> HIDE DEF merged
<1>4. QED
  BY <1>1, <1>2, <1>3 DEF RepoType

-----------------------------------------------------------------------------
(* Types *)

LEMMA PublishTyped ==
  ASSUME TypeOK, NEW r \in RemoteType, RemoteBecomes(r)
  PROVE  TypeOK'
<1> USE DEF syncVars
<1>1. remote' \in RemoteType /\ want' \in [url : Urls, branch : MaybeBranch]
  BY DEF RemoteBecomes, TypeOK
<1>2. Tip(want)' \in MaybeCommit
  BY <1>1 DEF Asked, Tip, RemoteType, MaybeBranch
<1>3. tips' \subseteq Commits
  BY <1>2 DEF RemoteBecomes, TypeOK, MaybeCommit
<1>4. published' \subseteq Commits
  BY TipsTyped DEF RemoteBecomes, TypeOK
<1>5. pushes' \in 0..MaxPushes
  BY ConstantsOK DEF RemoteBecomes, TypeOK
<1>6. QED
  BY <1>1, <1>3, <1>4, <1>5 DEF RemoteBecomes, TypeOK

LEMMA AppliedTyped ==
  ASSUME TypeOK PROVE Applied \in [UnitFiles -> Materials]
<1> SUFFICES ASSUME NEW f \in UnitFiles PROVE Applied[f] \in Materials
  BY DEF Applied
<1>1. Material(repo.tree, f) \in Materials
  BY DEF TypeOK, RepoType, Materials
<1>2. Gone \in Materials /\ told[f] \in Materials
  BY DEF TypeOK, Materials
<1>3. Applied[f] \in {Material(repo.tree, f), Gone, told[f]}
  BY DEF Applied
<1>4. QED
  BY <1>1, <1>2, <1>3

LEMMA FaultTyped == ASSUME TypeOK, Fault PROVE faults' \in 0..MaxFaults
BY ConstantsOK DEF TypeOK, Fault

LEMMA TypeInit == Init => TypeOK
<1> SUFFICES ASSUME Init PROVE TypeOK
  OBVIOUS
<1>1. want \in [url : Urls, branch : MaybeBranch] /\ force \in BOOLEAN
  BY ConstantsOK DEF Init
<1>2. remote \in RemoteType
  BY ConstantsOK DEF Init, RemoteType
<1>3. published \subseteq Commits
  BY <1>2, TipsTyped DEF Init
<1>4. Tree[NoCommit] \in [Paths -> Contents]
  BY TreeTyped DEF MaybeCommit
<1>5. told \in [UnitFiles -> Materials]
  BY <1>4, MaterialTyped DEF Init
<1>6. repo \in RepoType
  BY <1>1, <1>4, ConstantsOK DEF Init, RepoType, MaybeCommit, MaybeBranch
<1>7. changes \in ChangesType
  BY DEF Init, Untouched, ChangesType
<1>8. /\ phase \in Commands \cup {"idle", "handle"} /\ ended \in {"none", "failed", "ok"}
      /\ pre \in MaybeCommit /\ urlChanged \in BOOLEAN /\ branch \in MaybeBranch
      /\ phase \in {"fetch", "reset", "pull"} => branch \in Branches
      /\ tips \subseteq Commits
  BY DEF Init, MaybeCommit, MaybeBranch
<1>9. faults \in 0..MaxFaults /\ pushes \in 0..MaxPushes
  BY ConstantsOK DEF Init
<1>10. QED
  BY <1>1, <1>2, <1>3, <1>5, <1>6, <1>7, <1>8, <1>9 DEF TypeOK

LEMMA TypeStep == TypeOK /\ [Next]_vars => TypeOK'
<1> SUFFICES ASSUME TypeOK, [Next]_vars PROVE TypeOK'
  OBVIOUS
<1> USE DEF vars, syncVars, remoteVars, frame, Commands, Abandon
<1>1. ASSUME NEW cfg \in Configs, NEW f \in ForceChoices, Begin(cfg, f) PROVE TypeOK'
  <2>1. cfg \in [url : Urls, branch : MaybeBranch] /\ f \in BOOLEAN
    BY ConstantsOK
  <2>2. Tip(cfg) \in MaybeCommit
    BY <2>1, ConfigTyped DEF TypeOK
  <2>3. tips' \subseteq Commits
    BY <1>1, <2>2 DEF Begin, MaybeCommit
  <2>4. changes' \in ChangesType
    BY <1>1 DEF Begin, Untouched, ChangesType
  <2>5. QED
    BY <1>1, <2>1, <2>3, <2>4 DEF Begin, TypeOK, MaybeCommit, MaybeBranch
<1>2. CASE Clone
  <2>1. /\ want \in [url : Urls, branch : MaybeBranch]
        /\ Asked(want) \in Branches /\ Tip(want) \in MaybeCommit
    BY ConfigTyped DEF TypeOK
  <2>2. repo' \in RepoType
    BY <1>2, <2>1, TreeTyped DEF Clone, TypeOK, RepoType, RemoteType, MaybeBranch
  <2>3. changes' \in ChangesType
    BY <1>2 DEF Clone, ChangesType, Present
  <2>4. QED
    BY <1>2, <2>2, <2>3 DEF Clone, TypeOK
<1>3. CASE CloneOfMissing
  BY <1>3 DEF CloneOfMissing, TypeOK
<1>4. CASE ReadHead
  <2>1. pre' \in MaybeCommit
    BY <1>4 DEF ReadHead, HeadReadings, TypeOK, RepoType, MaybeCommit
  <2>2. QED
    BY <1>4, <2>1 DEF ReadHead, TypeOK
<1>5. CASE SameUrl
  BY <1>5 DEF SameUrl, TypeOK
<1>6. CASE RefuseUrl
  BY <1>6 DEF RefuseUrl, TypeOK
<1>7. CASE ChangeUrl
  <2>1. repo' \in RepoType
    BY <1>7 DEF ChangeUrl, TypeOK, RepoType
  <2>2. QED
    BY <1>7, <2>1 DEF ChangeUrl, TypeOK
<1>8. CASE PickBranch
  <2>1. DefaultBranches \subseteq Branches
    BY DEF DefaultBranches, TypeOK, RepoType, MaybeBranch
  <2>2. branch' \in Branches
    BY <1>8, <2>1 DEF PickBranch, TypeOK, MaybeBranch
  <2>3. QED
    BY <1>8, <2>2 DEF PickBranch, TypeOK, MaybeBranch
<1>9. CASE Fetch
  <2>1. repo' \in RepoType
    BY <1>9, FetchedTyped DEF Fetch, NewRefs, TypeOK, RepoType
  <2>2. QED
    BY <1>9, <2>1 DEF Fetch, TypeOK
<1>10. CASE Reset
  <2>1. repo' \in RepoType
    BY <1>10, TreeTyped DEF Reset, MoveTo, TypeOK, RepoType
  <2>2. QED
    BY <1>10, <2>1 DEF Reset, TypeOK
<1>11. CASE ResetToMissing
  BY <1>11 DEF ResetToMissing, TypeOK
<1>12. CASE Pull
  <2>1. repo' \in RepoType
    BY <1>12, FastForwardTyped DEF Pull, CanPull, TypeOK
  <2>2. QED
    BY <1>12, <2>1 DEF Pull, TypeOK
<1>13. CASE PullRefused
  <2>1. branch \in Branches
    BY <1>13 DEF PullRefused, TypeOK
  <2>2. Incoming \in MaybeCommit
    BY <2>1 DEF Incoming, TypeOK, RepoType, RemoteType
  <2>3. [repo EXCEPT !.tracked[branch] = Incoming] \in RepoType
    BY <2>1, <2>2 DEF TypeOK, RepoType
  <2>4. repo' \in RepoType
    BY <1>13, <2>3 DEF PullRefused, TypeOK
  <2>5. QED
    BY <1>13, <2>4 DEF PullRefused, TypeOK
<1>14. CASE Compare
  <2>1. changes' \in ChangesType
    BY <1>14, FoundTyped DEF Compare
  <2>2. QED
    BY <1>14, <2>1 DEF Compare, TypeOK
<1>15. CASE Handle
  BY <1>15, AppliedTyped DEF Handle, TypeOK
<1>16. CASE CommandFails
  BY <1>16, FaultTyped DEF CommandFails, TypeOK
<1>17. CASE CloneKilled
  <2>1. /\ want \in [url : Urls, branch : MaybeBranch]
        /\ Asked(want) \in Branches /\ Tip(want) \in MaybeCommit
    BY ConfigTyped DEF TypeOK
  <2>2. repo' \in RepoType
    BY ZenonT(40), <1>17, <2>1 DEF CloneKilled, TypeOK, RepoType, RemoteType, MaybeBranch
  <2>3. QED
    BY <1>17, <2>2, FaultTyped DEF CloneKilled, TypeOK
<1>18. CASE FetchKilled
  <2>1. repo' \in RepoType
    BY <1>18, FetchedTyped DEF FetchKilled, TypeOK, RepoType
  <2>2. QED
    BY <1>18, <2>1, FaultTyped DEF FetchKilled, TypeOK
<1>19. CASE KilledAfterMove
  <2>1. ASSUME phase = "reset", MoveTo(repo.tracked[branch], Tree[repo.tracked[branch]])
        PROVE  repo' \in RepoType
    BY <2>1, TreeTyped DEF MoveTo, TypeOK, RepoType
  <2>2. ASSUME phase = "pull", CanPull, FastForward
        PROVE  repo' \in RepoType
    BY <2>2, FastForwardTyped DEF CanPull, TypeOK
  <2>3. repo' \in RepoType
    BY <1>19, <2>1, <2>2 DEF KilledAfterMove, TypeOK, RepoType
  <2>4. QED
    BY <1>19, <2>3, FaultTyped DEF KilledAfterMove, TypeOK
<1>20. CASE QuadcdDies
  BY <1>20, FaultTyped DEF QuadcdDies, TypeOK
<1>21. CASE StatusFetches
  <2>1. repo' \in RepoType
    BY <1>21, FetchedTyped DEF StatusFetches, TypeOK, RepoType
  <2>2. QED
    BY <1>21, <2>1 DEF StatusFetches, TypeOK
<1>22. ASSUME NEW u \in Urls, NEW b \in Branches, DeleteBranch(u, b) PROVE TypeOK'
  <2>1. [remote EXCEPT ![u].tips[b] = NoCommit] \in RemoteType
    BY DEF TypeOK, RemoteType, MaybeCommit
  <2>2. QED
    BY <1>22, <2>1, PublishTyped DEF DeleteBranch
<1>23. ASSUME NEW u \in Urls, NEW b \in Branches, SwitchDefault(u, b) PROVE TypeOK'
  <2>1. [remote EXCEPT ![u].default = b] \in RemoteType
    BY DEF TypeOK, RemoteType
  <2>2. QED
    BY <1>23, <2>1, PublishTyped DEF SwitchDefault
<1>24. ASSUME NEW u \in Urls, NEW b \in Branches, NEW c \in Commits, Push(u, b, c)
       PROVE  TypeOK'
  <2>1. [remote EXCEPT ![u].tips[b] = c] \in RemoteType
    BY DEF TypeOK, RemoteType, MaybeCommit
  <2>2. QED
    BY <1>24, <2>1, PublishTyped DEF Push
<1>25. CASE UNCHANGED vars
  BY <1>25 DEF TypeOK
<1>26. QED
  BY <1>1, <1>2, <1>3, <1>4, <1>5, <1>6, <1>7, <1>8, <1>9, <1>10, <1>11, <1>12, <1>13, <1>14,
     <1>15, <1>16, <1>17, <1>18, <1>19, <1>20, <1>21, <1>22, <1>23, <1>24, <1>25
     DEF Next, Sync, SyncStep, Failure, Others

\* Every variable keeps its type, and no git command is given an unknown branch.
THEOREM TypeCorrect == Spec => []TypeOK
BY TypeInit, TypeStep, PTL DEF Spec

-----------------------------------------------------------------------------
(* Reports agree with the working tree, whatever fails *)

\* Which phases belong to which kind of sync.
PhaseOK ==
  /\ phase \in {"fetch", "reset"} => force
  /\ phase = "pull" => ~force
  /\ phase = "clone" => ~repo.dotGit
  /\ phase \notin {"idle", "clone"} => repo.dotGit
  /\ ~repo.dotGit => repo.head = NoCommit

\* HEAD is where it was read until the sync itself moves it, and then the files that
\* differ between the two commits are those of the new one.
PreOK ==
  /\ phase \in {"url", "branch", "fetch", "reset", "pull"} => pre \in {NoCommit, repo.head}
  /\ phase = "post" /\ pre # NoCommit =>
       \A p \in Touched(pre, repo.head) : repo.tree[p] = Tree[repo.head][p]

IInv == TypeOK /\ PhaseOK /\ PreOK /\ ReportsAreTrue

\* What a successful pull does to the checkout.
LEMMA FastForwardFacts ==
  ASSUME TypeOK, branch \in Branches, Incoming # NoCommit, FastForward
  PROVE  /\ repo'.dotGit = repo.dotGit /\ repo'.origin = repo.origin
         /\ repo'.head \in {repo.head, Incoming}
         /\ ~Ahead => repo'.head = Incoming
         /\ \A p \in Touched(repo.head, repo'.head) : repo'.tree[p] = Tree[repo'.head][p]
         /\ repo.tree = Tree[repo.head] => repo'.tree = Tree[repo'.head]
         /\ repo'.tracked = [repo.tracked EXCEPT ![branch] = Incoming]
<1> DEFINE merged == [p \in Paths |-> IF p \in Touched(repo.head, Incoming)
                                        THEN Tree[Incoming][p] ELSE repo.tree[p]]
<1>1. Incoming \in MaybeCommit /\ repo \in RepoType
  BY DEF Incoming, TypeOK, RemoteType, RepoType
<1>2. repo' = [repo EXCEPT !.tracked[branch] = Incoming,
                           !.head = IF Ahead THEN @ ELSE Incoming,
                           !.tree = IF Ahead THEN @ ELSE merged]
  BY DEF FastForward
<1>3. \A p \in Touched(repo.head, Incoming) : merged[p] = Tree[Incoming][p]
  BY DEF Touched
<1>4. repo.tree = Tree[repo.head] => merged = Tree[Incoming]
  BY <1>1, TreeTyped DEF Touched, RepoType
<1>5. Touched(repo.head, repo.head) = {}
  BY DEF Touched
<1> HIDE DEF merged
<1>6. CASE Ahead
  <2>1. repo' = [repo EXCEPT !.tracked = [repo.tracked EXCEPT ![branch] = Incoming]]
    BY <1>1, <1>2, <1>6 DEF RepoType
  <2>2. QED
    BY <1>1, <1>5, <1>6, <2>1 DEF RepoType
<1>7. CASE ~Ahead
  <2>1. repo' = [repo EXCEPT !.tracked = [repo.tracked EXCEPT ![branch] = Incoming],
                             !.head = Incoming, !.tree = merged]
    BY <1>1, <1>2, <1>7 DEF RepoType
  <2>2. QED
    BY <1>1, <1>3, <1>4, <1>7, <2>1 DEF RepoType
<1>8. QED
  BY <1>6, <1>7

LEMMA ResetFacts ==
  ASSUME TypeOK, branch \in Branches, MoveTo(repo.tracked[branch], Tree[repo.tracked[branch]])
  PROVE  /\ repo'.dotGit = repo.dotGit /\ repo'.origin = repo.origin
         /\ repo'.head = repo.tracked[branch] /\ repo'.tree = Tree[repo'.head]
         /\ repo'.tracked = repo.tracked
BY DEF MoveTo, TypeOK, RepoType

\* What is found out about a checkout agrees with it.
LEMMA FoundTrue ==
  ASSUME TypeOK, PreOK, phase = "post", NEW n \in HeadReadings, NEW ch \in Found(n)
  PROVE  /\ ch.changed \subseteq Present(repo.tree)
         /\ ch.deleted \cap Present(repo.tree) = {}
<1>1. \/ ch \in {FromPresent, Untouched}
      \/ pre # NoCommit /\ n # NoCommit /\ ch = Diff(pre, n)
  BY DEF Found
<1>2. CASE ch \in {FromPresent, Untouched}
  BY <1>2 DEF FromPresent, Untouched
<1>3. CASE pre # NoCommit /\ n # NoCommit /\ ch = Diff(pre, n)
  <2>1. n = repo.head
    BY <1>3 DEF HeadReadings
  <2>2. \A p \in Touched(pre, n) : repo.tree[p] = Tree[n][p]
    BY <1>3, <2>1 DEF PreOK
  <2>3. Touched(pre, n) \cap UnitFiles \cap Present(Tree[n])
           = Touched(pre, n) \cap UnitFiles \cap Present(repo.tree)
    BY <2>2 DEF Present
  <2>4. QED
    BY <1>3, <2>3 DEF Diff, MarkWatched
<1>4. QED
  BY <1>1, <1>2, <1>3

LEMMA SafeInit == Init => PhaseOK /\ PreOK /\ ReportsAreTrue
BY DEF Init, PhaseOK, PreOK, ReportsAreTrue

LEMMA SafeStep == IInv /\ [Next]_vars => PhaseOK' /\ PreOK' /\ ReportsAreTrue'
<1> SUFFICES ASSUME IInv, [Next]_vars PROVE PhaseOK' /\ PreOK' /\ ReportsAreTrue'
  OBVIOUS
<1> USE DEF vars, syncVars, remoteVars, frame, Abandon, PhaseOK, PreOK, ReportsAreTrue
<1>0. TypeOK /\ PhaseOK /\ PreOK /\ ReportsAreTrue
  BY DEF IInv
<1>1. ASSUME NEW cfg \in Configs, NEW f \in ForceChoices, Begin(cfg, f)
      PROVE  PhaseOK' /\ PreOK' /\ ReportsAreTrue'
  BY <1>0, <1>1 DEF Begin
<1>2. CASE Clone
  <2>1. repo'.dotGit = TRUE /\ repo'.tree = Tree[Tip(want)]
    BY <1>2 DEF Clone
  <2>2. QED
    BY <1>0, <1>2, <2>1 DEF Clone
<1>3. CASE CloneOfMissing
  BY <1>0, <1>3 DEF CloneOfMissing
<1>4. CASE ReadHead
  BY <1>0, <1>4 DEF ReadHead, HeadReadings
<1>5. CASE SameUrl \/ RefuseUrl
  BY <1>0, <1>5 DEF SameUrl, RefuseUrl
<1>6. CASE ChangeUrl
  <2>1. repo'.dotGit = repo.dotGit /\ repo'.head = repo.head
    BY <1>0, <1>6 DEF ChangeUrl, TypeOK, RepoType
  <2>2. QED
    BY <1>0, <1>6, <2>1 DEF ChangeUrl
<1>7. CASE PickBranch
  BY <1>0, <1>7 DEF PickBranch
<1>8. CASE Fetch
  <2>1. repo'.dotGit = repo.dotGit /\ repo'.head = repo.head
    BY <1>0, <1>8 DEF Fetch, TypeOK, RepoType
  <2>2. QED
    BY <1>0, <1>8, <2>1 DEF Fetch
<1>9. CASE Reset
  <2>1. branch \in Branches
    BY <1>0, <1>9 DEF Reset, TypeOK
  <2>2. QED
    BY <1>0, <1>9, <2>1, ResetFacts DEF Reset
<1>10. CASE ResetToMissing
  BY <1>0, <1>10 DEF ResetToMissing
<1>11. CASE Pull
  <2>1. branch \in Branches
    BY <1>0, <1>11 DEF Pull, TypeOK
  <2>2. QED
    BY <1>0, <1>11, <2>1, FastForwardFacts DEF Pull, CanPull
<1>12. CASE PullRefused
  BY <1>0, <1>12 DEF PullRefused, TypeOK, RepoType
<1>13. CASE Compare
  BY <1>0, <1>13, FoundTrue DEF Compare
<1>14. CASE Handle
  BY <1>0, <1>14 DEF Handle
<1>15. CASE CommandFails \/ QuadcdDies
  BY <1>0, <1>15 DEF CommandFails, QuadcdDies
<1>16. CASE CloneKilled
  BY <1>0, <1>16 DEF CloneKilled, TypeOK, RepoType
<1>17. CASE FetchKilled
  BY <1>0, <1>17 DEF FetchKilled, TypeOK, RepoType
<1>18. CASE KilledAfterMove
  BY <1>0, <1>18, ResetFacts, FastForwardFacts DEF KilledAfterMove, CanPull, TypeOK
<1>19. CASE StatusFetches
  <2>1. repo'.dotGit = repo.dotGit /\ repo'.head = repo.head /\ repo'.tree = repo.tree
    BY <1>0, <1>19 DEF StatusFetches, TypeOK, RepoType
  <2>2. QED
    BY <1>0, <1>19, <2>1 DEF StatusFetches
<1>20. ASSUME NEW r, RemoteBecomes(r) PROVE PhaseOK' /\ PreOK' /\ ReportsAreTrue'
  BY <1>0, <1>20 DEF RemoteBecomes
<1>21. CASE UNCHANGED vars
  BY <1>0, <1>21
<1>22. QED
  BY <1>1, <1>2, <1>3, <1>4, <1>5, <1>6, <1>7, <1>8, <1>9, <1>10, <1>11, <1>12, <1>13, <1>14,
     <1>15, <1>16, <1>17, <1>18, <1>19, <1>20, <1>21
     DEF Next, Sync, SyncStep, Failure, Others, Push, DeleteBranch, SwitchDefault

\* What a sync reports agrees with the working tree, whatever failed before it.
THEOREM ReportsAreTrueAlways == Spec => []ReportsAreTrue
<1>1. Init => IInv
  BY TypeInit, SafeInit DEF IInv
<1>2. IInv /\ [Next]_vars => IInv'
  BY TypeStep, SafeStep DEF IInv
<1>3. IInv => ReportsAreTrue
  BY DEF IInv
<1>4. QED
  BY <1>1, <1>2, <1>3, PTL DEF Spec

Kept == repo.head # NoCommit /\ repo'.head # repo.head =>
          force \/ repo.head \in Past(repo'.head)

LEMMA KeepStep == IInv /\ [Next]_vars => Kept
<1> SUFFICES ASSUME IInv, [Next]_vars, repo.head # NoCommit, repo'.head # repo.head, ~force
             PROVE  repo.head \in Past(repo'.head)
  BY DEF Kept
<1> USE DEF vars, syncVars, remoteVars, frame
<1>1. TypeOK /\ PhaseOK
  BY DEF IInv
<1>2. ASSUME branch \in Branches, CanPull, FastForward PROVE repo.head \in Past(repo'.head)
  <2>1. ~Ahead
    BY <1>1, <1>2, FastForwardFacts DEF CanPull, FastForward, TypeOK, RepoType
  <2>2. repo'.head = Incoming /\ repo.head \in Past(Incoming)
    BY <1>1, <1>2, <2>1, FastForwardFacts DEF CanPull, Ahead
  <2>3. QED
    BY <2>2
<1>3. CASE Pull
  BY <1>1, <1>2, <1>3 DEF Pull, TypeOK
<1>4. CASE KilledAfterMove
  BY <1>1, <1>2, <1>4 DEF KilledAfterMove, PhaseOK, TypeOK
<1>5. CASE Clone \/ CloneKilled
  BY <1>1, <1>5 DEF Clone, CloneKilled, PhaseOK
<1>6. CASE Reset
  BY <1>1, <1>6 DEF Reset, PhaseOK
<1>7. CASE ChangeUrl \/ Fetch \/ PullRefused \/ FetchKilled \/ StatusFetches
  BY <1>1, <1>7 DEF ChangeUrl, Fetch, PullRefused, FetchKilled, StatusFetches, TypeOK, RepoType
<1>8. CASE UNCHANGED repo
  BY <1>8
<1>9. QED
  BY ZenonT(40), <1>3, <1>4, <1>5, <1>6, <1>7, <1>8
     DEF Next, Sync, SyncStep, Failure, Others, Push, DeleteBranch, SwitchDefault, RemoteBecomes,
         Begin, CloneOfMissing, ReadHead, SameUrl, RefuseUrl, PickBranch, ResetToMissing, Compare,
         Handle, CommandFails, QuadcdDies

\* An unforced sync never takes the checkout out of its history.
THEOREM UnforcedKeepsHistoryAlways == Spec => UnforcedKeepsHistory
<1>1. Init => IInv
  BY TypeInit, SafeInit DEF IInv
<1>2. IInv /\ [Next]_vars => IInv'
  BY TypeStep, SafeStep DEF IInv
<1>3. IInv /\ [Next]_vars => [Kept]_vars
  BY KeepStep
<1>4. QED
  BY <1>1, <1>2, <1>3, PTL DEF Spec, UnforcedKeepsHistory, Kept

-----------------------------------------------------------------------------
(* Nothing is missed when failures leave nothing half done after HEAD has moved *)

\* One remote; no command is killed, fails or is cut off by the death of quadcd
\* between the move of HEAD and the report, and no clone dies with a HEAD but
\* without files.
Recoverable ==
  /\ \A c \in Configs, d \in Configs : c.url = d.url
  /\ Fails \cap {"head", "diff"} = {}
  /\ Leftovers \subseteq {"unborn", "refs"}
  /\ Dies \cap {"post", "handle"} = {}

\* The checkout holds the files of HEAD, and always follows the one remote.
CheckoutOK == repo.tree = Tree[repo.head] /\ repo.origin = want.url /\ ~urlChanged
              /\ want \in Configs

\* What is told is what is checked out, or was when HEAD was read, or will be when the
\* changes have been applied.
ToldOK ==
  /\ phase \notin {"post", "handle"} => told = MaterialOf(repo.tree)
  /\ phase \in {"url", "branch", "fetch", "reset", "pull"} => pre = repo.head
  /\ phase = "post" => told = MaterialOf(Tree[pre])
  /\ phase = "handle" => Applied = MaterialOf(repo.tree)

\* Only published commits get into a checkout.
PublishedOK ==
  /\ AllTips(remote) \subseteq published
  /\ \A b \in Branches : repo.tracked[b] \in published \cup {NoCommit}
  /\ repo.head \in published \cup {NoCommit}
  /\ phase \in {"post", "handle"} => repo.head \in published

RInv == IInv /\ CheckoutOK /\ ToldOK /\ PublishedOK

LEMMA DiffTells ==
  ASSUME NEW o \in MaybeCommit, NEW n \in MaybeCommit, NEW f \in UnitFiles,
         repo.tree = Tree[n]
  PROVE  /\ f \in Diff(o, n).deleted \ Diff(o, n).changed => Material(Tree[n], f) = Gone
         /\ f \notin Diff(o, n).changed \cup Diff(o, n).deleted =>
              Material(Tree[o], f) = Material(Tree[n], f)
<1>1. f \in Diff(o, n).deleted => Material(Tree[n], f) = Gone
  BY DEF Diff, Present, Material
<1>2. ASSUME f \notin Diff(o, n).changed \cup Diff(o, n).deleted
      PROVE  Material(Tree[o], f) = Material(Tree[n], f)
  <2>1. f \in Paths /\ Watches[f] \subseteq Paths \ UnitFiles
    BY ConstantsOK
  <2>2. Tree[o][f] = Tree[n][f]
    BY <1>2, <2>1 DEF Diff, Touched
  <2>3. Tree[n][f] # Absent => Watches[f] \cap (Touched(o, n) \ UnitFiles) = {}
    BY <1>2 DEF Diff, MarkWatched, Present
  <2>4. Tree[n][f] # Absent => \A p \in Watches[f] : Tree[o][p] = Tree[n][p]
    BY <2>1, <2>3 DEF Touched
  <2>5. Tree[n][f] # Absent =>
          [p \in Watches[f] |-> Tree[o][p]] = [p \in Watches[f] |-> Tree[n][p]]
    BY <2>4
  <2>6. QED
    BY <2>2, <2>5 DEF Material
<1>3. QED
  BY <1>1, <1>2

\* Whatever a sync finds out turns what was told of the old commit into the new one.
LEMMA FoundTells ==
  ASSUME Recoverable, RInv, phase = "post", NEW n \in HeadReadings, NEW ch \in Found(n),
         NEW f \in UnitFiles
  PROVE  /\ f \in ch.deleted \ ch.changed => Material(repo.tree, f) = Gone
         /\ f \notin ch.changed \cup ch.deleted => told[f] = Material(repo.tree, f)
<1>1. n = repo.head /\ n \in Commits /\ n # NoCommit /\ pre \in MaybeCommit
  BY ConstantsOK DEF RInv, IInv, Recoverable, HeadReadings, PublishedOK, TypeOK, RepoType
<1>2. ~urlChanged /\ repo.tree = Tree[n]
  BY <1>1 DEF RInv, CheckoutOK
<1>3. told[f] = Material(Tree[pre], f)
  BY DEF RInv, ToldOK, MaterialOf
<1>4. "diff" \notin Fails
  BY DEF Recoverable
<1>5. \/ pre = NoCommit /\ ch = FromPresent
      \/ pre = n /\ ch = Untouched
      \/ ch = Diff(pre, n)
  BY <1>1, <1>2, <1>4 DEF Found
<1>6. CASE pre = NoCommit /\ ch = FromPresent
  <2>1. Material(Tree[NoCommit], f) = Gone
    BY ConstantsOK DEF Material
  <2>2. f \notin ch.changed => Material(repo.tree, f) = Gone
    BY <1>6 DEF FromPresent, Present, Material
  <2>3. QED
    BY <1>3, <1>6, <2>1, <2>2 DEF FromPresent
<1>7. CASE pre = n /\ ch = Untouched
  BY <1>2, <1>3, <1>7 DEF Untouched
<1>8. CASE ch = Diff(pre, n)
  BY <1>1, <1>2, <1>3, <1>8, DiffTells DEF MaybeCommit
<1>9. QED
  BY <1>5, <1>6, <1>7, <1>8

LEMMA RecoverInit == ASSUME Recoverable PROVE Init => CheckoutOK /\ ToldOK /\ PublishedOK
<1> SUFFICES ASSUME Init PROVE CheckoutOK /\ ToldOK /\ PublishedOK
  OBVIOUS
<1>1. CheckoutOK /\ ToldOK
  BY DEF Init, CheckoutOK, ToldOK
<1>2. PublishedOK
  BY DEF Init, PublishedOK
<1>3. QED
  BY <1>1, <1>2
\* Most steps leave all of this alone.
LEMMA RecoverKept ==
  ASSUME RInv, want' \in Configs,
         UNCHANGED <<urlChanged, told, changes>>, UNCHANGED published,
         AllTips(remote)' \subseteq published,
         repo'.tree = repo.tree, repo'.head = repo.head, repo'.origin = want'.url,
         \A b \in Branches : repo'.tracked[b] \in published \cup {NoCommit},
         \/ phase' \notin {"post", "handle"} /\ phase \notin {"post", "handle"}
         \/ phase' = phase,
         phase' \in {"url", "branch", "fetch", "reset", "pull"} => pre' = repo.head,
         phase' = "post" => pre' = pre
  PROVE  CheckoutOK' /\ ToldOK' /\ PublishedOK'
<1>1. CheckoutOK'
  BY DEF RInv, CheckoutOK
<1>2. PublishedOK'
  BY DEF RInv, PublishedOK
<1>3. Applied' = Applied
  BY DEF Applied
<1>4. ToldOK'
  BY <1>3 DEF RInv, ToldOK
<1>5. QED
  BY <1>1, <1>2, <1>4

LEMMA PublishKeeps ==
  ASSUME RInv, NEW r, RemoteBecomes(r)
  PROVE  CheckoutOK' /\ ToldOK' /\ PublishedOK'
<1> USE DEF RInv, RemoteBecomes, syncVars
<1>1. CheckoutOK'
  BY DEF CheckoutOK
<1>2. Applied' = Applied
  BY DEF Applied
<1>3. ToldOK'
  BY <1>2 DEF ToldOK
<1>4. AllTips(remote)' = AllTips(r)
  BY DEF AllTips
<1>5. PublishedOK'
  BY <1>4 DEF PublishedOK
<1>6. QED
  BY <1>1, <1>3, <1>5

LEMMA RecoverStep ==
  ASSUME Recoverable, RInv, [Next]_vars
  PROVE  CheckoutOK' /\ ToldOK' /\ PublishedOK'
<1> DEFINE Goal == CheckoutOK' /\ ToldOK' /\ PublishedOK'
<1> SUFFICES Goal
  OBVIOUS
<1> USE DEF vars, syncVars, remoteVars, frame, Abandon
<1>0. /\ TypeOK /\ PhaseOK /\ PreOK /\ CheckoutOK /\ ToldOK /\ PublishedOK
      /\ repo \in RepoType /\ remote \in RemoteType
  BY DEF RInv, IInv, TypeOK
<1>1. AllTips(remote) \subseteq published /\ want \in Configs /\ repo.origin = want.url
      /\ \A b \in Branches : repo.tracked[b] \in published \cup {NoCommit}
      /\ repo.head \in published \cup {NoCommit}
      /\ published \subseteq Commits
  BY <1>0 DEF PublishedOK, CheckoutOK, TypeOK
<1>2. ASSUME UNCHANGED remote PROVE UNCHANGED AllTips(remote)
  BY <1>2 DEF AllTips
<1>3. \A b \in Branches : FetchedRefs[b] \in published \cup {NoCommit}
  <2>1. \A b \in Branches : remote[repo.origin].tips[b] \in AllTips(remote) \cup {NoCommit}
    BY <1>0 DEF AllTips, RepoType
  <2>2. QED
    BY <1>1, <2>1 DEF FetchedRefs
<1>4. branch \in Branches => Incoming \in published \cup {NoCommit}
  BY <1>0, <1>1 DEF AllTips, Incoming, RepoType
<1>5. Tip(want) \in published \cup {NoCommit}
        /\ \A b \in Branches : remote[want.url].tips[b] \in published \cup {NoCommit}
  <2>1. want \in [url : Urls, branch : MaybeBranch] /\ Asked(want) \in Branches
    BY <1>0, ConfigTyped DEF TypeOK
  <2>2. QED
    BY <1>1, <2>1 DEF AllTips, Tip
<1>6. ASSUME NEW cfg \in Configs, NEW f \in ForceChoices, Begin(cfg, f) PROVE Goal
  <2>1. cfg.url = want.url
    BY <1>1 DEF Recoverable
  <2>2. /\ want' \in Configs /\ repo'.origin = want'.url /\ UNCHANGED <<repo, told, published>>
        /\ urlChanged' = FALSE /\ phase = "idle" /\ phase' \in {"head", "clone"}
    BY <1>1, <1>6, <2>1 DEF Begin
  <2>3. AllTips(remote)' \subseteq published
    BY <1>1, <1>2, <1>6 DEF Begin
  <2>4. CheckoutOK' /\ ToldOK'
    BY <1>0, <2>2 DEF CheckoutOK, ToldOK
  <2>5. PublishedOK'
    BY <1>0, <2>2, <2>3 DEF PublishedOK
  <2>6. QED
    BY <2>4, <2>5
<1>7. CASE Clone
  <2>1. /\ repo'.head = Tip(want) /\ repo'.tree = Tree[Tip(want)] /\ repo'.origin = want.url
        /\ repo'.tracked = remote[want.url].tips /\ Tip(want) # NoCommit
        /\ phase' = "handle" /\ UNCHANGED <<want, urlChanged, told, remote, published>>
        /\ changes' = [changed |-> Present(Tree[Tip(want)]), deleted |-> {}]
    BY <1>7 DEF Clone
  <2>2. CheckoutOK'
    BY <1>0, <2>1 DEF CheckoutOK
  <2>3. PublishedOK'
    BY <1>1, <1>2, <1>5, <2>1 DEF PublishedOK
  <2>4. told = MaterialOf(Tree[NoCommit])
    BY <1>0, <1>7 DEF ToldOK, CheckoutOK, PhaseOK, Clone
  <2>5. ASSUME NEW f \in UnitFiles, f \notin changes'.changed
        PROVE  told[f] = Material(repo'.tree, f)
    BY <2>1, <2>4, <2>5, ConstantsOK DEF MaterialOf, Material, Present
  <2>6. Applied' = MaterialOf(repo.tree)'
    BY <2>1, <2>5 DEF Applied, MaterialOf
  <2>7. ToldOK'
    BY <2>1, <2>6 DEF ToldOK
  <2>8. QED
    BY <2>2, <2>3, <2>7
<1>8. CASE CloneOfMissing \/ SameUrl \/ RefuseUrl \/ PickBranch \/ ResetToMissing \/ CommandFails
  <2>1. phase' \in {"url", "branch", "fetch", "reset", "pull"} => pre' = repo.head
    BY <1>0, <1>8 DEF ToldOK, CloneOfMissing, SameUrl, RefuseUrl, PickBranch, ResetToMissing,
                      CommandFails
  <2>2. QED
    BY <1>1, <1>2, <1>8, <2>1, RecoverKept
       DEF CloneOfMissing, SameUrl, RefuseUrl, PickBranch, ResetToMissing, CommandFails
<1>9. CASE ReadHead
  <2>1. pre' = repo.head
    BY <1>9 DEF ReadHead, HeadReadings, Recoverable
  <2>2. QED
    BY <1>1, <1>2, <1>9, <2>1, RecoverKept DEF ReadHead
<1>10. CASE ChangeUrl
  BY <1>1, <1>10 DEF ChangeUrl
<1>11. CASE Fetch
  <2>1. repo' = [repo EXCEPT !.tracked = FetchedRefs]
    BY <1>11 DEF Fetch, NewRefs
  <2>2. /\ repo'.tree = repo.tree /\ repo'.head = repo.head /\ repo'.origin = repo.origin
        /\ repo'.tracked = FetchedRefs
    BY <1>0, <2>1 DEF RepoType
  <2>3. pre' = repo.head
    BY <1>0, <1>11 DEF Fetch, ToldOK
  <2>4. QED
    BY <1>1, <1>2, <1>3, <1>11, <2>2, <2>3, RecoverKept DEF Fetch
<1>12. ASSUME phase \in {"reset", "pull"}, phase' = "post", repo'.origin = repo.origin,
              repo'.tree = Tree[repo'.head], repo'.head \in published,
              \A b \in Branches : repo'.tracked[b] \in published \cup {NoCommit},
              UNCHANGED <<want, urlChanged, pre, told, remote, published>>
       PROVE  Goal
  <2>1. CheckoutOK'
    BY <1>0, <1>12 DEF CheckoutOK
  <2>2. told = MaterialOf(Tree[pre])
    BY <1>0, <1>12 DEF ToldOK, CheckoutOK
  <2>3. ToldOK'
    BY <1>12, <2>2 DEF ToldOK, MaterialOf
  <2>4. PublishedOK'
    BY <1>1, <1>2, <1>12 DEF PublishedOK
  <2>5. QED
    BY <2>1, <2>3, <2>4
<1>13. CASE Reset
  <2>1. branch \in Branches
    BY <1>0, <1>13 DEF Reset, TypeOK
  <2>2. repo.tracked[branch] \in published
    BY <1>1, <1>13, <2>1 DEF Reset
  <2>3. QED
    BY <1>0, <1>1, <1>12, <1>13, <2>1, <2>2, ResetFacts DEF Reset
<1>14. CASE Pull
  <2>1. branch \in Branches /\ Incoming # NoCommit
    BY <1>0, <1>14 DEF Pull, CanPull, TypeOK
  <2>2. Incoming \in published
    BY <1>4, <2>1
  <2>3. repo'.head \in published
    BY <1>0, <1>1, <1>14, <2>1, <2>2, FastForwardFacts, ConstantsOK DEF Pull, Ahead, Past
  <2>4. repo'.tracked = [repo.tracked EXCEPT ![branch] = Incoming]
        /\ repo'.origin = repo.origin /\ repo'.tree = Tree[repo'.head]
    BY <1>0, <1>14, <2>1, FastForwardFacts DEF Pull, CheckoutOK
  <2>5. \A b \in Branches : repo'.tracked[b] \in published \cup {NoCommit}
    BY <1>0, <1>1, <2>1, <2>2, <2>4 DEF RepoType
  <2>6. QED
    BY <1>12, <1>14, <2>3, <2>4, <2>5 DEF Pull
<1>15. CASE PullRefused
  <2>1. branch \in Branches
    BY <1>0, <1>15 DEF PullRefused, TypeOK
  <2>2. /\ repo'.tree = repo.tree /\ repo'.head = repo.head /\ repo'.origin = repo.origin
        /\ \A b \in Branches : repo'.tracked[b] \in {repo.tracked[b], Incoming}
    BY <1>0, <1>15 DEF PullRefused, RepoType
  <2>3. QED
    BY <1>1, <1>2, <1>4, <1>15, <2>1, <2>2, RecoverKept DEF PullRefused
<1>16. CASE Compare
  <2>1. PICK n \in HeadReadings : changes' \in Found(n)
    BY <1>16 DEF Compare
  <2>2. phase = "post" /\ phase' = "handle"
        /\ UNCHANGED <<want, urlChanged, repo, told, remote, published>>
    BY <1>16 DEF Compare
  <2>3. Applied' = MaterialOf(repo.tree)'
    BY <2>1, <2>2, FoundTells DEF Applied, MaterialOf
  <2>4. CheckoutOK' /\ PublishedOK'
    BY <1>0, <1>2, <2>2 DEF CheckoutOK, PublishedOK
  <2>5. ToldOK'
    BY <2>2, <2>3 DEF ToldOK
  <2>6. QED
    BY <2>4, <2>5
<1>17. CASE Handle
  <2>1. phase = "handle" /\ phase' = "idle" /\ told' = Applied
        /\ UNCHANGED <<want, urlChanged, repo, remote, published>>
    BY <1>17 DEF Handle
  <2>2. told' = MaterialOf(repo.tree)'
    BY <1>0, <2>1 DEF ToldOK, MaterialOf
  <2>3. CheckoutOK' /\ PublishedOK'
    BY <1>0, <1>2, <2>1 DEF CheckoutOK, PublishedOK
  <2>4. ToldOK'
    BY <2>1, <2>2 DEF ToldOK
  <2>5. QED
    BY <2>3, <2>4
<1>18. CASE CloneKilled
  <2>1. "unchecked" \notin Leftovers
    BY DEF Recoverable
  <2>2. repo' = [repo EXCEPT !.dotGit = TRUE, !.origin = want.url]
    BY <1>18, <2>1 DEF CloneKilled
  <2>3. /\ repo'.tree = repo.tree /\ repo'.head = repo.head /\ repo'.origin = want.url
        /\ repo'.tracked = repo.tracked
    BY <1>0, <2>2 DEF RepoType
  <2>4. QED
    BY <1>1, <1>2, <1>18, <2>3, RecoverKept DEF CloneKilled
<1>19. CASE FetchKilled
  <2>1. PICK B \in SUBSET Branches :
          repo' = [repo EXCEPT !.tracked =
                     [b \in Branches |-> IF b \in B THEN FetchedRefs[b] ELSE repo.tracked[b]]]
    BY <1>19 DEF FetchKilled
  <2>2. /\ repo'.tree = repo.tree /\ repo'.head = repo.head /\ repo'.origin = repo.origin
        /\ \A b \in Branches : repo'.tracked[b] \in {repo.tracked[b], FetchedRefs[b]}
    BY <1>0, <2>1 DEF RepoType
  <2>3. QED
    BY <1>1, <1>2, <1>3, <1>19, <2>2, RecoverKept DEF FetchKilled
<1>20. CASE KilledAfterMove
  BY <1>20 DEF KilledAfterMove, Recoverable
<1>21. CASE QuadcdDies
  BY <1>1, <1>2, <1>21, RecoverKept DEF QuadcdDies, Recoverable
<1>22. CASE StatusFetches
  <2>1. /\ repo'.tree = repo.tree /\ repo'.head = repo.head /\ repo'.origin = repo.origin
        /\ repo'.tracked = FetchedRefs
    BY <1>0, <1>22 DEF StatusFetches, RepoType
  <2>2. phase \in {"url", "branch", "fetch", "reset", "pull"} => pre = repo.head
    BY <1>0 DEF ToldOK
  <2>3. QED
    BY <1>1, <1>2, <1>3, <1>22, <2>1, <2>2, RecoverKept DEF StatusFetches
<1>23. ASSUME NEW r, RemoteBecomes(r) PROVE Goal
  BY <1>23, PublishKeeps
<1>24. CASE UNCHANGED vars
  <2>1. phase \in {"url", "branch", "fetch", "reset", "pull"} => pre = repo.head
    BY <1>0 DEF ToldOK
  <2>2. QED
    BY <1>1, <1>2, <1>24, <2>1, RecoverKept
<1>25. QED
  BY <1>6, <1>7, <1>8, <1>9, <1>10, <1>11, <1>13, <1>14, <1>15, <1>16, <1>17, <1>18, <1>19,
     <1>20, <1>21, <1>22, <1>23, <1>24
     DEF Next, Sync, SyncStep, Failure, Others, Push, DeleteBranch, SwitchDefault

\* A sync that succeeds has reported everything its checkout holds, by itself or by
\* earlier ones, however many of them failed or died before HEAD moved.
THEOREM NothingMissedAlways == ASSUME Recoverable PROVE Spec => []NothingMissed
<1>1. Init => RInv
  BY TypeInit, SafeInit, RecoverInit DEF RInv, IInv
<1>2. RInv /\ [Next]_vars => RInv'
  BY TypeStep, SafeStep, RecoverStep DEF RInv, IInv
<1>3. RInv => NothingMissed
  BY DEF RInv, ToldOK, NothingMissed
<1>4. QED
  BY <1>1, <1>2, <1>3, PTL DEF Spec

LEMMA DeployInit == Init => Deployed!Init
BY TypeInit DEF Init, Deployed!Init, TypeOK

\* Publishing is publishing, handling is deploying, and all else is a stutter.
LEMMA DeployStep ==
  ASSUME RInv, RInv', [Next]_vars PROVE [Deployed!Next]_<<told, published>>
<1> USE DEF vars, syncVars, remoteVars, frame
<1>1. ASSUME NEW r, RemoteBecomes(r) PROVE Deployed!Publish
  BY <1>1 DEF RemoteBecomes, Deployed!Publish, RInv, IInv, TypeOK
<1>2. CASE Handle
  <2>1. told' = MaterialOf(Tree[repo.head]) /\ repo.head \in published
    BY <1>2 DEF Handle, RInv, ToldOK, CheckoutOK, PublishedOK
  <2>2. QED
    BY <1>2, <2>1 DEF Handle, Deployed!Next, Deployed!Deploy
<1>3. CASE UNCHANGED <<told, published>>
  BY <1>3
<1>4. QED
  BY <1>1, <1>2, <1>3
     DEF Next, Sync, SyncStep, Failure, Others, Push, DeleteBranch, SwitchDefault, Deployed!Next,
         StatusFetches, Begin, Clone, CloneOfMissing, ReadHead, SameUrl, RefuseUrl, ChangeUrl,
         PickBranch, Fetch, Reset, ResetToMissing, Pull, PullRefused, Compare, CommandFails,
         CloneKilled, FetchKilled, KilledAfterMove, QuadcdDies

\* The syncs of a repository implement Deploy: what the callers are told is always the
\* content of one published commit.
THEOREM OneCommitAtATimeAlways == ASSUME Recoverable PROVE Spec => OneCommitAtATime
<1>1. Init => RInv /\ Deployed!Init
  BY TypeInit, SafeInit, RecoverInit, DeployInit DEF RInv, IInv
<1>2. RInv /\ [Next]_vars => RInv'
  BY TypeStep, SafeStep, RecoverStep DEF RInv, IInv
<1>3. RInv /\ RInv' /\ [Next]_vars => [Deployed!Next]_<<told, published>>
  BY DeployStep
<1>4. QED
  BY <1>1, <1>2, <1>3, PTL DEF Spec, OneCommitAtATime, Deployed!Spec
-----------------------------------------------------------------------------
(* A sync gets what the configuration asks for *)

(***************************************************************************)
(* Two things lead a successful sync astray, and both are assumed away: no *)
(* branch is configured, and origin/HEAD still names an earlier default    *)
(* (vcs.rs:383); or the branch is gone from the remote, and a forced sync  *)
(* resets to what an earlier fetch left of it (vcs.rs:341).                *)
(***************************************************************************)
BranchesStay ==
  /\ \A cfg \in Configs : cfg.branch # NoBranch
  /\ TRUE \in ForceChoices =>
       /\ "delete" \notin Moves
       /\ \A r \in Remotes : \A cfg \in Configs : r[cfg.url].tips[cfg.branch] # NoCommit

\* The configuration of a run comes from outside, and a branch once there stays there.
AskedOK ==
  /\ want \in Configs /\ force \in ForceChoices
  /\ TRUE \in ForceChoices =>
       \A cfg \in Configs : remote[cfg.url].tips[cfg.branch] # NoCommit

\* During a sync every tip of the configured branch is recorded; git is asked for that
\* branch at that URL; what has been fetched of it, and then HEAD, is one of those tips.
TipsOK ==
  /\ phase # "idle" => Tip(want) \in tips \cup {NoCommit}
  /\ phase \in {"branch", "fetch", "reset", "pull"} => repo.origin = want.url
  /\ phase \in {"fetch", "reset", "pull"} => branch = want.branch
  /\ phase = "reset" => repo.tracked[branch] \in tips
  /\ phase \in {"post", "handle"} =>
       repo.head \in tips \/ (~force /\ tips \cap Past(repo.head) # {})

LEMMA AskedInit == ASSUME BranchesStay PROVE Init => AskedOK /\ TipsOK
<1> SUFFICES ASSUME Init PROVE AskedOK /\ TipsOK
  OBVIOUS
<1>1. want \in Configs /\ force \in ForceChoices /\ remote \in Remotes /\ phase = "idle"
  BY DEF Init
<1>2. QED
  BY <1>1 DEF BranchesStay, AskedOK, TipsOK

\* Commits are pushed to a branch, and the default changes; neither removes a branch.
LEMMA AskedStep ==
  ASSUME BranchesStay, AskedOK, TypeOK, [Next]_vars
  PROVE  AskedOK'
<1> USE DEF vars, syncVars, remoteVars, frame
<1>1. ASSUME NEW u \in Urls, NEW b \in Branches, NEW c \in Commits, Push(u, b, c)
      PROVE  AskedOK'
  <2>1. remote' = [remote EXCEPT ![u].tips[b] = c] /\ UNCHANGED <<want, force>>
    BY <1>1 DEF Push, RemoteBecomes
  <2>2. c # NoCommit
    BY ConstantsOK
  <2>3. \A v \in Urls, d \in Branches : remote'[v].tips[d] \in {remote[v].tips[d], c}
    BY <2>1 DEF TypeOK, RemoteType
  <2>4. \A cfg \in Configs : cfg.url \in Urls /\ cfg.branch \in Branches
    BY ConstantsOK DEF BranchesStay, MaybeBranch
  <2>5. QED
    BY <2>1, <2>2, <2>3, <2>4 DEF AskedOK
<1>2. ASSUME NEW u \in Urls, NEW b \in Branches, DeleteBranch(u, b) PROVE AskedOK'
  <2>1. TRUE \notin ForceChoices /\ UNCHANGED <<want, force>>
    BY <1>2 DEF DeleteBranch, BranchesStay, RemoteBecomes
  <2>2. QED
    BY <2>1 DEF AskedOK
<1>3. ASSUME NEW u \in Urls, NEW b \in Branches, SwitchDefault(u, b) PROVE AskedOK'
  <2>1. remote' = [remote EXCEPT ![u].default = b] /\ UNCHANGED <<want, force>>
    BY <1>3 DEF SwitchDefault, RemoteBecomes
  <2>2. \A v \in Urls : remote'[v].tips = remote[v].tips
    BY <2>1 DEF TypeOK, RemoteType
  <2>3. \A cfg \in Configs : cfg.url \in Urls
    BY ConstantsOK
  <2>4. QED
    BY <2>1, <2>2, <2>3 DEF AskedOK
<1>4. ASSUME NEW cfg \in Configs, NEW f \in ForceChoices, Begin(cfg, f) PROVE AskedOK'
  BY <1>4 DEF Begin, AskedOK
<1>5. CASE UNCHANGED <<want, force, remote>>
  BY <1>5 DEF AskedOK
<1>6. QED
  BY <1>1, <1>2, <1>3, <1>4, <1>5
     DEF Next, Sync, SyncStep, Failure, Others, StatusFetches, Clone, CloneOfMissing, ReadHead,
         SameUrl, RefuseUrl, ChangeUrl, PickBranch, Fetch, Reset, ResetToMissing, Pull,
         PullRefused, Compare, Handle, CommandFails, CloneKilled, FetchKilled,
         KilledAfterMove, QuadcdDies

\* A step that leaves the checkout and the sync alone may only add tips.
LEMMA TipsGrow ==
  ASSUME TipsOK, UNCHANGED <<phase, want, force, branch, repo>>, tips \subseteq tips',
         phase # "idle" => Tip(want)' \in tips' \cup {NoCommit}
  PROVE  TipsOK'
BY DEF TipsOK

LEMMA TipsStep ==
  ASSUME BranchesStay, AskedOK, TipsOK, IInv, [Next]_vars
  PROVE  TipsOK'
<1> USE DEF vars, syncVars, remoteVars, frame, Abandon
<1>0. /\ TypeOK /\ PhaseOK /\ repo \in RepoType /\ remote \in RemoteType
      /\ want \in [url : Urls, branch : MaybeBranch] /\ want.branch \in Branches
      /\ Tip(want) = remote[want.url].tips[want.branch] /\ Tip(want) \in MaybeCommit
      /\ force => Tip(want) # NoCommit
  <2>1. want \in [url : Urls, branch : MaybeBranch] /\ want.branch # NoBranch
    BY DEF IInv, TypeOK, AskedOK, BranchesStay
  <2>2. Tip(want) = remote[want.url].tips[want.branch]
    BY <2>1 DEF Tip, Asked
  <2>3. force => TRUE \in ForceChoices
    BY DEF AskedOK, IInv, TypeOK
  <2>4. QED
    BY <2>1, <2>2, <2>3, ConfigTyped DEF IInv, TypeOK, AskedOK, MaybeBranch
<1>1. ASSUME UNCHANGED <<want, remote>> PROVE Tip(want)' = Tip(want)
  BY <1>1 DEF Tip, Asked
<1>2. ASSUME NEW cfg \in Configs, NEW f \in ForceChoices, Begin(cfg, f) PROVE TipsOK'
  <2>1. Tip(want)' = Tip(cfg)
    BY <1>2 DEF Begin, Tip, Asked
  <2>2. QED
    BY <1>2, <2>1 DEF Begin, TipsOK
<1>3. CASE Clone
  <2>1. /\ repo'.head = Tip(want) /\ Tip(want) # NoCommit /\ phase = "clone"
        /\ phase' = "handle" /\ UNCHANGED <<want, force, tips, remote>>
    BY <1>3 DEF Clone
  <2>2. QED
    BY <1>1, <2>1 DEF TipsOK
<1>4. CASE phase' = "idle"
  BY <1>4 DEF TipsOK
<1>5. CASE ReadHead
  BY <1>1, <1>5 DEF ReadHead, TipsOK
<1>6. CASE SameUrl
  BY <1>1, <1>6 DEF SameUrl, TipsOK
<1>7. CASE ChangeUrl
  <2>1. repo'.origin = want.url
    BY <1>0, <1>7 DEF ChangeUrl, RepoType
  <2>2. QED
    BY <1>1, <1>7, <2>1 DEF ChangeUrl, TipsOK
<1>8. CASE PickBranch
  <2>1. branch' = want.branch
    BY <1>8, <1>0, ConstantsOK DEF PickBranch
  <2>2. QED
    BY <1>1, <1>8, <2>1 DEF PickBranch, TipsOK
\* What a fetch gets of the configured branch is its tip.
<1>9. ASSUME repo.origin = want.url, branch = want.branch, force
      PROVE  FetchedRefs[branch] = Tip(want) /\ Tip(want) # NoCommit
  BY <1>0, <1>9 DEF FetchedRefs
<1>10. CASE Fetch
  <2>1. /\ phase = "fetch" /\ phase' = "reset" /\ repo' = [repo EXCEPT !.tracked = FetchedRefs]
        /\ UNCHANGED <<want, force, branch, tips, remote>>
    BY <1>10 DEF Fetch, NewRefs
  <2>2. repo'.tracked = FetchedRefs /\ repo'.origin = repo.origin
    BY <1>0, <2>1 DEF RepoType
  <2>3. force /\ repo.origin = want.url /\ branch = want.branch /\ Tip(want) \in tips \cup {NoCommit}
    BY <1>0, <2>1 DEF TipsOK, PhaseOK
  <2>4. QED
    BY <1>1, <1>9, <2>1, <2>2, <2>3 DEF TipsOK
<1>11. CASE Reset
  <2>1. /\ phase = "reset" /\ phase' = "post"
        /\ MoveTo(repo.tracked[branch], Tree[repo.tracked[branch]])
        /\ UNCHANGED <<want, force, branch, tips, remote>>
    BY <1>11 DEF Reset
  <2>2. branch \in Branches
    BY <1>0, <2>1 DEF TypeOK
  <2>3. repo'.head = repo.tracked[branch]
    BY <1>0, <2>1, <2>2, ResetFacts
  <2>4. QED
    BY <1>1, <2>1, <2>3 DEF TipsOK
<1>12. CASE Pull
  <2>1. /\ phase = "pull" /\ phase' = "post" /\ CanPull /\ FastForward /\ ~force
        /\ UNCHANGED <<want, force, branch, tips, remote>>
    BY <1>0, <1>12 DEF Pull, PhaseOK
  <2>2. branch \in Branches /\ Incoming # NoCommit /\ Incoming = Tip(want) /\ Incoming \in tips
    BY <1>0, <2>1 DEF TypeOK, CanPull, Incoming, TipsOK
  <2>3. repo'.head \in {repo.head, Incoming} /\ (~Ahead => repo'.head = Incoming)
    BY <1>0, <2>1, <2>2, FastForwardFacts
  <2>4. repo'.head \in tips \/ tips \cap Past(repo'.head) # {}
    BY <2>2, <2>3 DEF Ahead
  <2>5. QED
    BY <1>1, <2>1, <2>2, <2>4 DEF TipsOK
<1>13. CASE Compare
  BY <1>1, <1>13 DEF Compare, TipsOK
<1>14. CASE StatusFetches
  <2>1. /\ repo' = [repo EXCEPT !.tracked = FetchedRefs]
        /\ UNCHANGED <<phase, want, force, branch, tips, remote>>
    BY <1>14 DEF StatusFetches
  <2>2. /\ repo'.tracked = FetchedRefs /\ repo'.origin = repo.origin /\ repo'.head = repo.head
    BY <1>0, <2>1 DEF RepoType
  <2>3. phase = "reset" => FetchedRefs[branch] \in tips
    BY <1>0, <1>9 DEF TipsOK, PhaseOK
  <2>4. QED
    BY <1>1, <2>1, <2>2, <2>3 DEF TipsOK
<1>15. ASSUME NEW r, RemoteBecomes(r) PROVE TipsOK'
  <2>1. /\ UNCHANGED <<phase, want, force, branch, repo>>
        /\ tips' = tips \cup ({Tip(want)'} \ {NoCommit})
    BY <1>15 DEF RemoteBecomes
  <2>2. QED
    BY <2>1, TipsGrow
<1>16. CASE UNCHANGED vars
  BY <1>1, <1>16, TipsGrow DEF TipsOK
<1>17. QED
  BY <1>2, <1>3, <1>4, <1>5, <1>6, <1>7, <1>8, <1>10, <1>11, <1>12, <1>13, <1>14, <1>15, <1>16
     DEF Next, Sync, SyncStep, Failure, Others, Push, DeleteBranch, SwitchDefault,
         CloneOfMissing, RefuseUrl, ResetToMissing, PullRefused, Handle, CommandFails,
         CloneKilled, FetchKilled, KilledAfterMove, QuadcdDies

\* A successful sync has taken the checkout to a commit that was the tip of the configured
\* branch while it ran, or found it ahead of one: for any remotes and changes of URL,
\* whatever failed before and whoever fetches or pushes meanwhile.
THEOREM SyncedToConfiguredAlways == ASSUME BranchesStay PROVE Spec => []SyncedToConfigured
<1>1. Init => IInv /\ AskedOK /\ TipsOK
  BY TypeInit, SafeInit, AskedInit DEF IInv
<1>2. IInv /\ AskedOK /\ TipsOK /\ [Next]_vars => IInv' /\ AskedOK' /\ TipsOK'
  BY TypeStep, SafeStep, AskedStep, TipsStep DEF IInv
<1>3. TipsOK => SyncedToConfigured
  BY DEF TipsOK, SyncedToConfigured
<1>4. QED
  BY <1>1, <1>2, <1>3, PTL DEF Spec
=============================================================================
