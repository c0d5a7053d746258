------------------------------- MODULE Prepull ------------------------------
(***************************************************************************)
(* pre_pull_images (sync/runner/mod.rs), dedup_images (sync/image.rs) and  *)
(* Podman::pull (sync/podman.rs): the images of the changed files of all   *)
(* source directories are collected, each is kept once, and podman is run  *)
(* for one after the other, under a time limit.  What a file asks for is   *)
(* modelled in ImageFile, and is given here; the sync waits all the while  *)
(* and holds the sync lock.                                                *)
(***************************************************************************)
EXTENDS Integers, Sequences, FiniteSets, Functions

CONSTANTS Sources,   \* the source directories, in order
          Lists,     \* the lists of changed files tried
          Asks       \* what the files of the directories may ask for

VARIABLES asks,      \* asks[d][f]: an image and its policy, or NoImage
          files,     \* the list of changed files
          stage,     \* "collect", "weigh", "keep", "start", "read", "wait", "term", "kill", "pulled"
          dir,       \* place of the source directory being read
          next,      \* place of the file, of the image, of the pull that is next
          refs,      \* all_images, as collected
          policies,  \* dedup_images: the policy of each image
          kept,      \* all_images, each image once
          podman,    \* the podman processes that are alive
          stderr,    \* whether the current one still has its end of the pipe
          broken     \* pulls whose podman was left to itself after an I/O error

listVars == <<asks, files, dir, refs, policies, kept>>
podmanVars == <<podman, stderr, broken>>
pullVars == <<listVars, stage, next, podmanVars>>

NoImage == <<>>
Ask(i, p, a) == [image |-> i, policy |-> p, auth |-> a]
Eagerness == [never |-> 0, missing |-> 1, newer |-> 2, always |-> 3]

\* Directories and files are listed in some order; who asks has an image and a known policy.
ASSUME PrepullConstantsOK ==
  /\ Sources \in Seq(Range(Sources))
  /\ \A l \in Lists : l \in Seq(Range(l))
  /\ \A ask \in Asks, d \in Range(Sources), l \in Lists : \A f \in Range(l) :
       ask[d][f] # NoImage => /\ {"image", "policy"} \subseteq DOMAIN ask[d][f]
                              /\ ask[d][f].policy \in DOMAIN Eagerness

PullInit ==
  /\ asks \in Asks /\ files \in Lists
  /\ stage = "collect" /\ dir = 1 /\ next = 1
  /\ refs = <<>> /\ policies = [i \in {} |-> "never"] /\ kept = <<>>
  /\ podman = {} /\ stderr = FALSE /\ broken = {}

-----------------------------------------------------------------------------
LoopEnds(then) ==
  /\ stage' = then /\ next' = 1
  /\ UNCHANGED <<listVars, podmanVars>>

\* No image-bearing file has changed: no directory is read.
NoFiles ==
  /\ stage = "collect" /\ files = <<>>
  /\ LoopEnds("pulled")

AskOf(d, f) == asks[Sources[d]][files[f]]

\* One directory after the other, and in each the listed files it has.
Collect ==
  /\ stage = "collect" /\ dir <= Len(Sources) /\ next <= Len(files)
  /\ refs' = IF AskOf(dir, next) = NoImage THEN refs ELSE Append(refs, AskOf(dir, next))
  /\ next' = next + 1
  /\ UNCHANGED <<asks, files, stage, dir, policies, kept, podmanVars>>

NextDirectory ==
  /\ stage = "collect" /\ files # <<>> /\ dir <= Len(Sources) /\ next > Len(files)
  /\ dir' = dir + 1 /\ next' = 1
  /\ UNCHANGED <<asks, files, stage, refs, policies, kept, podmanVars>>

Collected ==
  /\ stage = "collect" /\ files # <<>> /\ dir > Len(Sources)
  /\ LoopEnds("weigh")

\* Mutant: the first to ask for an image has its way.
FirstPolicy(p, q) == p

MoreEager(p, q) == IF Eagerness[p] < Eagerness[q] THEN q ELSE p

\* The first loop of dedup_images: each image gets the most eager policy of all ...
Weigh ==
  /\ stage = "weigh" /\ next <= Len(refs)
  /\ LET r == refs[next] IN
     policies' = [i \in DOMAIN policies \cup {r.image} |->
                    IF i # r.image THEN policies[i]
                    ELSE IF i \in DOMAIN policies THEN MoreEager(policies[i], r.policy)
                    ELSE r.policy]
  /\ next' = next + 1
  /\ UNCHANGED <<asks, files, stage, dir, refs, kept, podmanVars>>

Weighed ==
  /\ stage = "weigh" /\ next > Len(refs)
  /\ LoopEnds("keep")

\* ... and the second keeps the first reference to each, with that policy.
Keep ==
  /\ stage = "keep" /\ next <= Len(refs)
  /\ LET r == refs[next] IN
     kept' = IF \E n \in DOMAIN kept : kept[n].image = r.image THEN kept
             ELSE Append(kept, [r EXCEPT !.policy = policies[r.image]])
  /\ next' = next + 1
  /\ UNCHANGED <<asks, files, stage, dir, refs, policies, podmanVars>>

Kept ==
  /\ stage = "keep" /\ next > Len(refs)
  /\ LoopEnds("start")

-----------------------------------------------------------------------------
PullReturns ==
  /\ next' = next + 1 /\ stage' = "start"
  /\ UNCHANGED listVars

AllPulled ==
  /\ stage = "start" /\ next > Len(kept)
  /\ stage' = "pulled"
  /\ UNCHANGED <<listVars, next, podmanVars>>

StartPull ==
  /\ stage = "start" /\ next <= Len(kept)
  /\ podman' = podman \cup {next} /\ stderr' = TRUE
  /\ stage' = "read"
  /\ UNCHANGED <<listVars, next, broken>>

\* There is no podman, or it cannot be run.
CannotStart ==
  /\ stage = "start" /\ next <= Len(kept)
  /\ PullReturns
  /\ UNCHANGED podmanVars

\* communicate().read() returns when podman has closed its stderr ...
ReadToEnd ==
  /\ stage = "read" /\ ~stderr
  /\ stage' = "wait"
  /\ UNCHANGED <<listVars, next, podmanVars>>

\* ... or fails, and what becomes of podman is not looked at ...
ReadFails ==
  /\ stage = "read" /\ stderr
  /\ broken' = broken \cup {next}
  /\ PullReturns
  /\ UNCHANGED <<podman, stderr>>

\* Mutant: nobody ends a podman that takes too long.
TimeOutWaits ==
  /\ stage = "read" /\ stderr
  /\ stage' = "wait"
  /\ UNCHANGED <<listVars, next, podmanVars>>

\* ... or has taken PODMAN_PULL_TIMEOUT, and podman is asked to end.
TimeOut ==
  /\ stage = "read" /\ stderr
  /\ stage' = "term"
  /\ UNCHANGED <<listVars, next, podmanVars>>

\* job.wait(), which has no time limit
Waited ==
  /\ stage = "wait" /\ next \notin podman
  /\ PullReturns
  /\ UNCHANGED podmanVars

\* wait_timeout: until podman has ended, or for five seconds
TermAwaited ==
  /\ stage = "term"
  /\ stage' = "kill"
  /\ UNCHANGED <<listVars, next, podmanVars>>

\* Mutant: a podman that was asked to end is taken for ended.
LeavePodman ==
  /\ stage = "kill"
  /\ PullReturns
  /\ UNCHANGED podmanVars

KillPodman ==
  /\ stage = "kill"
  /\ podman' = podman \ {next} /\ stderr' = FALSE
  /\ PullReturns
  /\ UNCHANGED broken

\* podman: closes its stderr, and ends
PodmanCloses ==
  /\ next \in podman /\ stderr
  /\ stderr' = FALSE
  /\ UNCHANGED <<listVars, stage, next, podman, broken>>

PodmanEnds ==
  /\ \E p \in podman :
       /\ podman' = podman \ {p}
       /\ stderr' = (stderr /\ p # next)
  /\ UNCHANGED <<listVars, stage, next, broken>>

Pulls ==
  \/ NoFiles \/ Collect \/ NextDirectory \/ Collected \/ Weigh \/ Weighed \/ Keep \/ Kept
  \/ AllPulled \/ StartPull \/ CannotStart \/ ReadToEnd
  \/ ReadFails \/ TimeOut \/ Waited \/ TermAwaited \/ KillPodman

PullNext == Pulls \/ PodmanCloses \/ PodmanEnds

(***************************************************************************)
(* quadcd goes on; a podman that still has its stderr may hang for ever,   *)
(* one that has closed it is on its way out.                               *)
(***************************************************************************)
PodmanLeaves == ~stderr /\ PodmanEnds
PullFairness == WF_pullVars(Pulls) /\ WF_pullVars(PodmanLeaves)

-----------------------------------------------------------------------------
Pulling == stage \in {"start", "read", "wait", "term", "kill"}

\* What the changed files ask for.
AllAsked == {AskOf(d, f) : d \in DOMAIN Sources, f \in DOMAIN files} \ {NoImage}

(***************************************************************************)
(* Every image a changed file asks for is pulled once, as eagerly as any   *)
(* of the files wants: a "newer" of one repository is not lost behind the  *)
(* "missing" of another (dedup_images).                                    *)
(***************************************************************************)
OnceAndEagerly ==
  Pulling =>
    /\ IsInjective([n \in DOMAIN kept |-> kept[n].image])
    /\ {kept[n].image : n \in DOMAIN kept} = {r.image : r \in AllAsked}
    /\ \A n \in DOMAIN kept :
         LET wanted == {r.policy : r \in {s \in AllAsked : s.image = kept[n].image}}
         IN /\ kept[n].policy \in wanted
            /\ \A p \in wanted : Eagerness[p] <= Eagerness[kept[n].policy]

(***************************************************************************)
(* When podman is run for an image, no podman of an earlier pull is alive, *)
(* except after an I/O error: a pull that timed out is ended for good,     *)
(* even if podman does not mind being asked to (Podman::pull).             *)
(***************************************************************************)
NoPodmanLeftBehind == podman \subseteq {next} \cup broken

(***************************************************************************)
(* Pulling ends, whatever podman does short of closing its stderr and      *)
(* staying: no registry that hangs keeps the sync, and its lock, for ever. *)
(***************************************************************************)
PullingEnds == stage = "collect" ~> stage = "pulled"
=============================================================================
