--------------------------- MODULE ReadersProofs ----------------------------
(***************************************************************************)
(* Sequential parts of quadcd: the images that are pulled (Prepull), the   *)
(* command line (CommandLine), a sync from the command line (ManualSync)   *)
(* and the settings of a unit file (UnitSettings).  Each is a machine of   *)
(* its own.                                                                *)
(***************************************************************************)
EXTENDS Prepull, CommandLine, ManualSync, UnitSettings, FiniteSetTheorems, TLAPS

-----------------------------------------------------------------------------
(***************************************************************************)
(* Prepull.  The three loops, one after the other: what is collected so    *)
(* far, what is weighed so far, what is kept so far.                       *)
(***************************************************************************)
PullSpec == PullInit /\ [][PullNext]_pullVars

Stages == {"collect", "weigh", "keep", "start", "read", "wait", "term", "kill", "pulled"}

\* A reference as it is kept.
Policed(r) == [r EXCEPT !.policy = policies[r.image]]

PullTyped ==
  /\ asks \in Asks /\ files \in Lists
  /\ stage \in Stages /\ dir \in Nat \ {0} /\ next \in Nat \ {0}
  /\ refs \in Seq(AllAsked)
  /\ kept \in Seq(Range(kept))
  /\ \A n \in DOMAIN kept : \E k \in DOMAIN refs : kept[n] = Policed(refs[k])

\* No file that was read is forgotten.
Gathered ==
  \A d \in DOMAIN Sources, f \in DOMAIN files :
    AskOf(d, f) # NoImage /\ (stage = "collect" => d < dir \/ (d = dir /\ f < next)) =>
      \E n \in DOMAIN refs : refs[n] = AskOf(d, f)

\* The policies after the first m references.
WeighedUpTo(m) ==
  /\ DOMAIN policies = {refs[k].image : k \in 1..m}
  /\ \A k \in 1..m : /\ policies[refs[k].image] \in DOMAIN Eagerness
                     /\ Eagerness[refs[k].policy] <= Eagerness[policies[refs[k].image]]
                     /\ \E j \in 1..m : /\ refs[j].image = refs[k].image
                                        /\ refs[j].policy = policies[refs[k].image]

\* What is kept of the first m references.
KeptUpTo(m) == \A k \in 1..m : \E n \in DOMAIN kept : kept[n].image = refs[k].image

LoopsInOrder ==
  /\ stage = "collect" => DOMAIN policies = {}
  /\ stage = "weigh" => next <= Len(refs) + 1 /\ WeighedUpTo(next - 1)
  /\ stage = "keep" => next <= Len(refs) + 1 /\ WeighedUpTo(Len(refs)) /\ KeptUpTo(next - 1)
  /\ Pulling => WeighedUpTo(Len(refs)) /\ KeptUpTo(Len(refs))
  /\ stage \in {"collect", "weigh"} => kept = <<>>

KeptOnce == \A n, m \in DOMAIN kept : kept[n].image = kept[m].image => n = m

\* Only while a pull is being waited for is there a podman that nobody has given up on.
PodmanAccountedFor ==
  /\ stage \notin {"read", "wait", "term", "kill"} => podman \subseteq broken
  /\ podman \subseteq {next} \cup broken

PullInv == PullTyped /\ Gathered /\ LoopsInOrder /\ KeptOnce /\ PodmanAccountedFor

\* Everything a file asks for is a reference with an image and a policy.
LEMMA AsksAreReferences ==
  ASSUME asks \in Asks, files \in Lists, NEW r \in AllAsked
  PROVE  /\ "image" \in DOMAIN r /\ "policy" \in DOMAIN r
         /\ r.policy \in DOMAIN Eagerness
<1>1. PICK d \in DOMAIN Sources, f \in DOMAIN files : r = AskOf(d, f) /\ r # NoImage
  BY DEF AllAsked
<1>2. Sources[d] \in Range(Sources) /\ files[f] \in Range(files)
  BY DEF Range
<1> QED BY <1>1, <1>2, PrepullConstantsOK DEF AskOf

LEMMA PoliciesAreOrdered ==
  ASSUME NEW p \in DOMAIN Eagerness, NEW q \in DOMAIN Eagerness
  PROVE  /\ Eagerness[p] \in Nat
         /\ MoreEager(p, q) \in {p, q}
         /\ Eagerness[p] <= Eagerness[MoreEager(p, q)]
         /\ Eagerness[q] <= Eagerness[MoreEager(p, q)]
BY DEF Eagerness, MoreEager

LEMMA PullStarts == PullInit => PullInv
<1> SUFFICES ASSUME PullInit PROVE PullInv
  OBVIOUS
<1>1. PullTyped
  BY DEF PullInit, PullTyped, Stages, Range
<1>2. Gathered
  <2> SUFFICES ASSUME NEW d \in DOMAIN Sources, NEW f \in DOMAIN files, d < 1 \/ (d = 1 /\ f < 1)
               PROVE  FALSE
    BY DEF PullInit, Gathered
  <2>1. d \in 1..Len(Sources) /\ f \in 1..Len(files)
    BY PrepullConstantsOK DEF PullInit
  <2> QED BY <2>1
<1>3. LoopsInOrder /\ KeptOnce /\ PodmanAccountedFor
  BY DEF PullInit, LoopsInOrder, KeptOnce, PodmanAccountedFor, Pulling
<1> QED BY <1>1, <1>2, <1>3 DEF PullInv

-----------------------------------------------------------------------------
\* What a step that leaves the lists alone preserves.
LEMMA ListsStay ==
  ASSUME PullInv, UNCHANGED listVars
  PROVE  /\ AllAsked' = AllAsked
         /\ asks' \in Asks /\ files' \in Lists /\ dir' \in Nat \ {0}
         /\ refs' \in Seq(AllAsked')
         /\ kept' \in Seq(Range(kept'))
         /\ \A n \in DOMAIN kept' : \E k \in DOMAIN refs' : kept'[n] = Policed(refs[k])'
         /\ KeptOnce'
         /\ \A m : WeighedUpTo(m) => WeighedUpTo(m)'
         /\ \A m : KeptUpTo(m) => KeptUpTo(m)'
<1>1. AllAsked' = AllAsked /\ KeptOnce'
  BY DEF PullInv, KeptOnce, AllAsked, AskOf, listVars
<1>2. (\A m : WeighedUpTo(m) => WeighedUpTo(m)') /\ (\A m : KeptUpTo(m) => KeptUpTo(m)')
  BY DEF WeighedUpTo, KeptUpTo, listVars
<1> QED BY <1>1, <1>2 DEF PullInv, PullTyped, listVars, Policed

\* A list that is gone through is left with all of it done.
LEMMA LoopsEnd ==
  ASSUME PullInv, NoFiles \/ Collected \/ Weighed \/ Kept
  PROVE  PullInv'
<1>0. UNCHANGED <<listVars, podmanVars>> /\ next' = 1
  BY DEF NoFiles, Collected, Weighed, Kept, LoopEnds
<1>1. PullTyped'
  <2>1. stage' \in Stages
    BY DEF NoFiles, Collected, Weighed, Kept, LoopEnds, Stages
  <2> QED BY <1>0, <2>1, ListsStay DEF PullTyped
<1>2. Gathered'
  <2> SUFFICES ASSUME NEW d \in DOMAIN Sources, NEW f \in DOMAIN files, AskOf(d, f) # NoImage
               PROVE  \E n \in DOMAIN refs : refs[n] = AskOf(d, f)
    BY <1>0 DEF Gathered, listVars, AskOf
  <2>1. d \in 1..Len(Sources) /\ f \in 1..Len(files) /\ dir \in Nat
    BY PrepullConstantsOK DEF PullInv, PullTyped
  <2>2. stage = "collect" => d < dir
    BY <2>1 DEF NoFiles, Collected, Weighed, Kept
  <2> QED BY <2>2 DEF PullInv, Gathered
<1>3. LoopsInOrder'
  <2>1. Len(refs) \in Nat /\ refs' = refs /\ policies' = policies /\ kept' = kept
    BY <1>0 DEF PullInv, PullTyped, listVars
  <2>2. CASE NoFiles
    BY <2>1, <2>2 DEF NoFiles, LoopEnds, LoopsInOrder, Pulling
  <2>3. CASE Collected
    <3>1. WeighedUpTo(0)'
      BY <2>1, <2>3 DEF Collected, PullInv, LoopsInOrder, WeighedUpTo
    <3> QED BY <2>1, <2>3, <3>1 DEF Collected, LoopEnds, LoopsInOrder, Pulling, PullInv
  <2>4. CASE Weighed
    <3>1. next - 1 = Len(refs)
      BY <2>1, <2>4 DEF Weighed, PullInv, LoopsInOrder, PullTyped
    <3>2. WeighedUpTo(Len(refs))'
      <4>1. WeighedUpTo(Len(refs))
        BY <2>4, <3>1 DEF Weighed, PullInv, LoopsInOrder
      <4> QED BY <2>1, <4>1 DEF WeighedUpTo
    <3>3. KeptUpTo(0)'
      BY DEF KeptUpTo
    <3> QED BY <2>1, <2>4, <3>2, <3>3 DEF Weighed, LoopEnds, LoopsInOrder, Pulling
  <2>5. CASE Kept
    <3>1. next - 1 = Len(refs)
      BY <2>1, <2>5 DEF Kept, PullInv, LoopsInOrder, PullTyped
    <3>2. WeighedUpTo(Len(refs))' /\ KeptUpTo(Len(refs))'
      BY <1>0, <2>1, <2>5, <3>1 DEF Kept, PullInv, LoopsInOrder, WeighedUpTo, KeptUpTo
    <3> QED BY <2>1, <2>5, <3>2 DEF Kept, LoopEnds, LoopsInOrder, Pulling
  <2> QED BY <2>2, <2>3, <2>4, <2>5
<1>4. KeptOnce'
  BY <1>0, ListsStay
<1>5. PodmanAccountedFor'
  <2>1. podman \subseteq broken /\ podman' = podman /\ broken' = broken
    BY <1>0 DEF PullInv, PodmanAccountedFor, NoFiles, Collected, Weighed, Kept, podmanVars
  <2> QED BY <2>1 DEF PodmanAccountedFor
<1> QED BY <1>1, <1>2, <1>3, <1>4, <1>5 DEF PullInv
-----------------------------------------------------------------------------
LEMMA CollectPreserves == ASSUME PullInv, Collect PROVE PullInv'
<1>0. /\ UNCHANGED <<asks, files, stage, dir, policies, kept, podmanVars>>
      /\ stage = "collect" /\ next' = next + 1 /\ next \in Nat /\ dir \in Nat
      /\ refs \in Seq(AllAsked) /\ AllAsked' = AllAsked
  BY DEF Collect, PullInv, PullTyped, AllAsked, AskOf
<1>1. dir \in DOMAIN Sources /\ next \in DOMAIN files
  BY <1>0, PrepullConstantsOK DEF Collect, PullInv, PullTyped
<1>2. AskOf(dir, next) # NoImage => AskOf(dir, next) \in AllAsked
  BY <1>1 DEF AllAsked
<1>3. refs' \in Seq(AllAsked)
  BY <1>0, <1>2 DEF Collect
<1>4. \A n \in DOMAIN refs : n \in DOMAIN refs' /\ refs'[n] = refs[n]
  BY <1>0, <1>2 DEF Collect
<1>5. AskOf(dir, next) # NoImage => \E n \in DOMAIN refs' : refs'[n] = AskOf(dir, next)
  <2> SUFFICES ASSUME AskOf(dir, next) # NoImage
               PROVE  \E n \in DOMAIN refs' : refs'[n] = AskOf(dir, next)
    OBVIOUS
  <2>1. refs' = Append(refs, AskOf(dir, next)) /\ AskOf(dir, next) \in AllAsked
    BY <1>2 DEF Collect
  <2>2. Len(refs) + 1 \in DOMAIN refs' /\ refs'[Len(refs) + 1] = AskOf(dir, next)
    BY <1>0, <2>1
  <2> QED BY <2>2
<1>6. PullTyped'
  <2>1. kept' = <<>>
    BY <1>0 DEF PullInv, LoopsInOrder
  <2> QED BY <1>0, <1>3, <2>1 DEF PullInv, PullTyped, Range
<1>7. Gathered'
  <2> SUFFICES ASSUME NEW d \in DOMAIN Sources, NEW f \in DOMAIN files, AskOf(d, f) # NoImage,
                      d < dir \/ (d = dir /\ f < next + 1)
               PROVE  \E n \in DOMAIN refs' : refs'[n] = AskOf(d, f)
    BY <1>0 DEF Gathered, AskOf
  <2>1. f \in Nat
    BY PrepullConstantsOK DEF PullInv, PullTyped
  <2>2. CASE d < dir \/ (d = dir /\ f < next)
    BY <1>0, <1>4, <2>2 DEF PullInv, Gathered
  <2>3. CASE d = dir /\ f = next
    BY <1>5, <2>3
  <2> QED BY <1>0, <2>1, <2>2, <2>3
<1>8. LoopsInOrder' /\ KeptOnce' /\ PodmanAccountedFor'
  BY <1>0 DEF PullInv, LoopsInOrder, Pulling, KeptOnce, PodmanAccountedFor, podmanVars
<1> QED BY <1>6, <1>7, <1>8 DEF PullInv

LEMMA NextDirectoryPreserves == ASSUME PullInv, NextDirectory PROVE PullInv'
<1>0. /\ UNCHANGED <<asks, files, stage, refs, policies, kept, podmanVars>>
      /\ stage = "collect" /\ dir' = dir + 1 /\ next' = 1 /\ dir \in Nat /\ next \in Nat
      /\ AllAsked' = AllAsked
  BY DEF NextDirectory, PullInv, PullTyped, AllAsked, AskOf
<1>1. PullTyped'
  BY <1>0 DEF PullInv, PullTyped, Policed
<1>2. Gathered'
  <2> SUFFICES ASSUME NEW d \in DOMAIN Sources, NEW f \in DOMAIN files, AskOf(d, f) # NoImage,
                      d < dir + 1 \/ (d = dir + 1 /\ f < 1)
               PROVE  \E n \in DOMAIN refs : refs[n] = AskOf(d, f)
    BY <1>0 DEF Gathered, AskOf
  <2>1. d \in Nat /\ f \in 1..Len(files) /\ Len(files) \in Nat
    BY PrepullConstantsOK DEF PullInv, PullTyped
  <2>2. d < dir \/ (d = dir /\ f < next)
    BY <1>0, <2>1 DEF NextDirectory
  <2> QED BY <2>2 DEF PullInv, Gathered
<1>3. LoopsInOrder' /\ KeptOnce' /\ PodmanAccountedFor'
  BY <1>0 DEF PullInv, LoopsInOrder, Pulling, KeptOnce, PodmanAccountedFor, podmanVars
<1> QED BY <1>1, <1>2, <1>3 DEF PullInv

LEMMA WeighPreserves == ASSUME PullInv, Weigh PROVE PullInv'
<1>0. /\ UNCHANGED <<asks, files, stage, dir, refs, kept, podmanVars>>
      /\ stage = "weigh" /\ next' = next + 1 /\ next \in 1..Len(refs) /\ kept = <<>>
      /\ refs \in Seq(AllAsked) /\ AllAsked' = AllAsked /\ Len(refs) \in Nat
      /\ WeighedUpTo(next - 1)
  BY DEF Weigh, PullInv, PullTyped, LoopsInOrder, AllAsked, AskOf
<1> DEFINE r == refs[next]
           i == r.image
<1>1. \A k \in 1..Len(refs) : refs[k].policy \in DOMAIN Eagerness
  BY <1>0, AsksAreReferences DEF PullInv, PullTyped
<1>2. /\ DOMAIN policies' = DOMAIN policies \cup {i}
      /\ \A j \in DOMAIN policies : j # i => policies'[j] = policies[j]
      /\ i \in DOMAIN policies => policies'[i] = MoreEager(policies[i], r.policy)
      /\ i \notin DOMAIN policies => policies'[i] = r.policy
  BY DEF Weigh
<1>3. DOMAIN policies' = {refs[k].image : k \in 1..next}
  <2>1. 1..next = 1..(next - 1) \cup {next}
    BY <1>0
  <2> QED BY <1>0, <1>2, <2>1 DEF WeighedUpTo
<1>4. /\ policies'[i] \in DOMAIN Eagerness
      /\ Eagerness[r.policy] <= Eagerness[policies'[i]]
      /\ i \in DOMAIN policies => Eagerness[policies[i]] <= Eagerness[policies'[i]]
      /\ policies'[i] = r.policy \/ (i \in DOMAIN policies /\ policies'[i] = policies[i])
  <2>1. r.policy \in DOMAIN Eagerness
    BY <1>0, <1>1
  <2>2. CASE i \in DOMAIN policies
    <3>0. /\ DOMAIN policies = {refs[k].image : k \in 1..(next - 1)}
          /\ \A k \in 1..(next - 1) : policies[refs[k].image] \in DOMAIN Eagerness
      BY <1>0 DEF WeighedUpTo
    <3>1. PICK k \in 1..(next - 1) : refs[k].image = i
      BY <2>2, <3>0
    <3>2. policies[i] \in DOMAIN Eagerness
      BY <3>0, <3>1
    <3> QED BY <1>2, <2>1, <2>2, <3>2, PoliciesAreOrdered
  <2>3. CASE i \notin DOMAIN policies
    BY <1>2, <2>1, <2>3, PoliciesAreOrdered
  <2> QED BY <2>2, <2>3
<1>5. ASSUME NEW k \in 1..next
      PROVE  /\ policies'[refs[k].image] \in DOMAIN Eagerness
             /\ Eagerness[refs[k].policy] <= Eagerness[policies'[refs[k].image]]
             /\ \E j \in 1..next : /\ refs[j].image = refs[k].image
                                   /\ refs[j].policy = policies'[refs[k].image]
  <2> HIDE DEF r, i
  <2>1. CASE k = next
    <3>1. refs[k] = r /\ refs[k].image = i /\ refs[next] = r
      BY <2>1 DEF r, i
    <3>2. \E j \in 1..next : refs[j].image = i /\ refs[j].policy = policies'[i]
      <4>1. CASE policies'[i] = r.policy
        BY <1>0, <2>1, <3>1, <4>1
      <4>2. CASE i \in DOMAIN policies /\ policies'[i] = policies[i]
        <5>1. PICK l \in 1..(next - 1) : refs[l].image = i
          BY SMTT(30), <1>0, <4>2 DEF WeighedUpTo
        <5>2. PICK j \in 1..(next - 1) : refs[j].image = i /\ refs[j].policy = policies[i]
          BY <1>0, <5>1 DEF WeighedUpTo
        <5> QED BY <1>0, <4>2, <5>2
      <4> QED BY <1>4, <4>1, <4>2
    <3> QED BY <1>4, <3>1, <3>2
  <2>2. CASE k # next
    <3>0. k \in 1..(next - 1)
      BY <1>0, <2>2
    <3>1. /\ refs[k].image \in DOMAIN policies
          /\ policies[refs[k].image] \in DOMAIN Eagerness
          /\ Eagerness[refs[k].policy] <= Eagerness[policies[refs[k].image]]
          /\ \E j \in 1..(next - 1) : /\ refs[j].image = refs[k].image
                                      /\ refs[j].policy = policies[refs[k].image]
      BY <1>0, <3>0 DEF WeighedUpTo
    <3>2. CASE refs[k].image # i
      <4>1. policies'[refs[k].image] = policies[refs[k].image]
        BY <1>2, <3>1, <3>2
      <4> QED BY <1>0, <3>1, <4>1
    <3>3. CASE refs[k].image = i
      <4>1. /\ Eagerness[refs[k].policy] \in Nat /\ Eagerness[policies[i]] \in Nat
            /\ Eagerness[policies'[i]] \in Nat
        <5>1. refs[k].policy \in DOMAIN Eagerness
          BY <1>0, <1>1, <3>0
        <5>2. policies[i] \in DOMAIN Eagerness
          BY <3>1, <3>3
        <5> QED BY <1>4, <5>1, <5>2, PoliciesAreOrdered
      <4>2. Eagerness[refs[k].policy] <= Eagerness[policies'[i]]
        <5>1. Eagerness[refs[k].policy] <= Eagerness[policies[i]]
          BY <3>1, <3>3
        <5>2. Eagerness[policies[i]] <= Eagerness[policies'[i]]
          BY <1>4, <3>1, <3>3
        <5> QED BY <4>1, <5>1, <5>2
      <4>3. \E j \in 1..next : refs[j].image = i /\ refs[j].policy = policies'[i]
        <5>1. CASE policies'[i] = r.policy
          BY <1>0, <5>1 DEF r, i
        <5>2. CASE policies'[i] = policies[i]
          BY <1>0, <3>1, <3>3, <5>2
        <5> QED BY <1>4, <5>1, <5>2
      <4> QED BY <1>4, <3>3, <4>2, <4>3
    <3> QED BY <3>2, <3>3
  <2> QED BY <2>1, <2>2
<1>6. LoopsInOrder'
  <2> HIDE DEF r, i
  <2>1. next' <= Len(refs') + 1 /\ next' - 1 = next
    BY <1>0
  <2>2. PICK m : m = next
    OBVIOUS
  <2>3. WeighedUpTo(m)'
    BY <1>0, <1>3, <1>5, <2>2 DEF WeighedUpTo
  <2>4. WeighedUpTo(next - 1)'
    BY <2>1, <2>2, <2>3 DEF WeighedUpTo
  <2> QED BY <1>0, <2>1, <2>4 DEF LoopsInOrder, Pulling
<1>7. PullTyped'
  BY <1>0 DEF PullInv, PullTyped, Range
<1>8. Gathered' /\ KeptOnce' /\ PodmanAccountedFor'
  BY <1>0 DEF PullInv, Gathered, AskOf, KeptOnce, PodmanAccountedFor, podmanVars
<1> QED BY <1>6, <1>7, <1>8 DEF PullInv

LEMMA KeepPreserves == ASSUME PullInv, Keep PROVE PullInv'
<1>0. /\ UNCHANGED <<asks, files, stage, dir, refs, policies, podmanVars>>
      /\ stage = "keep" /\ next' = next + 1 /\ next \in 1..Len(refs)
      /\ refs \in Seq(AllAsked) /\ AllAsked' = AllAsked /\ Len(refs) \in Nat
      /\ kept \in Seq(Range(kept))
      /\ WeighedUpTo(Len(refs)) /\ KeptUpTo(next - 1)
  BY DEF Keep, PullInv, PullTyped, LoopsInOrder, AllAsked, AskOf
<1> DEFINE r == refs[next]
           known == \E n \in DOMAIN kept : kept[n].image = r.image
<1>1. Policed(r).image = r.image
  <2>1. "image" \in DOMAIN r
    BY <1>0, AsksAreReferences DEF PullInv, PullTyped
  <2> QED BY <2>1 DEF Policed
<1>2. kept' = IF known THEN kept ELSE Append(kept, Policed(r))
  BY DEF Keep, Policed
<1> HIDE DEF r
<1>3. /\ kept' \in Seq(Range(kept'))
      /\ \A n \in DOMAIN kept : n \in DOMAIN kept' /\ kept'[n] = kept[n]
      /\ \A n \in DOMAIN kept' : n \in DOMAIN kept \/ (~known /\ n = Len(kept) + 1 /\ kept'[n] = Policed(r))
      /\ \E n \in DOMAIN kept' : kept'[n].image = r.image
  <2>1. CASE known
    BY <1>0, <1>2, <2>1
  <2>2. CASE ~known
    <3>0. kept' = Append(kept, Policed(r))
      BY <1>2, <2>2
    <3>1. /\ DOMAIN kept' = 1..(Len(kept) + 1) /\ DOMAIN kept = 1..Len(kept) /\ Len(kept) \in Nat
          /\ kept'[Len(kept) + 1] = Policed(r)
          /\ \A n \in DOMAIN kept : kept'[n] = kept[n]
      BY <1>0, <3>0
    <3>2. kept' \in Seq(Range(kept) \cup {Policed(r)})
      BY <1>0, <3>0
    <3>3. \A n \in 1..Len(kept') : kept'[n] \in Range(kept')
      BY <3>2 DEF Range
    <3>4. kept' \in Seq(Range(kept'))
      BY <3>2, <3>3
    <3> HIDE DEF known
    <3> QED BY <1>1, <2>2, <3>1, <3>4
  <2> QED BY <2>1, <2>2
<1> HIDE DEF known
<1>4. PullTyped'
  <2>1. ASSUME NEW n \in DOMAIN kept' PROVE \E k \in DOMAIN refs : kept'[n] = Policed(refs[k])
    <3>1. CASE n \in DOMAIN kept
      BY <1>3, <3>1 DEF PullInv, PullTyped
    <3>2. CASE n \notin DOMAIN kept
      BY <1>0, <1>3, <3>2 DEF r
    <3> QED BY <3>1, <3>2
  <2> QED BY <1>0, <1>3, <2>1 DEF PullInv, PullTyped, Policed
<1>5. LoopsInOrder'
  <2>1. ASSUME NEW k \in 1..next PROVE \E n \in DOMAIN kept' : kept'[n].image = refs[k].image
    <3>1. CASE k = next
      BY <1>3, <3>1 DEF r
    <3>2. CASE k # next
      BY <1>0, <1>3, <3>2 DEF KeptUpTo
    <3> QED BY <3>1, <3>2
  <2>2. KeptUpTo(next - 1)'
    BY <1>0, <2>1 DEF KeptUpTo
  <2>3. WeighedUpTo(Len(refs))'
    BY <1>0 DEF WeighedUpTo
  <2> QED BY <1>0, <2>2, <2>3 DEF LoopsInOrder, Pulling
<1>6. KeptOnce'
  <2> SUFFICES ASSUME NEW n \in DOMAIN kept', NEW m \in DOMAIN kept', kept'[n].image = kept'[m].image
               PROVE  n = m
    BY DEF KeptOnce
  <2>1. CASE n \in DOMAIN kept /\ m \in DOMAIN kept
    BY <1>3, <2>1 DEF PullInv, KeptOnce
  <2>2. CASE n \notin DOMAIN kept /\ m \in DOMAIN kept
    BY <1>1, <1>3, <2>2 DEF known
  <2>3. CASE n \in DOMAIN kept /\ m \notin DOMAIN kept
    BY <1>1, <1>3, <2>3 DEF known
  <2>4. CASE n \notin DOMAIN kept /\ m \notin DOMAIN kept
    BY <1>3, <2>4
  <2> QED BY <2>1, <2>2, <2>3, <2>4
<1>7. Gathered' /\ PodmanAccountedFor'
  BY <1>0 DEF PullInv, Gathered, AskOf, PodmanAccountedFor, podmanVars
<1> QED BY <1>4, <1>5, <1>6, <1>7 DEF PullInv

\* Once the pulls have begun only they and podman move.
LEMMA PullsPreserve ==
  ASSUME PullInv,
         \/ AllPulled \/ StartPull \/ CannotStart \/ ReadToEnd \/ ReadFails \/ TimeOut
         \/ Waited \/ TermAwaited \/ KillPodman \/ PodmanCloses \/ PodmanEnds
  PROVE  PullInv'
<1> USE DEF AllPulled, StartPull, CannotStart, ReadToEnd, ReadFails, TimeOut, Waited, TermAwaited,
            KillPodman, PodmanCloses, PodmanEnds, PullReturns
<1>0. UNCHANGED listVars
  OBVIOUS
<1>1. /\ stage' \in Stages /\ next' \in Nat \ {0}
      /\ Pulling' => Pulling
      /\ UNCHANGED <<stage, next>> \/ (Pulling /\ stage' \notin {"collect", "weigh", "keep"})
  <2>1. stage \in Stages /\ next \in Nat \ {0}
    BY DEF PullInv, PullTyped
  <2> QED BY <2>1 DEF Pulling, Stages
<1>2. PodmanAccountedFor'
  BY DEF PullInv, PodmanAccountedFor, podmanVars
<1> USE DEF Pulling
<1>3. PullTyped'
  BY <1>0, <1>1, ListsStay DEF PullTyped
<1>4. Gathered'
  BY <1>0, <1>1 DEF PullInv, Gathered, AskOf, listVars
<1>5. LoopsInOrder'
  <2>1. /\ refs' = refs /\ policies' = policies /\ kept' = kept
        /\ \A m : WeighedUpTo(m) => WeighedUpTo(m)'
        /\ \A m : KeptUpTo(m) => KeptUpTo(m)'
    BY <1>0, ListsStay DEF listVars
  <2> QED BY <1>1, <2>1 DEF PullInv, LoopsInOrder
<1> QED BY <1>0, <1>2, <1>3, <1>4, <1>5, ListsStay DEF PullInv

LEMMA PullsKeepInvariant == PullSpec => []PullInv
<1>1. ASSUME PullInv, [PullNext]_pullVars PROVE PullInv'
  <2>1. CASE NoFiles \/ Collected \/ Weighed \/ Kept
    BY <1>1, <2>1, LoopsEnd
  <2>2. CASE Collect
    BY <1>1, <2>2, CollectPreserves
  <2>3. CASE NextDirectory
    BY <1>1, <2>3, NextDirectoryPreserves
  <2>4. CASE Weigh
    BY <1>1, <2>4, WeighPreserves
  <2>5. CASE Keep
    BY <1>1, <2>5, KeepPreserves
  <2>6. CASE \/ AllPulled \/ StartPull \/ CannotStart \/ ReadToEnd \/ ReadFails \/ TimeOut
             \/ Waited \/ TermAwaited \/ KillPodman \/ PodmanCloses \/ PodmanEnds
    BY <1>1, <2>6, PullsPreserve
  <2>7. CASE UNCHANGED pullVars
    BY <1>1, <2>7 DEF PullInv, PullTyped, Gathered, LoopsInOrder, KeptOnce, PodmanAccountedFor,
      WeighedUpTo, KeptUpTo, Policed, Pulling, AllAsked, AskOf, pullVars, listVars, podmanVars
  <2> QED BY <1>1, <2>1, <2>2, <2>3, <2>4, <2>5, <2>6, <2>7 DEF PullNext, Pulls
<1> QED BY <1>1, PullStarts, PTL DEF PullSpec

LEMMA KeptIsOnceAndEager == PullInv => OnceAndEagerly
<1> SUFFICES ASSUME PullInv, Pulling PROVE OnceAndEagerly
  BY DEF OnceAndEagerly
<1>0. /\ refs \in Seq(AllAsked) /\ KeptOnce /\ WeighedUpTo(Len(refs)) /\ KeptUpTo(Len(refs))
      /\ \A n \in DOMAIN kept : \E k \in DOMAIN refs : kept[n] = Policed(refs[k])
  BY DEF PullInv, PullTyped, LoopsInOrder
<1>1. DOMAIN refs = 1..Len(refs) /\ \A k \in 1..Len(refs) : refs[k] \in AllAsked
  BY <1>0
<1>2. \A r \in AllAsked : \E k \in 1..Len(refs) : refs[k] = r
  <2>1. stage # "collect"
    BY DEF Pulling
  <2>2. \A d \in DOMAIN Sources, f \in DOMAIN files :
          AskOf(d, f) # NoImage => \E n \in DOMAIN refs : refs[n] = AskOf(d, f)
    BY <2>1 DEF PullInv, Gathered
  <2> QED BY <1>1, <2>2 DEF AllAsked
<1>3. ASSUME NEW n \in DOMAIN kept
      PROVE  \E k \in 1..Len(refs) : /\ kept[n].image = refs[k].image
                                     /\ kept[n].policy = policies[refs[k].image]
  <2>1. PICK k \in 1..Len(refs) : kept[n] = Policed(refs[k])
    BY <1>0, <1>1
  <2>2. "image" \in DOMAIN refs[k] /\ "policy" \in DOMAIN refs[k]
    BY <1>1, AsksAreReferences DEF PullInv, PullTyped
  <2> QED BY <2>1, <2>2 DEF Policed
<1>4. IsInjective([n \in DOMAIN kept |-> kept[n].image])
  BY <1>0 DEF IsInjective, KeptOnce
<1>5. {kept[n].image : n \in DOMAIN kept} = {r.image : r \in AllAsked}
  <2>1. ASSUME NEW n \in DOMAIN kept PROVE \E r \in AllAsked : kept[n].image = r.image
    BY <1>1, <1>3
  <2>2. ASSUME NEW r \in AllAsked PROVE \E n \in DOMAIN kept : kept[n].image = r.image
    BY <1>0, <1>2 DEF KeptUpTo
  <2> QED BY <2>1, <2>2
<1>6. ASSUME NEW n \in DOMAIN kept,
             NEW wanted, wanted = {r.policy : r \in {s \in AllAsked : s.image = kept[n].image}}
      PROVE  /\ kept[n].policy \in wanted
             /\ \A p \in wanted : Eagerness[p] <= Eagerness[kept[n].policy]
  <2>1. PICK k \in 1..Len(refs) : /\ kept[n].image = refs[k].image
                                  /\ kept[n].policy = policies[refs[k].image]
    BY <1>3
  <2>2. PICK j \in 1..Len(refs) : /\ refs[j].image = refs[k].image
                                  /\ refs[j].policy = policies[refs[k].image]
    BY <1>0 DEF WeighedUpTo
  <2>3. kept[n].policy \in wanted
    BY <1>1, <1>6, <2>1, <2>2
  <2>4. ASSUME NEW p \in wanted PROVE Eagerness[p] <= Eagerness[kept[n].policy]
    <3>1. PICK r \in AllAsked : r.image = kept[n].image /\ p = r.policy
      BY <1>6, <2>4
    <3>2. PICK l \in 1..Len(refs) : refs[l] = r
      BY <1>2
    <3>3. Eagerness[refs[l].policy] <= Eagerness[policies[refs[l].image]]
      BY <1>0 DEF WeighedUpTo
    <3> QED BY <2>1, <3>1, <3>2, <3>3
  <2> QED BY <2>3, <2>4
<1> QED BY <1>4, <1>5, <1>6 DEF OnceAndEagerly

(***************************************************************************)
(* For any files, directories and requests: what is pulled is each image   *)
(* that is asked for, once and with the most eager policy (dedup_images).  *)
(***************************************************************************)
THEOREM OnceAndEagerlyAlways == PullSpec => []OnceAndEagerly
BY PullsKeepInvariant, KeptIsOnceAndEager, PTL

(***************************************************************************)
(* However podman behaves, and however many images are pulled: a pull that *)
(* timed out leaves no podman behind (Podman::pull).                       *)
(***************************************************************************)
THEOREM NoPodmanLeftBehindAlways == PullSpec => []NoPodmanLeftBehind
<1>1. PullInv => NoPodmanLeftBehind
  BY DEF PullInv, PodmanAccountedFor, NoPodmanLeftBehind
<1> QED BY <1>1, PullsKeepInvariant, PTL

(***************************************************************************)
(* That pulling ends is liveness, and TLC's.  What it rests on: the loops  *)
(* come nearer to their end with each step, and the one wait without a     *)
(* limit is for a podman that is on its way out.                           *)
(***************************************************************************)

\* No counter goes past the end of its loop.
WithinLoops ==
  /\ stage = "collect" => dir <= Len(Sources) + 1 /\ next <= Len(files) + 1
  /\ stage = "start" => next <= Len(kept) + 1
  /\ stage \in {"read", "wait", "term", "kill"} => next <= Len(kept)

Patience == stage = "wait" => ~stderr

\* The loop, its turns left, and what is left of the turn.
LoopsLeft ==
  IF stage = "collect" THEN 4 ELSE IF stage = "weigh" THEN 3 ELSE IF stage = "keep" THEN 2
  ELSE IF Pulling THEN 1 ELSE 0
RoundsLeft ==
  IF stage = "collect" THEN Len(Sources) + 1 - dir
  ELSE IF stage \in {"weigh", "keep"} THEN Len(refs) + 1 - next
  ELSE IF Pulling THEN Len(kept) + 1 - next ELSE 0
StepsLeft ==
  IF stage = "collect" THEN Len(files) + 1 - next
  ELSE IF stage = "start" THEN 3 ELSE IF stage = "read" THEN 2
  ELSE IF stage = "term" THEN 1 ELSE 0

PullAhead == <<LoopsLeft, RoundsLeft, StepsLeft>>

\* The first place where they differ decides.
Below(a, b) == \E i \in 1..3 : a[i] < b[i] /\ \A j \in 1..3 : j < i => a[j] = b[j]

LEMMA BelowAt ==
  ASSUME NEW a1, NEW a2, NEW a3, NEW b1, NEW b2, NEW b3,
         \/ a1 < b1
         \/ a1 = b1 /\ a2 < b2
         \/ a1 = b1 /\ a2 = b2 /\ a3 < b3
  PROVE  Below(<<a1, a2, a3>>, <<b1, b2, b3>>)
<1> DEFINE a == <<a1, a2, a3>>
           b == <<b1, b2, b3>>
<1>1. /\ a[1] = a1 /\ a[2] = a2 /\ a[3] = a3
      /\ b[1] = b1 /\ b[2] = b2 /\ b[3] = b3
  OBVIOUS
<1>2. \A j : j \in 1..3 <=> j = 1 \/ j = 2 \/ j = 3
  OBVIOUS
<1> HIDE DEF a, b
<1>3. Below(a, b)
  <2>1. CASE a1 < b1
    <3>1. a[1] < b[1] /\ \A j \in 1..3 : j < 1 => a[j] = b[j]
      BY <1>1, <2>1
    <3> QED BY <1>2, <3>1 DEF Below
  <2>2. CASE a1 = b1 /\ a2 < b2
    <3>1. a[2] < b[2] /\ \A j \in 1..3 : j < 2 => a[j] = b[j]
      BY <1>1, <1>2, <2>2
    <3> QED BY <1>2, <3>1 DEF Below
  <2>3. CASE a1 = b1 /\ a2 = b2 /\ a3 < b3
    <3>1. a[3] < b[3] /\ \A j \in 1..3 : j < 3 => a[j] = b[j]
      BY <1>1, <1>2, <2>3
    <3> QED BY <1>2, <3>1 DEF Below
  <2> QED BY <2>1, <2>2, <2>3
<1> QED BY <1>3 DEF a, b

\* The lengths and counters.
LEMMA PullNumbers ==
  ASSUME PullInv
  PROVE  /\ Len(Sources) \in Nat /\ Len(files) \in Nat /\ Len(refs) \in Nat /\ Len(kept) \in Nat
         /\ dir \in Nat \ {0} /\ next \in Nat \ {0} /\ stage \in Stages
         /\ stage \in {"weigh", "keep"} => next <= Len(refs) + 1
  BY PrepullConstantsOK DEF PullInv, PullTyped, LoopsInOrder

LEMMA PullStepsAhead ==
  ASSUME PullInv, WithinLoops, Patience, [PullNext]_pullVars
  PROVE  /\ WithinLoops' /\ Patience'
         /\ Below(PullAhead', PullAhead) \/ UNCHANGED <<listVars, stage, next>>
<1>1. /\ Len(Sources) \in Nat /\ Len(files) \in Nat /\ Len(refs) \in Nat /\ Len(kept) \in Nat
      /\ dir \in Nat \ {0} /\ next \in Nat \ {0} /\ stage \in Stages
      /\ stage \in {"weigh", "keep"} => next <= Len(refs) + 1
  BY PullNumbers
<1> USE DEF Pulling, Stages
<1>2. CASE NoFiles \/ Collected \/ Weighed \/ Kept \/ AllPulled
  <2>1. LoopsLeft' < LoopsLeft /\ Patience'
    BY <1>1, <1>2 DEF NoFiles, Collected, Weighed, Kept, AllPulled, LoopEnds, LoopsLeft, Patience
  <2>2. WithinLoops'
    BY <1>1, <1>2 DEF NoFiles, Collected, Weighed, Kept, AllPulled, LoopEnds, WithinLoops,
      listVars
  <2> QED BY <2>1, <2>2, BelowAt DEF PullAhead
<1>3. CASE Collect
  <2>1. stage = "collect" /\ stage' = "collect" /\ next' = next + 1 /\ next <= Len(files)
        /\ UNCHANGED <<dir, files>>
    BY <1>3 DEF Collect
  <2>2. LoopsLeft' = LoopsLeft /\ RoundsLeft' = RoundsLeft /\ StepsLeft' < StepsLeft
    BY <1>1, <2>1 DEF LoopsLeft, RoundsLeft, StepsLeft
  <2>3. WithinLoops' /\ Patience'
    BY <1>1, <2>1 DEF WithinLoops, Patience
  <2> QED BY <2>2, <2>3, BelowAt DEF PullAhead
<1>4. CASE NextDirectory
  <2>1. stage = "collect" /\ stage' = "collect" /\ next' = 1 /\ dir' = dir + 1
        /\ dir <= Len(Sources) /\ files' = files
    BY <1>4 DEF NextDirectory
  <2>2. LoopsLeft' = LoopsLeft /\ RoundsLeft' < RoundsLeft
    BY <1>1, <2>1 DEF LoopsLeft, RoundsLeft
  <2>3. WithinLoops' /\ Patience'
    BY <1>1, <2>1 DEF WithinLoops, Patience
  <2> QED BY <2>2, <2>3, BelowAt DEF PullAhead
<1>5. CASE Weigh \/ Keep
  <2>1. stage \in {"weigh", "keep"} /\ stage' = stage /\ next' = next + 1 /\ refs' = refs
    BY <1>5 DEF Weigh, Keep
  <2>2. LoopsLeft' = LoopsLeft /\ RoundsLeft' < RoundsLeft
    BY <1>1, <2>1 DEF LoopsLeft, RoundsLeft
  <2>3. WithinLoops' /\ Patience'
    BY <1>1, <2>1 DEF WithinLoops, Patience
  <2> QED BY <2>2, <2>3, BelowAt DEF PullAhead
<1>6. CASE StartPull \/ ReadToEnd \/ TimeOut \/ TermAwaited
  <2>1. next' = next /\ kept' = kept
    BY <1>6 DEF StartPull, ReadToEnd, TimeOut, TermAwaited, listVars
  <2>2. LoopsLeft' = LoopsLeft /\ RoundsLeft' = RoundsLeft
    BY <1>6, <2>1 DEF StartPull, ReadToEnd, TimeOut, TermAwaited, LoopsLeft, RoundsLeft
  <2>3. StepsLeft' < StepsLeft
    BY <1>6 DEF StartPull, ReadToEnd, TimeOut, TermAwaited, StepsLeft
  <2>4. WithinLoops'
    BY <1>6, <2>1 DEF StartPull, ReadToEnd, TimeOut, TermAwaited, WithinLoops
  <2>5. Patience'
    BY <1>6 DEF StartPull, ReadToEnd, TimeOut, TermAwaited, Patience, podmanVars
  <2> QED BY <2>2, <2>3, <2>4, <2>5, BelowAt DEF PullAhead
<1>7. CASE CannotStart \/ ReadFails \/ Waited \/ KillPodman
  <2>1. /\ stage \in {"start", "read", "wait", "kill"} /\ next <= Len(kept)
        /\ next' = next + 1 /\ stage' = "start" /\ kept' = kept
    BY <1>7 DEF CannotStart, ReadFails, Waited, KillPodman, PullReturns, WithinLoops, listVars
  <2>2. LoopsLeft' = LoopsLeft /\ RoundsLeft' < RoundsLeft
    BY <1>1, <2>1 DEF LoopsLeft, RoundsLeft
  <2>3. WithinLoops' /\ Patience'
    BY <1>1, <2>1 DEF WithinLoops, Patience
  <2> QED BY <2>2, <2>3, BelowAt DEF PullAhead
<1>8. CASE PodmanCloses \/ PodmanEnds \/ UNCHANGED pullVars
  <2>1. UNCHANGED <<listVars, stage, next>> /\ (stderr' => stderr)
    <3>1. UNCHANGED <<listVars, stage, next>>
      BY <1>8 DEF PodmanCloses, PodmanEnds, pullVars
    <3>2. CASE PodmanCloses
      BY <3>2, Zenon DEF PodmanCloses
    <3>3. CASE PodmanEnds
      BY <3>3, Zenon DEF PodmanEnds
    <3>4. CASE UNCHANGED pullVars
      BY <3>4, Zenon DEF pullVars, podmanVars
    <3> QED BY <1>8, <3>1, <3>2, <3>3, <3>4
  <2>2. WithinLoops' /\ Patience'
    BY <2>1 DEF WithinLoops, Patience, listVars
  <2> QED BY <2>1, <2>2
<1> QED BY <1>2, <1>3, <1>4, <1>5, <1>6, <1>7, <1>8 DEF PullNext, Pulls

(***************************************************************************)
(* Pulling cannot go round in circles: whatever podman does, each step of  *)
(* quadcd takes it nearer to its end; and job.wait(), which has no limit,  *)
(* is only called for a podman that has closed its standard error.         *)
(***************************************************************************)
THEOREM PullingComesNearerItsEnd ==
  PullSpec => /\ [](PullAhead \in Nat \X Nat \X Nat) /\ []Patience
              /\ [][Below(PullAhead', PullAhead) \/ UNCHANGED <<listVars, stage, next>>]_pullVars
<1>1. PullInit => WithinLoops /\ Patience
  BY PrepullConstantsOK DEF PullInit, WithinLoops, Patience
<1>2. PullInv /\ WithinLoops => PullAhead \in Nat \X Nat \X Nat
  <2> SUFFICES ASSUME PullInv, WithinLoops PROVE PullAhead \in Nat \X Nat \X Nat
    OBVIOUS
  <2>1. LoopsLeft \in Nat
    BY DEF LoopsLeft
  <2>2. RoundsLeft \in Nat
    BY PullNumbers DEF WithinLoops, RoundsLeft, Pulling
  <2>3. StepsLeft \in Nat
    BY PullNumbers DEF WithinLoops, StepsLeft
  <2> QED BY <2>1, <2>2, <2>3 DEF PullAhead
<1>3. PullInv /\ WithinLoops /\ Patience /\ [PullNext]_pullVars => WithinLoops' /\ Patience'
  BY PullStepsAhead
<1>4. PullInv /\ WithinLoops /\ Patience /\ [PullNext]_pullVars =>
        [Below(PullAhead', PullAhead) \/ UNCHANGED <<listVars, stage, next>>]_pullVars
  BY PullStepsAhead
<1> QED BY <1>1, <1>2, <1>3, <1>4, PullsKeepInvariant, PTL DEF PullSpec


-----------------------------------------------------------------------------
(***************************************************************************)
(* CommandLine.  What was parsed is what stands before the next argument,  *)
(* and the outcome says why parsing ended there.                           *)
(***************************************************************************)
CliSpec == CliInit /\ [][CliNext]_cliVars

Commands == {"generate", "sync", "status"}
FirstParsed == IF FromSystemd THEN 1 ELSE 2

\* What the arguments from the first to the one at place m set.
FieldsUpTo(m) ==
  UNION {FieldsOf(w) : w \in {args[i] : i \in FirstParsed..m} \cap Known(command)}

CliTyped ==
  /\ args \in Seq(Words) /\ positional \in Seq(Words) /\ scoped \in BOOLEAN
  /\ command \in {"start"} \cup Commands
  /\ at \in Nat \ {0}
  /\ command = "start" => flags = {} /\ positional = <<>>

ParsedSoFar ==
  command # "start" =>
    /\ "-version" \notin ToSet(args)
    /\ FromSystemd => command = "generate"
    /\ ~FromSystemd => args # <<>> /\ args[1] = command
    /\ at \in FirstParsed..(Len(args) + 1)
    /\ \A i \in FirstParsed..(at - 1) :
         /\ args[i] \notin Help
         /\ args[i] \in Known(command) \/ (command = "generate" /\ Plain(args[i]))
    /\ flags = FieldsUpTo(at - 1)
    /\ ToSet(positional) = {args[i] : i \in FirstParsed..(at - 1)} \ Known(command)
    /\ FromSystemd /\ ToSet(args) \subseteq Dirs => positional = SubSeq(args, 1, at - 1)

EndedForAReason ==
  \/ outcome = NotYet
  \/ /\ command = "start" /\ outcome.is \in {"version", "help", "error"}
     /\ "-version" \in ToSet(args) \/ ~FromSystemd
  \/ /\ command # "start" /\ at <= Len(args)
     /\ \/ args[at] \in Help /\ outcome = Invocation(TRUE)
        \/ /\ outcome.is = "error" /\ args[at] \notin Known(command) \cup Help
           /\ ~(command = "generate" /\ Plain(args[at]))
  \/ /\ command # "start" /\ at = Len(args) + 1
     /\ \/ outcome.is = "error" /\ command = "generate" /\ positional = <<>>
        \/ outcome = Invocation(FALSE)

CliInv == CliTyped /\ ParsedSoFar /\ EndedForAReason


LEMMA FlagsAreNoHelp == \A c \in Commands : Known(c) \cap Help = {}
BY DEF Known, Help, Commands

LEMMA CliStarts == CliInit => CliInv
<1> SUFFICES ASSUME CliInit PROVE CliInv
  OBVIOUS
<1>1. args \in Seq(Words)
  <2>1. PICK m \in 0..MaxWords : args \in [1..m -> Words]
    BY CommandLineConstantsOK DEF CliInit, BoundedSeq, SeqOf
  <2>2. m \in Nat
    BY CommandLineConstantsOK
  <2> QED BY <2>1, <2>2
<1> QED BY <1>1 DEF CliInit, CliInv, CliTyped, ParsedSoFar, EndedForAReason, Commands

\* Parsing begins at the subcommand's first argument.
LEMMA ParsingBegins ==
  ASSUME CliInv, AsGenerator \/ Subcommand PROVE CliInv'
<1>0. /\ UNCHANGED <<args, scoped, flags, positional, outcome>> /\ outcome = NotYet
      /\ command = "start" /\ "-version" \notin ToSet(args) /\ Len(args) \in Nat
      /\ FromSystemd' = FromSystemd /\ FirstParsed' = FirstParsed
  BY DEF AsGenerator, Subcommand, Choosing, ParseAs, CliInv, CliTyped, FromSystemd, FirstParsed
<1>1. /\ command' \in Commands /\ at' = FirstParsed /\ FirstParsed \in {1, 2}
      /\ FirstParsed <= Len(args) + 1
      /\ FromSystemd => command' = "generate"
      /\ ~FromSystemd => args # <<>> /\ args[1] = command'
  <2>1. CASE AsGenerator
    BY <1>0, <2>1 DEF AsGenerator, ParseAs, FirstParsed, Commands
  <2>2. CASE Subcommand
    <3>1. args # <<>> /\ args[1] = First /\ First \in Commands /\ ~FromSystemd
      BY <2>2 DEF Subcommand, First, Choosing, Commands
    <3>2. Len(args) >= 1
      BY <1>0, <3>1 DEF CliInv, CliTyped
    <3> QED BY <1>0, <2>2, <3>1, <3>2 DEF Subcommand, ParseAs, FirstParsed
  <2> QED BY <2>1, <2>2
<1>2. flags = {} /\ positional = <<>>
  BY <1>0 DEF CliInv, CliTyped
<1>3. FirstParsed..(at' - 1) = {}
  BY <1>1
<1>4. flags' = FieldsUpTo(at - 1)' /\ ToSet(positional') = {}
  BY <1>0, <1>2, <1>3 DEF FieldsUpTo, ToSet
<1>5. FromSystemd => SubSeq(args, 1, at' - 1) = <<>>
  BY <1>0, <1>1 DEF FirstParsed, CliInv, CliTyped
<1>6. ParsedSoFar'
  <2>1. at' \in FirstParsed..(Len(args) + 1)
    BY <1>0, <1>1
  <2> QED BY <1>0, <1>1, <1>2, <1>3, <1>4, <1>5, <2>1 DEF ParsedSoFar, Commands
<1> QED BY <1>0, <1>1, <1>2, <1>6 DEF CliInv, CliTyped, EndedForAReason, Commands

\* One argument more, understood.
LEMMA ParsingGoesOn ==
  ASSUME CliInv, SetFlag \/ Positional PROVE CliInv'
<1>0. /\ UNCHANGED <<args, scoped, command, outcome>> /\ outcome = NotYet
      /\ command \in Commands /\ Len(args) \in Nat
      /\ at' = at + 1 /\ at <= Len(args) /\ at \in FirstParsed..Len(args) /\ at \in Nat
      /\ FromSystemd' = FromSystemd /\ FirstParsed' = FirstParsed /\ FirstParsed \in {1, 2}
      /\ ParsedSoFar /\ at' - 1 = at
  BY DEF SetFlag, Positional, Parsing, CliInv, CliTyped, ParsedSoFar, FromSystemd, FirstParsed,
    Commands
<1>1. FirstParsed..at = FirstParsed..(at - 1) \cup {at}
  BY <1>0
<1>2. /\ args[at] \notin Help
      /\ args[at] \in Known(command) \/ (command = "generate" /\ Plain(args[at]))
  <2>1. CASE SetFlag
    BY <1>0, <2>1, FlagsAreNoHelp DEF SetFlag, Word
  <2>2. CASE Positional
    <3>1. command = "generate" /\ Plain(args[at])
      BY <2>2 DEF Positional, Word
    <3>2. args[at] \notin Help
      BY <3>1, CommandLineConstantsOK DEF Plain, Help
    <3> QED BY <3>1, <3>2
  <2> QED BY <2>1, <2>2
<1>3. \A i \in FirstParsed..at :
        /\ args[i] \notin Help
        /\ args[i] \in Known(command) \/ (command = "generate" /\ Plain(args[i]))
  BY <1>0, <1>1, <1>2 DEF ParsedSoFar, Commands
<1>4. {args[i] : i \in FirstParsed..at} = {args[i] : i \in FirstParsed..(at - 1)} \cup {args[at]}
  BY <1>1
<1>5. CASE SetFlag
  <2>1. /\ positional' = positional /\ args[at] \in Known(command)
        /\ flags' = flags \cup FieldsOf(args[at])
    BY <1>5 DEF SetFlag, Word
  <2>2. flags' = FieldsUpTo(at)
    BY <1>0, <1>4, <2>1 DEF ParsedSoFar, FieldsUpTo, Commands
  <2>3. ToSet(positional) = {args[i] : i \in FirstParsed..at} \ Known(command)
    BY <1>0, <1>4, <2>1 DEF ParsedSoFar, Commands
  <2>4. ~(FromSystemd /\ ToSet(args) \subseteq Dirs)
    <3>1. args[at] \in ToSet(args)
      BY <1>0 DEF ToSet, CliInv, CliTyped
    <3> QED BY <1>0, <2>1, <3>1, CommandLineConstantsOK DEF ParsedSoFar, Commands
  <2>5. (flags = FieldsUpTo(at - 1))'
    BY <1>0, <2>2 DEF FieldsUpTo
  <2>6. ParsedSoFar'
    <3>1. ToSet(positional') = ToSet(positional)
      BY <2>1 DEF ToSet
    <3>2. at' \in FirstParsed..(Len(args) + 1)
      BY <1>0
    <3> QED BY <1>0, <1>3, <2>3, <2>4, <2>5, <3>1, <3>2 DEF ParsedSoFar, Commands
  <2> QED BY <1>0, <2>1, <2>6 DEF CliInv, CliTyped, EndedForAReason, Commands
<1>6. CASE Positional
  <2>1. /\ flags' = flags /\ positional' = Append(positional, args[at])
        /\ command = "generate" /\ Plain(args[at]) /\ args[at] \in Words
        /\ args \in Seq(Words) /\ positional \in Seq(Words)
    BY <1>0, <1>6 DEF Positional, Word, CliInv, CliTyped
  <2>2. args[at] \notin Known(command)
    BY <2>1, CommandLineConstantsOK DEF Plain, Known
  <2>3. FieldsUpTo(at) = FieldsUpTo(at - 1)
    <3>1. {args[i] : i \in FirstParsed..at} \cap Known(command)
            = {args[i] : i \in FirstParsed..(at - 1)} \cap Known(command)
      BY <1>4, <2>2
    <3> QED BY <3>1 DEF FieldsUpTo
  <2>4. ToSet(positional') = ToSet(positional) \cup {args[at]} /\ positional' \in Seq(Words)
    <3>1. /\ DOMAIN positional' = DOMAIN positional \cup {Len(positional) + 1}
          /\ \A n \in DOMAIN positional : positional'[n] = positional[n]
          /\ positional'[Len(positional) + 1] = args[at]
          /\ positional' \in Seq(Words)
      BY <2>1
    <3> QED BY <3>1 DEF ToSet
  <2>5. ToSet(positional') = {args[i] : i \in FirstParsed..at} \ Known(command)
    BY <1>0, <1>4, <2>2, <2>4 DEF ParsedSoFar, Commands
  <2>6. FromSystemd /\ ToSet(args) \subseteq Dirs => positional' = SubSeq(args, 1, at)
    <3> SUFFICES ASSUME FromSystemd, ToSet(args) \subseteq Dirs
                 PROVE  Append(positional, args[at]) = SubSeq(args, 1, at)
      BY <2>1
    <3>1. positional = SubSeq(args, 1, at - 1)
      BY <1>0 DEF ParsedSoFar, Commands
    <3>2. at \in 1..Len(args)
      BY <1>0
    <3> QED BY <1>0, <2>1, <3>1, <3>2
  <2>7. (flags = FieldsUpTo(at - 1))'
    <3>1. flags = FieldsUpTo(at)
      BY <1>0, <2>3 DEF ParsedSoFar, Commands
    <3> QED BY <1>0, <2>1, <3>1 DEF FieldsUpTo
  <2>8. ParsedSoFar'
    <3>1. at' \in FirstParsed..(Len(args) + 1)
      BY <1>0
    <3> QED BY <1>0, <1>3, <2>1, <2>5, <2>6, <2>7, <3>1 DEF ParsedSoFar, Commands
  <2> QED BY <1>0, <2>1, <2>4, <2>8 DEF CliInv, CliTyped, EndedForAReason, Commands
<1> QED BY <1>5, <1>6

LEMMA ParsingEnds ==
  ASSUME CliInv, Version \/ OtherCommand \/ ShowHelp \/ Refuse \/ EndOfArgs
  PROVE  CliInv'
<1>0. /\ UNCHANGED <<args, scoped, command, at, flags, positional>> /\ outcome = NotYet
      /\ FromSystemd' = FromSystemd /\ FirstParsed' = FirstParsed
  <2>1. UNCHANGED <<args, scoped, command, at, flags, positional>> /\ outcome = NotYet
    BY DEF Version, OtherCommand, ShowHelp, Refuse, EndOfArgs, Return, Choosing, Parsing
  <2> QED BY <2>1 DEF FromSystemd, FirstParsed
<1>1. CliTyped' /\ ParsedSoFar'
  BY <1>0 DEF CliInv, CliTyped, ParsedSoFar, FieldsUpTo
<1>2. EndedForAReason'
  <2>1. CASE Version \/ OtherCommand
    <3>1. /\ command = "start" /\ outcome'.is \in {"version", "help", "error"}
          /\ "-version" \in ToSet(args) \/ ~FromSystemd
      BY <2>1 DEF Version, OtherCommand, Return, Choosing
    <3> QED BY <1>0, <3>1 DEF EndedForAReason
  <2>2. CASE ShowHelp
    BY <1>0, <2>2 DEF ShowHelp, Parsing, Return, Invocation, Word, EndedForAReason
  <2>3. CASE Refuse
    <3>1. /\ command # "start" /\ at <= Len(args) /\ outcome'.is = "error"
          /\ args[at] \notin Known(command) \cup Help
          /\ ~(command = "generate" /\ Plain(args[at]))
      BY <2>3 DEF Refuse, Parsing, Return, Word
    <3> QED BY <1>0, <3>1 DEF EndedForAReason
  <2>4. CASE EndOfArgs
    <3>1. command # "start" /\ at = Len(args) + 1
      <4>1. command # "start" /\ at > Len(args) /\ at \in FirstParsed..(Len(args) + 1)
        BY <2>4 DEF EndOfArgs, Parsing, CliInv, ParsedSoFar
      <4>2. at \in Nat /\ Len(args) \in Nat
        BY DEF CliInv, CliTyped
      <4> QED BY <4>1, <4>2 DEF FirstParsed
    <3>2. \/ outcome'.is = "error" /\ command = "generate" /\ positional = <<>>
          \/ outcome' = Invocation(FALSE)
      BY <2>4 DEF EndOfArgs, Return
    <3> QED BY <1>0, <3>1, <3>2 DEF EndedForAReason, Invocation
  <2> QED BY <2>1, <2>2, <2>3, <2>4
<1> QED BY <1>1, <1>2 DEF CliInv

LEMMA ParsingKeepsInvariant == CliSpec => []CliInv
<1>1. ASSUME CliInv, [CliNext]_cliVars PROVE CliInv'
  <2>1. CASE AsGenerator \/ Subcommand
    BY <1>1, <2>1, ParsingBegins
  <2>2. CASE SetFlag \/ Positional
    BY <1>1, <2>2, ParsingGoesOn
  <2>3. CASE Version \/ OtherCommand \/ ShowHelp \/ Refuse \/ EndOfArgs
    BY <1>1, <2>3, ParsingEnds
  <2>4. CASE UNCHANGED cliVars
    BY <1>1, <2>4 DEF CliInv, CliTyped, ParsedSoFar, EndedForAReason, FieldsUpTo, FirstParsed,
      FromSystemd, Invocation, cliVars
  <2> QED BY <1>1, <2>1, <2>2, <2>3, <2>4 DEF CliNext
<1> QED BY <1>1, CliStarts, PTL DEF CliSpec

LEMMA SystemdGetsTheGenerator == CliInv => SystemdIsServed
<1> SUFFICES ASSUME CliInv, outcome # NotYet, scoped, Len(args) \in {1, 3}, ToSet(args) \subseteq Dirs
             PROVE  outcome = [is |-> "generate", flags |-> {}, positional |-> args,
                               show_help |-> FALSE]
  BY DEF SystemdIsServed
<1>1. /\ args \in Seq(Words) /\ Len(args) \in Nat
      /\ \A i \in 1..Len(args) : args[i] \in Dirs
  BY DEF CliInv, CliTyped, ToSet
<1>2. FromSystemd /\ FirstParsed = 1 /\ "-version" \notin ToSet(args)
  BY <1>1, CommandLineConstantsOK DEF FromSystemd, FirstParsed
<1>3. command = "generate" /\ at \in 1..(Len(args) + 1)
  <2>1. command # "start"
    BY <1>2 DEF CliInv, EndedForAReason
  <2> QED BY <1>2, <2>1 DEF CliInv, ParsedSoFar
<1>4. \A i \in 1..Len(args) : args[i] \notin Known(command) \cup Help /\ Plain(args[i])
  <2>1. Dirs \cap (Help \cup Known("generate")) = {}
    BY CommandLineConstantsOK
  <2> QED BY <1>1, <1>3, <2>1 DEF Plain
<1>5. positional = SubSeq(args, 1, at - 1) /\ flags = {}
  <2>1. positional = SubSeq(args, 1, at - 1) /\ flags = FieldsUpTo(at - 1)
    BY <1>2, <1>3 DEF CliInv, ParsedSoFar
  <2>2. {args[i] : i \in FirstParsed..(at - 1)} \cap Known(command) = {}
    BY <1>1, <1>2, <1>3, <1>4
  <2> QED BY <2>1, <2>2 DEF FieldsUpTo
<1>6. at = Len(args) + 1 /\ (outcome = Invocation(FALSE) \/ positional = <<>>)
  <2>1. /\ command # "start"
        /\ ~(at <= Len(args) /\ (args[at] \in Help
                              \/ ~(command = "generate" /\ Plain(args[at]))))
    BY <1>1, <1>3, <1>4
  <2>2. EndedForAReason
    BY DEF CliInv
  <2> QED BY <2>1, <2>2 DEF EndedForAReason
<1>7. positional = args /\ positional # <<>>
  <2>1. at - 1 = Len(args)
    BY <1>1, <1>6
  <2>2. positional = SubSeq(args, 1, Len(args))
    BY <1>5, <2>1
  <2>3. args # <<>>
    BY <1>1
  <2> QED BY <1>1, <2>2, <2>3
<1>8. outcome = Invocation(FALSE)
  BY <1>6, <1>7
<1> QED BY <1>3, <1>5, <1>7, <1>8 DEF Invocation

LEMMA WhatIsWrittenIsRun == CliInv => RunsWhatIsWritten
<1> SUFFICES ASSUME CliInv, outcome.is \in Commands
             PROVE  RunsWhatIsWritten
  BY DEF RunsWhatIsWritten, Commands
<1>1. /\ args \in Seq(Words) /\ Len(args) \in Nat /\ at \in Nat
      /\ FirstParsed \in {1, 2}
  BY DEF CliInv, CliTyped, FirstParsed
<1>2. PICK help \in BOOLEAN :
        /\ command \in Commands /\ outcome = Invocation(help)
        /\ help => at <= Len(args) /\ args[at] \in Help
        /\ ~help => at = Len(args) + 1
  <2>1. outcome # NotYet /\ outcome.is \notin {"version", "help", "error"}
    BY DEF NotYet, Commands
  <2>2. /\ command # "start"
        /\ \/ at <= Len(args) /\ args[at] \in Help /\ outcome = Invocation(TRUE)
           \/ at = Len(args) + 1 /\ outcome = Invocation(FALSE)
    BY <2>1 DEF CliInv, EndedForAReason
  <2>3. command \in Commands
    BY <2>2 DEF CliInv, CliTyped
  <2> QED BY <2>2, <2>3
<1> DEFINE first == IF FromSystemd THEN 1 ELSE 2
           helps == {i \in first..Len(args) : args[i] \in Help}
           end == IF helps = {} THEN Len(args)
                  ELSE (CHOOSE i \in helps : \A j \in helps : i <= j) - 1
           words == {args[i] : i \in first..end}
           known == Known(outcome.is)
<1>3. /\ FromSystemd \/ args[1] = command
      /\ at \in first..(Len(args) + 1)
      /\ \A i \in first..(at - 1) :
           /\ args[i] \notin Help
           /\ args[i] \in Known(command) \/ (command = "generate" /\ Plain(args[i]))
      /\ flags = FieldsUpTo(at - 1)
      /\ ToSet(positional) = {args[i] : i \in first..(at - 1)} \ Known(command)
  BY <1>2 DEF CliInv, ParsedSoFar, FirstParsed, Commands
<1>4. outcome.is = command /\ outcome.flags = flags /\ outcome.positional = positional
      /\ outcome.show_help = help
  BY <1>2 DEF Invocation
<1>5. end = at - 1 /\ help = (helps # {})
  <2>1. CASE help
    <3>1. at \in helps /\ \A j \in helps : at <= j
      BY <1>1, <1>2, <1>3, <2>1
    <3>2. (CHOOSE i \in helps : \A j \in helps : i <= j) = at
      <4>1. \A i \in helps : (\A j \in helps : i <= j) => i = at
        BY <1>1, <3>1
      <4> HIDE DEF helps
      <4> QED BY <3>1, <4>1
    <3> QED BY <2>1, <3>1, <3>2
  <2>2. CASE ~help
    <3>1. helps = {}
      BY <1>1, <1>2, <1>3, <2>2
    <3> QED BY <1>1, <1>2, <2>2, <3>1
  <2> QED BY <2>1, <2>2
<1>6. words = {args[i] : i \in first..(at - 1)}
  BY <1>5
<1>7. FieldsUpTo(at - 1) = UNION {FieldsOf(w) : w \in words \cap known}
  BY <1>4, <1>6 DEF FieldsUpTo, FirstParsed
<1> HIDE DEF words, helps, end
<1>8. /\ FromSystemd \/ args[1] = outcome.is
      /\ \A w \in words : w \in known \/ (outcome.is = "generate" /\ Plain(w))
      /\ outcome.flags = UNION {FieldsOf(w) : w \in words \cap known}
      /\ ToSet(outcome.positional) = words \ known
      /\ outcome.show_help = (helps # {})
  BY <1>3, <1>4, <1>5, <1>6, <1>7
<1> QED BY <1>8 DEF RunsWhatIsWritten, words, helps, end

(***************************************************************************)
(* Whatever the arguments are, and however many: systemd's call is the     *)
(* generator's, and a person's does what is written (parse_cli).           *)
(***************************************************************************)
THEOREM CallIsUnderstoodAlways == CliSpec => []CallIsUnderstood
<1>1. CliInv => CallIsUnderstood
  BY SystemdGetsTheGenerator, WhatIsWrittenIsRun DEF CallIsUnderstood
<1> QED BY <1>1, ParsingKeepsInvariant, PTL

-----------------------------------------------------------------------------
(***************************************************************************)
(* ManualSync.  The configuration is whole once the flags are applied, and *)
(* stays; each of its repositories is to come or has an outcome.           *)
(***************************************************************************)
ManualSpec == ManualInit /\ [][ManualNext]_manualVars

Places == {"user", "system", "given"}

ManualTyped ==
  /\ environ.force \in BOOLEAN /\ environ.root \in BOOLEAN
  /\ environ.scope \in {"unset", "system", "user"}
  /\ environ.exe \in {"bin", "user-generators", "system-generators"}
  /\ disk \in [Places -> ConfigFiles]
  /\ doing \in {"start", "flags", "check", "sync", "dirs", "ended"}

ConfigIsOfMode ==
  /\ cfg.mode \in Modes /\ cfg.data = cfg.mode /\ cfg.vars = LoadEnv(cfg.mode)
  /\ environ.force => cfg.mode = "user"
  /\ {cfg.source, cfg.generator, cfg.dropins, cfg.path} \subseteq {cfg.mode, "given", "none"}
  /\ cfg.config # NoConfig => cfg.path \in Places /\ cfg.config = disk[cfg.path]

ConfigInUse ==
  /\ doing = "flags" =>
       cfg = [mode |-> cfg.mode, data |-> cfg.data, source |-> cfg.source,
              generator |-> cfg.generator, dropins |-> cfg.dropins,
              vars |-> cfg.vars, path |-> cfg.path, config |-> cfg.config]
  /\ doing \in {"check", "sync", "dirs", "ended"} => ConfigIsOfMode

RoundIsWhole ==
  /\ doing \in {"start", "flags", "check"} => outcome_of = NoVars
  /\ doing \in {"sync", "dirs"} \/ (doing = "ended" /\ outcome_of # NoVars) =>
       cfg.config # NoConfig /\ DOMAIN outcome_of \cup todo = cfg.config.repos
  /\ doing = "dirs" => todo = {}
  /\ doing = "ended" /\ outcome_of # NoVars =>
       todo = {} /\ (exit = 0 <=> \A r \in DOMAIN outcome_of : outcome_of[r] # "failed")

ManualInv ==
  /\ ManualTyped /\ ConfigInUse /\ RoundIsWhole /\ VariablesOfOwnDir
  /\ doing \in {"start", "flags", "check", "sync"} => effective = NoVars

LEMMA ModeIsDetected ==
  ASSUME ManualTyped, NEW force \in BOOLEAN
  PROVE  DetectMode(force) \in Modes /\ (force => DetectMode(force) = "user")
BY DEF ManualTyped, DetectMode, Modes

LEMMA PathIsAPlace ==
  ASSUME ManualTyped, NEW mode \in Modes
  PROVE  /\ ConfigPath(mode) \in {mode, "given", "none"}
         /\ TryLoad(ConfigPath(mode)) # NoConfig =>
              /\ ConfigPath(mode) \in Places
              /\ TryLoad(ConfigPath(mode)) = disk[ConfigPath(mode)]
<1>1. ConfigPath(mode) \in {mode, "given", "none"}
  BY DEF ConfigPath
<1>2. TryLoad(ConfigPath(mode)) # NoConfig =>
        ConfigPath(mode) # "none" /\ TryLoad(ConfigPath(mode)) = disk[ConfigPath(mode)]
  BY DEF TryLoad
<1> QED BY <1>1, <1>2 DEF Modes, Places

LEMMA ManualStarts == ManualInit => ManualInv
<1> SUFFICES ASSUME ManualInit PROVE ManualInv
  OBVIOUS
<1>1. DOMAIN effective = {}
  BY DEF ManualInit, NoVars
<1> QED BY <1>1 DEF ManualInit, ManualInv, ManualTyped, Places, ConfigInUse, RoundIsWhole,
  VariablesOfOwnDir

LEMMA FromEnvPreserves == ASSUME ManualInv, FromEnv PROVE ManualInv'
<1>1. /\ UNCHANGED <<environ, disk, todo, outcome_of, dirs, effective, exit>>
      /\ doing = "start" /\ doing' = "flags" /\ effective = NoVars /\ outcome_of = NoVars
  BY DEF FromEnv, ManualInv, RoundIsWhole
<1>2. DOMAIN effective' = {}
  BY <1>1 DEF NoVars
<1>3. (cfg = [mode |-> cfg.mode, data |-> cfg.data, source |-> cfg.source,
              generator |-> cfg.generator, dropins |-> cfg.dropins,
              vars |-> cfg.vars, path |-> cfg.path, config |-> cfg.config])'
  <2>1. PICK mode, source, generator, dropins, own, path, config :
          cfg' = [mode |-> mode, data |-> mode, source |-> source, generator |-> generator,
                  dropins |-> dropins, vars |-> own, path |-> path, config |-> config]
    BY DEF FromEnv
  <2> QED BY <2>1
<1> QED BY <1>1, <1>2, <1>3 DEF ManualInv, ManualTyped, ConfigInUse, RoundIsWhole, VariablesOfOwnDir

LEMMA EditConfigPreserves == ASSUME ManualInv, EditConfig PROVE ManualInv'
<1>1. /\ UNCHANGED <<environ, cfg, doing, todo, outcome_of, dirs, effective, exit>>
      /\ doing = "flags"
  BY DEF EditConfig
<1>2. disk' \in [Places -> ConfigFiles]
  BY DEF EditConfig, ManualInv, ManualTyped
<1> QED BY <1>1, <1>2 DEF ManualInv, ManualTyped, ConfigInUse, RoundIsWhole, VariablesOfOwnDir

LEMMA ApplyFlagsPreserves == ASSUME ManualInv, ApplyFlags PROVE ManualInv'
<1>1. /\ UNCHANGED <<environ, disk, todo, outcome_of, dirs, effective, exit>>
      /\ doing = "flags" /\ doing' = "check" /\ effective = NoVars /\ outcome_of = NoVars
      /\ environ.force \in BOOLEAN /\ ManualTyped
  BY DEF ApplyFlags, ManualInv, RoundIsWhole, ManualTyped
<1>2. PICK mode \in Modes : mode = DetectMode(environ.force) /\ (environ.force => mode = "user")
  BY <1>1, ModeIsDetected
<1>3. /\ cfg'.mode = mode /\ cfg'.data = mode /\ cfg'.vars = LoadEnv(mode)
      /\ cfg'.source = Resolved("source", mode) /\ cfg'.generator = Resolved("generator", mode)
      /\ cfg'.dropins = Resolved("dropins", mode)
      /\ cfg'.path = ConfigPath(mode) /\ cfg'.config = TryLoad(ConfigPath(mode))
  <2>1. cfg = [mode |-> cfg.mode, data |-> cfg.data, source |-> cfg.source,
               generator |-> cfg.generator, dropins |-> cfg.dropins,
               vars |-> cfg.vars, path |-> cfg.path, config |-> cfg.config]
    BY <1>1 DEF ManualInv, ConfigInUse
  <2>2. cfg' = [cfg EXCEPT !.mode = mode, !.generator = Resolved("generator", mode),
                           !.data = mode, !.source = Resolved("source", mode),
                           !.dropins = Resolved("dropins", mode), !.vars = LoadEnv(mode),
                           !.path = ConfigPath(mode), !.config = TryLoad(ConfigPath(mode))]
    BY <1>2 DEF ApplyFlags
  <2> QED BY <2>1, <2>2
<1>4. ConfigIsOfMode'
  <2>1. {cfg'.source, cfg'.generator, cfg'.dropins} \subseteq {mode, "given"}
    BY <1>3 DEF Resolved
  <2>2. /\ cfg'.path \in {mode, "given", "none"}
        /\ cfg'.config # NoConfig => cfg'.path \in Places /\ cfg'.config = disk[cfg'.path]
    BY <1>1, <1>3, PathIsAPlace
  <2>3. cfg'.vars = LoadEnv(cfg'.mode)
    BY <1>3
  <2> QED BY <1>1, <1>2, <1>3, <2>1, <2>2, <2>3 DEF ConfigIsOfMode, LoadEnv
<1>5. DOMAIN effective' = {}
  BY <1>1 DEF NoVars
<1> QED BY <1>1, <1>4, <1>5 DEF ManualInv, ManualTyped, ConfigInUse, RoundIsWhole, VariablesOfOwnDir

\* A sync that does not begin.
LEMMA RefusalPreserves == ASSUME ManualInv, RefuseSync \/ RunService PROVE ManualInv'
<1>1. /\ UNCHANGED <<environ, disk, cfg, todo, outcome_of, dirs, effective>>
      /\ doing = "check" /\ doing' = "ended" /\ outcome_of = NoVars
  BY DEF RefuseSync, RunService, Checked, Exit, ManualInv, RoundIsWhole
<1> QED BY <1>1 DEF ManualInv, ManualTyped, ConfigInUse, ConfigIsOfMode, RoundIsWhole,
  VariablesOfOwnDir, LoadEnv

LEMMA TakeLockPreserves == ASSUME ManualInv, TakeLock PROVE ManualInv'
<1>1. /\ UNCHANGED <<environ, disk, cfg, outcome_of, dirs, effective, exit>>
      /\ doing = "check" /\ doing' = "sync" /\ outcome_of = NoVars
      /\ todo' = cfg.config.repos /\ cfg.config # NoConfig
  BY DEF TakeLock, Checked, ManualInv, RoundIsWhole
<1>2. DOMAIN outcome_of' \cup todo' = cfg'.config.repos
  BY <1>1 DEF NoVars
<1> QED BY SMTT(30), <1>1, <1>2 DEF ManualInv, ManualTyped, ConfigInUse, ConfigIsOfMode,
  RoundIsWhole,
  VariablesOfOwnDir, LoadEnv

LEMMA SyncRepoPreserves ==
  ASSUME ManualInv, NEW r \in Repos, NEW what \in Outcomes, SyncRepo(r, what)
  PROVE  ManualInv'
<1>1. /\ UNCHANGED <<environ, disk, cfg, doing, dirs, effective, exit>>
      /\ doing = "sync" /\ r \in todo /\ todo' = todo \ {r}
      /\ DOMAIN outcome_of' = DOMAIN outcome_of \cup {r}
  BY DEF SyncRepo
<1>2. DOMAIN outcome_of' \cup todo' = cfg.config.repos /\ cfg.config # NoConfig
  BY <1>1 DEF ManualInv, RoundIsWhole
<1> QED BY <1>1, <1>2 DEF ManualInv, ManualTyped, ConfigInUse, ConfigIsOfMode, RoundIsWhole,
  VariablesOfOwnDir, LoadEnv

LEMMA ApplyChangesPreserves == ASSUME ManualInv, ApplyChanges PROVE ManualInv'
<1>1. /\ UNCHANGED <<environ, disk, cfg, todo, outcome_of, effective, exit>>
      /\ doing = "sync" /\ doing' = "dirs" /\ todo = {}
  BY DEF ApplyChanges
<1> QED BY <1>1 DEF ManualInv, ManualTyped, ConfigInUse, ConfigIsOfMode, RoundIsWhole,
  VariablesOfOwnDir, LoadEnv

LEMMA AddSourceDirPreserves == ASSUME ManualInv, AddSourceDir PROVE ManualInv'
<1>1. /\ UNCHANGED <<environ, disk, cfg, doing, todo, outcome_of, exit>> /\ doing = "dirs"
  BY DEF AddSourceDir
<1> DEFINE d == Head(dirs)
<1>2. PICK own : own = Merged(cfg.vars, d)
  OBVIOUS
<1>3. /\ DOMAIN effective' = DOMAIN effective \cup {d}
      /\ effective'[d] = own
      /\ \A e \in DOMAIN effective : e # d => effective'[e] = effective[e]
  BY <1>2 DEF AddSourceDir
<1>4. cfg.vars = LoadEnv(cfg.mode)
  BY <1>1 DEF ManualInv, ConfigInUse, ConfigIsOfMode
<1>5. /\ DOMAIN own = EnvKeys[d] \cup EnvKeys[cfg.mode] \cup {RootKey}
      /\ \A k \in DOMAIN own :
           own[k] = IF k = RootKey THEN <<d, "path">>
                    ELSE IF k \in EnvKeys[d] THEN <<d, "env">> ELSE <<cfg.mode, "env">>
  BY <1>2, <1>4 DEF Merged, LoadEnv
<1> HIDE DEF d
<1>6. VariablesOfOwnDir'
  <2> SUFFICES ASSUME NEW e \in DOMAIN effective'
               PROVE  /\ DOMAIN effective'[e] = EnvKeys[e] \cup EnvKeys[cfg.mode] \cup {RootKey}
                      /\ \A k \in DOMAIN effective'[e] :
                           effective'[e][k] = IF k = RootKey THEN <<e, "path">>
                             ELSE IF k \in EnvKeys[e] THEN <<e, "env">> ELSE <<cfg.mode, "env">>
    BY <1>1 DEF VariablesOfOwnDir, RootKey
  <2>1. CASE e = d
    BY <1>3, <1>5, <2>1
  <2>2. CASE e # d
    BY <1>3, <2>2 DEF ManualInv, VariablesOfOwnDir
  <2> QED BY <2>1, <2>2
<1> QED BY <1>1, <1>6 DEF ManualInv, ManualTyped, ConfigInUse, ConfigIsOfMode, RoundIsWhole, LoadEnv

\* A count of failures is zero when there is none.
LEMMA FailuresAreCounted ==
  ASSUME IsFiniteSet(DOMAIN outcome_of)
  PROVE  Failures \in Nat /\ (Failures > 0 <=> \E r \in DOMAIN outcome_of : outcome_of[r] = "failed")
<1>1. Became({"failed"}) \subseteq DOMAIN outcome_of
  BY DEF Became
<1>2. IsFiniteSet(Became({"failed"}))
  BY <1>1, FS_Subset
<1>3. Cardinality(Became({"failed"})) \in Nat
  BY <1>2, FS_CardinalityType
<1>4. Cardinality(Became({"failed"})) = 0 <=> Became({"failed"}) = {}
  BY <1>2, FS_EmptySet
<1> QED BY <1>3, <1>4 DEF Failures, Became

LEMMA EndSyncPreserves == ASSUME ManualInv, EndSync PROVE ManualInv'
<1>1. /\ UNCHANGED <<environ, disk, cfg, todo, outcome_of, dirs, effective>>
      /\ doing \in {"sync", "dirs"} /\ doing' = "ended" /\ todo = {}
      /\ exit' = IF Failures > 0 THEN 1 ELSE 0
  BY DEF EndSync, Exit, ManualInv, RoundIsWhole
<1>2. cfg.config # NoConfig /\ DOMAIN outcome_of = cfg.config.repos
  BY <1>1 DEF ManualInv, RoundIsWhole
<1>3. IsFiniteSet(DOMAIN outcome_of)
  <2>1. cfg.config \in ConfigFiles
    BY <1>1, <1>2 DEF ManualInv, ManualTyped, ConfigInUse, ConfigIsOfMode
  <2>2. DOMAIN outcome_of \subseteq Repos
    BY <1>2, <2>1, ManualSyncConstantsOK
  <2> QED BY <2>2, ManualSyncConstantsOK, FS_Subset
<1>4. exit' = 0 <=> \A r \in DOMAIN outcome_of : outcome_of[r] # "failed"
  <2>1. (exit' = 0) <=> ~(Failures > 0)
    BY <1>1
  <2> QED BY <1>3, <2>1, FailuresAreCounted
<1> QED BY <1>1, <1>2, <1>4 DEF ManualInv, ManualTyped, ConfigInUse, ConfigIsOfMode, RoundIsWhole,
  VariablesOfOwnDir, LoadEnv

LEMMA ManualKeepsInvariant == ManualSpec => []ManualInv
<1>1. ASSUME ManualInv, [ManualNext]_manualVars PROVE ManualInv'
  <2>1. CASE UNCHANGED manualVars
    BY <1>1, <2>1 DEF ManualInv, ManualTyped, ConfigInUse, ConfigIsOfMode, RoundIsWhole,
      VariablesOfOwnDir, LoadEnv, manualVars
  <2> QED BY <1>1, <2>1, FromEnvPreserves, EditConfigPreserves, ApplyFlagsPreserves,
    RefusalPreserves, TakeLockPreserves, SyncRepoPreserves, ApplyChangesPreserves,
    AddSourceDirPreserves, EndSyncPreserves DEF ManualNext
<1> QED BY <1>1, ManualStarts, PTL DEF ManualSpec

(***************************************************************************)
(* For any repositories, config files and environment: every setting is    *)
(* the mode's or the environment's, and every variable the directory's own *)
(* or the data directory's (apply_flags, source_dirs).                     *)
(***************************************************************************)
THEOREM SettingsOfOwnPlaceAlways == ManualSpec => []SettingsOfOwnPlace
<1>1. ManualInv => ModeIsWhole
  <2> SUFFICES ASSUME ManualInv, doing \notin {"start", "flags"} PROVE ModeIsWhole
    BY DEF ModeIsWhole
  <2>1. ConfigIsOfMode
    BY DEF ManualInv, ManualTyped, ConfigInUse
  <2>2. \A k \in DOMAIN cfg.vars : cfg.vars[k][1] = cfg.data
    BY <2>1 DEF ConfigIsOfMode, LoadEnv
  <2> QED BY <2>1, <2>2 DEF ConfigIsOfMode, ModeIsWhole, Places
<1>2. ManualInv => SettingsOfOwnPlace
  BY <1>1 DEF SettingsOfOwnPlace, ManualInv
<1> QED BY <1>2, ManualKeepsInvariant, PTL

(***************************************************************************)
(* However many repositories there are, and whichever of them fail: none   *)
(* is left out, and the exit code tells whether one failed (sync_all).     *)
(***************************************************************************)
THEOREM ExitTellsOfEveryRepoAlways == ManualSpec => []ExitTellsOfEveryRepo
<1>1. ManualInv => ExitTellsOfEveryRepo
  BY DEF ManualInv, ConfigInUse, ConfigIsOfMode, RoundIsWhole, ExitTellsOfEveryRepo
<1> QED BY <1>1, ManualKeepsInvariant, PTL

-----------------------------------------------------------------------------
(***************************************************************************)
(* UnitSettings.  What is parsed is what the lines read say; one line more *)
(* leaves the places of the lines before it what they were.                *)
(***************************************************************************)
SettingsSpec == SettingsInit /\ [][SettingsNext]_settingsVars

SettingsInv ==
  /\ seen \in Seq(Lines)
  /\ inSection = Inside(Len(seen) + 1)
  /\ watch \in Seq({line.value : line \in Lines})
  /\ \A n \in 1..Cardinality(Counting) : NthOf(Counting, n) \in Counting
  /\ SettingsAsWritten

LEMMA PlacesAreFinite ==
  ASSUME seen \in Seq(Lines), NEW places \in SUBSET (1..Len(seen))
  PROVE  IsFiniteSet(places) /\ Cardinality(places) \in Nat
<1>0. Len(seen) \in Int /\ 1 \in Int
  OBVIOUS
<1>1. IsFiniteSet(1..Len(seen))
  BY <1>0, FS_Interval
<1>2. IsFiniteSet(places)
  BY <1>1, FS_Subset
<1> QED BY <1>2, FS_CardinalityType

\* The order of places stays when a later one comes after them.
LEMMA LaterPlace ==
  ASSUME NEW S, IsFiniteSet(S), S \subseteq Nat, NEW k \in Nat, \A i \in S : i < k,
         \A n \in 1..Cardinality(S) : NthOf(S, n) \in S
  PROVE  /\ Cardinality(S \cup {k}) = Cardinality(S) + 1 /\ Cardinality(S) \in Nat
         /\ \A n \in 1..Cardinality(S) : NthOf(S \cup {k}, n) = NthOf(S, n)
         /\ NthOf(S \cup {k}, Cardinality(S) + 1) = k
<1>1. k \notin S
  OBVIOUS
<1>2. Cardinality(S) \in Nat /\ Cardinality(S \cup {k}) = Cardinality(S) + 1
  BY <1>1, FS_CardinalityType, FS_AddElement
<1>3. ASSUME NEW i \in S PROVE {j \in S \cup {k} : j <= i} = {j \in S : j <= i}
  <2>1. i \in Nat /\ i < k /\ ~(k <= i)
    OBVIOUS
  <2> QED BY <2>1
<1>4. {j \in S \cup {k} : j <= k} = S \cup {k}
  <2>1. \A j \in S \cup {k} : j <= k
    OBVIOUS
  <2> QED BY <2>1
<1>5. ASSUME NEW i \in S
      PROVE  Cardinality({j \in S : j <= i}) \in 0..Cardinality(S)
  <2>1. {j \in S : j <= i} \subseteq S
    OBVIOUS
  <2> QED BY <1>2, <2>1, FS_Subset, FS_CardinalityType
<1>6. ASSUME NEW n \in 1..Cardinality(S)
      PROVE  NthOf(S \cup {k}, n) = NthOf(S, n)
  <2>1. \A i : i \in S \cup {k} /\ Cardinality({j \in S \cup {k} : j <= i}) = n
               <=> i \in S /\ Cardinality({j \in S : j <= i}) = n
    <3>1. Cardinality({j \in S \cup {k} : j <= k}) # n
      BY <1>2, <1>4
    <3>2. \A i \in S : {j \in S \cup {k} : j <= i} = {j \in S : j <= i}
      BY <1>3
    <3>3. \A i \in S : Cardinality({j \in S \cup {k} : j <= i}) = Cardinality({j \in S : j <= i})
      BY <3>2
    <3> QED BY <1>1, <3>1, <3>3
  <2> QED BY <2>1 DEF NthOf
<1>7. NthOf(S \cup {k}, Cardinality(S) + 1) = k
  <2>1. \A i \in S \cup {k} :
          Cardinality({j \in S \cup {k} : j <= i}) = Cardinality(S) + 1 <=> i = k
    <3>1. Cardinality({j \in S \cup {k} : j <= k}) = Cardinality(S) + 1
      BY <1>2, <1>4
    <3>2. ASSUME NEW i \in S
          PROVE  Cardinality({j \in S \cup {k} : j <= i}) \in 0..Cardinality(S)
      BY <1>3, <1>5
    <3> QED BY <1>1, <1>2, <3>1, <3>2
  <2> QED BY <2>1 DEF NthOf
<1> QED BY <1>2, <1>6, <1>7

\* One line more: where it is, and that the lines before it are where they were.
LEMMA OneLineMore ==
  ASSUME SettingsInv, NEW line \in Lines, NextLine(line)
  PROVE  /\ seen' \in Seq(Lines) /\ Len(seen) \in Nat /\ Len(seen') = Len(seen) + 1
         /\ \A i \in 1..Len(seen) : seen'[i] = seen[i] /\ seen[i] \in Lines
         /\ seen'[Len(seen) + 1] = line
         /\ \A i \in 1..(Len(seen) + 1) : Inside(i)' <=> Inside(i)
         /\ Inside(Len(seen) + 1) = inSection
         /\ Inside(Len(seen) + 1)' <=> IF line.is = "header" THEN line.key = "X-QuadCD"
                                        ELSE inSection
<1>1. /\ seen' \in Seq(Lines) /\ Len(seen) \in Nat /\ Len(seen') = Len(seen) + 1
      /\ \A i \in 1..Len(seen) : seen'[i] = seen[i] /\ seen[i] \in Lines
      /\ seen'[Len(seen) + 1] = line
  BY DEF SettingsInv, NextLine
<1>2. ASSUME NEW i \in 1..(Len(seen) + 1) PROVE Inside(i)' <=> Inside(i)
  <2>1. \A h \in 1..(i - 1) : seen'[h] = seen[h]
    BY <1>1
  <2>2. \A h \in 1..(i - 1) : \A j \in (h + 1)..(i - 1) : seen'[j] = seen[j]
    BY <1>1
  <2> QED BY <2>1, <2>2 DEF Inside
<1>3. Inside(Len(seen) + 1) = inSection
  BY DEF SettingsInv
<1>4. line = Header("X-QuadCD") <=> line.is = "header" /\ line.key = "X-QuadCD"
  BY DEF Lines, Header, Assign
<1> DEFINE k == Len(seen) + 1
<1>5. Inside(Len(seen) + 1)' <=>
        \E h \in 1..k : /\ seen'[h] = Header("X-QuadCD")
                       /\ \A j \in (h + 1)..k : seen'[j].is # "header"
  BY <1>1 DEF Inside
<1>6. inSection <=> \E h \in 1..(k - 1) : /\ seen[h] = Header("X-QuadCD")
                                         /\ \A j \in (h + 1)..(k - 1) : seen[j].is # "header"
  BY <1>3 DEF Inside
<1>7. Header("X-QuadCD").is = "header"
  BY DEF Header
<1>8. CASE line.is = "header"
  <2>1. ASSUME NEW h \in 1..k, seen'[h] = Header("X-QuadCD"),
               \A j \in (h + 1)..k : seen'[j].is # "header"
        PROVE  line.key = "X-QuadCD"
    <3>1. h = k
      BY <1>1, <1>8, <2>1
    <3> QED BY <1>1, <1>4, <2>1, <3>1
  <2>2. ASSUME line.key = "X-QuadCD"
        PROVE  /\ k \in 1..k /\ seen'[k] = Header("X-QuadCD")
               /\ \A j \in (k + 1)..k : seen'[j].is # "header"
    BY <1>1, <1>4, <1>8, <2>2
  <2> HIDE DEF k
  <2> QED BY <1>1, <1>2, <1>3, <1>5, <1>8, <2>1, <2>2 DEF k
<1>9. CASE line.is # "header"
  <2>1. ASSUME NEW h \in 1..k, seen'[h] = Header("X-QuadCD"),
               \A j \in (h + 1)..k : seen'[j].is # "header"
        PROVE  /\ h \in 1..(k - 1) /\ seen[h] = Header("X-QuadCD")
               /\ \A j \in (h + 1)..(k - 1) : seen[j].is # "header"
    <3>1. h # k
      BY <1>1, <1>7, <1>9, <2>1
    <3> QED BY <1>1, <2>1, <3>1
  <2>2. ASSUME NEW h \in 1..(k - 1), seen[h] = Header("X-QuadCD"),
               \A j \in (h + 1)..(k - 1) : seen[j].is # "header"
        PROVE  /\ h \in 1..k /\ seen'[h] = Header("X-QuadCD")
               /\ \A j \in (h + 1)..k : seen'[j].is # "header"
    <3>1. \A j \in (h + 1)..k : j = k \/ j \in (h + 1)..(k - 1)
      BY <1>1
    <3>2. \A i \in 1..(k - 1) : seen'[i] = seen[i]
      BY <1>1
    <3>3. \A j \in (h + 1)..(k - 1) : j \in 1..(k - 1)
      BY <1>1
    <3>4. seen'[k] = line /\ h \in 1..k
      BY <1>1
    <3> HIDE DEF k
    <3>5. seen'[h] = Header("X-QuadCD")
      BY <2>2, <3>2
    <3>6. ASSUME NEW j \in (h + 1)..k PROVE seen'[j].is # "header"
      <4>1. CASE j = k
        BY <1>9, <3>4, <4>1
      <4>2. CASE j \in (h + 1)..(k - 1)
        <5>1. seen'[j] = seen[j]
          BY <3>2, <3>3, <4>2
        <5> QED BY <2>2, <4>2, <5>1
      <4> QED BY <3>1, <4>1, <4>2
    <3> QED BY <3>4, <3>5, <3>6
  <2> HIDE DEF k
  <2>3. Inside(Len(seen) + 1)' => inSection
    BY <1>5, <1>6, <2>1
  <2>4. inSection => Inside(Len(seen) + 1)'
    BY <1>5, <1>6, <2>2
  <2> QED BY <1>1, <1>2, <1>3, <1>9, <2>3, <2>4
<1> QED BY <1>8, <1>9

SetsStartOnSync(line) ==
  inSection /\ line.is = "assignment" /\ line.key = "StartOnSync" /\ Truth(line.value) # {}
SetsWatch(line) == inSection /\ line.is = "assignment" /\ line.key = "Watch"
IsMistake(line) ==
  inSection /\ line.is \notin {"header", "comment"} /\ ~SetsStartOnSync(line) /\ ~SetsWatch(line)

\* One line more: what its place belongs to.
LEMMA PlacesGrow ==
  ASSUME SettingsInv, NEW line \in Lines, NextLine(line),
         NEW k, k = Len(seen) + 1
  PROVE  /\ Valid' = IF SetsStartOnSync(line) THEN Valid \cup {k} ELSE Valid
         /\ Counting' = IF ~SetsWatch(line) THEN Counting
                        ELSE IF line.value = Empty THEN {} ELSE Counting \cup {k}
         /\ Mistakes' = IF IsMistake(line) THEN Mistakes \cup {k} ELSE Mistakes
         /\ Valid \subseteq 1..Len(seen) /\ Counting \subseteq 1..Len(seen)
         /\ Mistakes \subseteq 1..Len(seen)
<1>1. /\ Len(seen) \in Nat /\ Len(seen') = k
      /\ \A i \in 1..Len(seen) : seen'[i] = seen[i]
      /\ seen'[k] = line
      /\ \A i \in 1..k : Inside(i)' <=> Inside(i)
      /\ Inside(k) = inSection
  BY OneLineMore
<1>2. 1..k = 1..Len(seen) \cup {k} /\ k \notin 1..Len(seen)
  BY <1>1
<1>3. ASSUME NEW key
      PROVE  \A i : i \in Set(key)' <=>
               \/ i \in Set(key)
               \/ i = k /\ inSection /\ line.is = "assignment" /\ line.key = key
  BY <1>1, <1>2 DEF Set
<1>4. \A key : Set(key) \subseteq 1..Len(seen)
  BY DEF Set
<1>5. Valid' = IF SetsStartOnSync(line) THEN Valid \cup {k} ELSE Valid
  <2>1. \A i : i \in Valid' <=> i \in Valid \/ (i = k /\ SetsStartOnSync(line))
    BY <1>1, <1>2, <1>3, <1>4 DEF Valid, SetsStartOnSync
  <2> QED BY <2>1
<1>6. \A i : i \in Resets' <=> i \in Resets \/ (i = k /\ SetsWatch(line) /\ line.value = Empty)
  BY <1>1, <1>2, <1>3, <1>4 DEF Resets, SetsWatch
<1>7. Counting' = IF ~SetsWatch(line) THEN Counting
                  ELSE IF line.value = Empty THEN {} ELSE Counting \cup {k}
  <2>0. \A i : i \in Set("Watch")' <=> i \in Set("Watch") \/ (i = k /\ SetsWatch(line))
    BY <1>3 DEF SetsWatch
  <2>1. \A i \in Set("Watch") : i \in Nat /\ i < k
    BY <1>1, <1>2, <1>4
  <2>2. Resets \subseteq Set("Watch") /\ \A r \in Resets : r < k
    BY <2>1 DEF Resets
  <2>3. CASE ~SetsWatch(line)
    BY <1>6, <2>0, <2>3 DEF Counting
  <2>4. CASE SetsWatch(line) /\ line.value = Empty
    <3>1. \A i \in Counting' : i \in Set("Watch") /\ i # k /\ k < i
      BY <1>6, <2>0, <2>4 DEF Counting
    <3>2. Counting' = {}
      BY <1>1, <2>1, <3>1
    <3> QED BY <2>4, <3>2
  <2>5. CASE SetsWatch(line) /\ line.value # Empty
    <3>1. Resets' = Resets
      BY <1>6, <2>5
    <3>2. \A i : i \in Counting' <=> i \in Counting \/ i = k
      BY <2>0, <2>1, <2>2, <2>5, <3>1 DEF Counting
    <3> QED BY <2>5, <3>2
  <2> QED BY <2>3, <2>4, <2>5
<1>8. Mistakes' = IF IsMistake(line) THEN Mistakes \cup {k} ELSE Mistakes
  <2>1. /\ \A i \in 1..Len(seen) : i \in Valid' <=> i \in Valid
        /\ \A i \in 1..Len(seen) : i \in Set("Watch")' <=> i \in Set("Watch")
        /\ k \in Valid' <=> SetsStartOnSync(line)
        /\ k \in Set("Watch")' <=> SetsWatch(line)
    BY <1>2, <1>3, <1>4, <1>5 DEF SetsWatch, Valid
  <2>2. \A i \in 1..Len(seen) : i \in Mistakes' <=> i \in Mistakes
    BY <1>1, <1>2, <2>1 DEF Mistakes
  <2>3. k \in Mistakes' <=> IsMistake(line)
    BY <1>1, <1>2, <2>1 DEF Mistakes, IsMistake
  <2>4. Mistakes' \subseteq 1..k /\ Mistakes \subseteq 1..Len(seen)
    BY <1>1 DEF Mistakes
  <2>5. \A i : i \in Mistakes' <=> i \in Mistakes \/ (i = k /\ IsMistake(line))
    BY <1>2, <2>2, <2>3, <2>4
  <2> QED BY <2>5
<1> QED BY <1>4, <1>5, <1>7, <1>8 DEF Valid, Counting, Mistakes

\* What a line does, whichever action it is.
LEMMA WhatALineDoes ==
  ASSUME NEW line \in Lines,
         \/ Pass(line) \/ EnterSection(line) \/ Complain(line)
         \/ SetStartOnSync(line) \/ SetWatch(line)
  PROVE  /\ NextLine(line)
         /\ inSection' = IF line.is = "header" THEN line.key = "X-QuadCD" ELSE inSection
         /\ startOnSync' = IF SetsStartOnSync(line) THEN line.value = "yes" ELSE startOnSync
         /\ watch' = IF ~SetsWatch(line) THEN watch
                     ELSE IF line.value = Empty THEN <<>> ELSE Append(watch, line.value)
         /\ warnings' = IF IsMistake(line) THEN warnings + 1 ELSE warnings
<1> USE DEF SetsStartOnSync, SetsWatch, IsMistake
<1>1. CASE Pass(line)
  BY <1>1 DEF Pass
<1>2. CASE EnterSection(line)
  BY <1>2 DEF EnterSection
<1>3. CASE Complain(line)
  BY <1>3 DEF Complain
<1>4. CASE SetStartOnSync(line)
  <2>1. startOnSync' = (line.value = "yes") /\ Truth(line.value) # {}
    BY <1>4 DEF SetStartOnSync, Truth
  <2> QED BY <1>4, <2>1 DEF SetStartOnSync
<1>5. CASE SetWatch(line)
  BY <1>5 DEF SetWatch
<1> QED BY <1>1, <1>2, <1>3, <1>4, <1>5

LEMMA LinePreserves ==
  ASSUME SettingsInv, NEW line \in Lines,
         \/ Pass(line) \/ EnterSection(line) \/ Complain(line)
         \/ SetStartOnSync(line) \/ SetWatch(line)
  PROVE  SettingsInv'
<1>0. NextLine(line)
  BY WhatALineDoes
<1>1. PICK k : k = Len(seen) + 1
  OBVIOUS
<1>2. /\ seen' \in Seq(Lines) /\ Len(seen) \in Nat /\ Len(seen') = k
      /\ \A i \in 1..Len(seen) : seen'[i] = seen[i] /\ seen[i] \in Lines
      /\ seen'[k] = line
  BY <1>0, <1>1, OneLineMore
<1>3. inSection' = Inside(Len(seen) + 1)'
  <2>1. inSection \in BOOLEAN
    BY DEF SettingsInv, Inside
  <2>2. Inside(Len(seen) + 1)' \in BOOLEAN
    BY DEF Inside
  <2> QED BY <1>0, <2>1, <2>2, OneLineMore, WhatALineDoes
<1>4. watch' \in Seq({l.value : l \in Lines})
  <2> DEFINE values == {l.value : l \in Lines}
  <2>1. line.value \in values /\ watch \in Seq(values)
    BY DEF SettingsInv
  <2>2. watch' \in {watch, <<>>, Append(watch, line.value)}
    BY WhatALineDoes
  <2> HIDE DEF values
  <2>3. <<>> \in Seq(values) /\ Append(watch, line.value) \in Seq(values)
    BY <2>1
  <2>4. watch' \in Seq(values)
    BY <2>1, <2>2, <2>3
  <2> QED BY <2>4 DEF values
<1>5. /\ Valid' = IF SetsStartOnSync(line) THEN Valid \cup {k} ELSE Valid
      /\ Counting' = IF ~SetsWatch(line) THEN Counting
                     ELSE IF line.value = Empty THEN {} ELSE Counting \cup {k}
      /\ Mistakes' = IF IsMistake(line) THEN Mistakes \cup {k} ELSE Mistakes
      /\ Valid \subseteq 1..Len(seen) /\ Counting \subseteq 1..Len(seen)
      /\ Mistakes \subseteq 1..Len(seen)
  BY <1>0, <1>1, PlacesGrow
<1>6. startOnSync' = (\E i \in LastOf(Valid') : seen'[i].value = "yes")
  <2>1. startOnSync = (\E i \in LastOf(Valid) : seen[i].value = "yes")
    BY DEF SettingsInv, SettingsAsWritten, RepeatedKeysAsSystemd
  <2>2. CASE SetsStartOnSync(line)
    <3>1. Valid' = Valid \cup {k} /\ \A j \in Valid : j < k /\ j \in Nat
      BY <1>1, <1>2, <1>5, <2>2
    <3>2. LastOf(Valid') = {k}
      BY <1>1, <1>2, <3>1 DEF LastOf
    <3>3. startOnSync' = (line.value = "yes")
      BY <2>2, WhatALineDoes
    <3> QED BY <1>2, <3>2, <3>3
  <2>3. CASE ~SetsStartOnSync(line)
    <3>1. Valid' = Valid /\ startOnSync' = startOnSync
      BY <1>5, <2>3, WhatALineDoes
    <3>2. \A i \in LastOf(Valid) : seen'[i] = seen[i]
      BY <1>2, <1>5 DEF LastOf
    <3> QED BY <2>1, <3>1, <3>2
  <2> QED BY <2>2, <2>3
<1>7. /\ watch' = [n \in 1..Cardinality(Counting') |-> seen'[NthOf(Counting', n)].value]
      /\ \A n \in 1..Cardinality(Counting') : NthOf(Counting', n) \in Counting'
  <2>1. /\ watch = [n \in 1..Cardinality(Counting) |-> seen[NthOf(Counting, n)].value]
        /\ \A n \in 1..Cardinality(Counting) : NthOf(Counting, n) \in Counting
        /\ seen \in Seq(Lines)
    BY DEF SettingsInv, SettingsAsWritten, RepeatedKeysAsSystemd
  <2>2. \A n \in 1..Cardinality(Counting) : seen'[NthOf(Counting, n)] = seen[NthOf(Counting, n)]
    BY <1>2, <1>5, <2>1
  <2>3. CASE ~SetsWatch(line)
    <3>1. Counting' = Counting /\ watch' = watch
      BY <1>5, <2>3, WhatALineDoes
    <3> QED BY <2>1, <2>2, <3>1
  <2>4. CASE SetsWatch(line) /\ line.value = Empty
    <3>1. Counting' = {} /\ watch' = <<>>
      BY <1>5, <2>4, WhatALineDoes
    <3>2. Cardinality(Counting') = 0
      BY <3>1, FS_EmptySet
    <3> QED BY <3>1, <3>2
  <2>5. CASE SetsWatch(line) /\ line.value # Empty
    <3>1. Counting' = Counting \cup {k} /\ watch' = Append(watch, line.value)
      BY <1>5, <2>5, WhatALineDoes
    <3>2. /\ Cardinality(Counting') = Cardinality(Counting) + 1 /\ Cardinality(Counting) \in Nat
          /\ \A n \in 1..Cardinality(Counting) : NthOf(Counting', n) = NthOf(Counting, n)
          /\ NthOf(Counting', Cardinality(Counting) + 1) = k
      <4>1. IsFiniteSet(Counting)
        BY <1>5, <2>1, PlacesAreFinite
      <4>2. k \in Nat /\ Counting \subseteq Nat /\ \A i \in Counting : i < k
        BY <1>1, <1>2, <1>5
      <4> QED BY <2>1, <3>1, <4>1, <4>2, LaterPlace
    <3>3. watch' = [n \in 1..(Cardinality(Counting) + 1) |->
                      IF n = Cardinality(Counting) + 1 THEN line.value
                      ELSE seen[NthOf(Counting, n)].value]
      BY <2>1, <3>1, <3>2
    <3>4. ASSUME NEW n \in 1..(Cardinality(Counting) + 1)
          PROVE  /\ NthOf(Counting', n) \in Counting'
                 /\ seen'[NthOf(Counting', n)].value
                      = IF n = Cardinality(Counting) + 1 THEN line.value
                        ELSE seen[NthOf(Counting, n)].value
      <4>1. CASE n = Cardinality(Counting) + 1
        BY <1>2, <3>1, <3>2, <4>1
      <4>2. CASE n # Cardinality(Counting) + 1
        <5>1. n \in 1..Cardinality(Counting)
          BY <3>2, <4>2
        <5> QED BY <2>1, <2>2, <3>1, <3>2, <4>2, <5>1
      <4> QED BY <4>1, <4>2
    <3> QED BY <3>2, <3>3, <3>4
  <2> QED BY <2>3, <2>4, <2>5
<1>8. warnings' = Cardinality(Mistakes')
  <2>1. warnings = Cardinality(Mistakes) /\ seen \in Seq(Lines)
    BY DEF SettingsInv, SettingsAsWritten, MistakesAreWarnedOf
  <2>2. IsFiniteSet(Mistakes) /\ k \notin Mistakes
    <3>1. k \notin 1..Len(seen)
      BY <1>1, <1>2
    <3>2. IsFiniteSet(Mistakes)
      BY <1>5, <2>1, PlacesAreFinite
    <3> QED BY <1>5, <3>1, <3>2
  <2>3. Cardinality(Mistakes \cup {k}) = Cardinality(Mistakes) + 1
    BY <2>2, FS_AddElement
  <2> QED BY <1>5, <2>1, <2>3, WhatALineDoes
<1> QED BY <1>2, <1>3, <1>4, <1>6, <1>7, <1>8
  DEF SettingsInv, SettingsAsWritten, RepeatedKeysAsSystemd, MistakesAreWarnedOf

LEMMA SettingsStart == SettingsInit => SettingsInv
<1> SUFFICES ASSUME SettingsInit PROVE SettingsInv
  OBVIOUS
<1>1. seen = <<>> /\ Len(seen) = 0
  BY DEF SettingsInit
<1>2. Valid = {} /\ Counting = {} /\ Mistakes = {} /\ ~Inside(Len(seen) + 1)
  BY <1>1 DEF Valid, Counting, Mistakes, Set, Inside
<1>3. Cardinality({}) = 0
  BY FS_EmptySet
<1>4. seen \in Seq(Lines) /\ watch \in Seq({line.value : line \in Lines})
  BY DEF SettingsInit
<1>5. RepeatedKeysAsSystemd /\ MistakesAreWarnedOf
  <2>1. LastOf(Valid) = {} /\ Cardinality(Counting) = 0 /\ Cardinality(Mistakes) = 0
    BY <1>2, <1>3 DEF LastOf
  <2>2. [n \in 1..Cardinality(Counting) |-> seen[NthOf(Counting, n)].value] = <<>>
    BY <2>1
  <2>3. startOnSync = FALSE /\ watch = <<>> /\ warnings = 0
    BY DEF SettingsInit
  <2>4. startOnSync = (\E i \in LastOf(Valid) : seen[i].value = "yes")
    BY <2>1, <2>3
  <2> QED BY <2>1, <2>2, <2>3, <2>4 DEF RepeatedKeysAsSystemd, MistakesAreWarnedOf
<1>6. inSection = Inside(Len(seen) + 1)
  <2>1. Inside(Len(seen) + 1) \in BOOLEAN
    BY DEF Inside
  <2>2. inSection = FALSE
    BY DEF SettingsInit
  <2> QED BY <1>2, <2>1, <2>2
<1>7. \A n \in 1..Cardinality(Counting) : FALSE
  BY <1>2, <1>3
<1> QED BY <1>4, <1>5, <1>6, <1>7 DEF SettingsInv, SettingsAsWritten

(***************************************************************************)
(* For unit files of every length: the settings are those systemd's rules  *)
(* for repeated keys give, and every line that means nothing is warned of  *)
(* (parse_settings).                                                       *)
(***************************************************************************)
THEOREM SettingsAsWrittenAlways == SettingsSpec => []SettingsAsWritten
<1>1. ASSUME SettingsInv, [SettingsNext]_settingsVars PROVE SettingsInv'
  <2>1. CASE SettingsNext
    <3>1. PICK line \in Lines : \/ Pass(line) \/ EnterSection(line) \/ Complain(line)
                                \/ SetStartOnSync(line) \/ SetWatch(line)
      BY <2>1 DEF SettingsNext
    <3> QED BY <1>1, <3>1, LinePreserves
  <2>2. CASE UNCHANGED settingsVars
    <3>1. UNCHANGED <<seen, inSection, startOnSync, watch, warnings>>
      BY <2>2 DEF settingsVars
    <3>2. \A i : Inside(i)' = Inside(i)
      BY <3>1 DEF Inside
    <3>3. \A key : Set(key)' = Set(key)
      BY <3>1, <3>2 DEF Set
    <3>4. Valid' = Valid /\ Resets' = Resets
      BY <3>1, <3>3 DEF Valid, Resets
    <3>5. Counting' = Counting
      BY <3>3, <3>4 DEF Counting
    <3>6. Mistakes' = Mistakes
      BY <3>1, <3>2, <3>3, <3>4 DEF Mistakes
    <3>7. (inSection = Inside(Len(seen) + 1))'
      BY <1>1, <3>1 DEF SettingsInv, Inside
    <3> QED BY <1>1, <3>1, <3>4, <3>5, <3>6, <3>7
      DEF SettingsInv, SettingsAsWritten, RepeatedKeysAsSystemd, MistakesAreWarnedOf
  <2> QED BY <1>1, <2>1, <2>2
<1>2. SettingsInv => SettingsAsWritten
  BY DEF SettingsInv
<1> QED BY <1>1, <1>2, SettingsStart, PTL DEF SettingsSpec
=============================================================================
