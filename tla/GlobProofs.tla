----------------------------- MODULE GlobProofs -----------------------------
(***************************************************************************)
(* The two halves of sync/watch.rs, for globs and paths of any length.     *)
(*                                                                         *)
(* match_segment is right for every glob and every name without a star in  *)
(* it.  The prefix consumed so far always fits (so TRUE is never wrong),   *)
(* and if the whole glob matches then the rest fits from here or from a    *)
(* later position of the last star (so FALSE is never wrong).              *)
(*                                                                         *)
(* mark_watched finds the unit files whose globs mean a touched file.  The *)
(* stack of resolve holds the segments that count, and match_segments says *)
(* whether the path can be laid along them.                                *)
(***************************************************************************)
EXTENDS Glob, Watch, FiniteSetTheorems, WellFoundedInduction, TLAPS

Before(p, t, i, a) == Fits(p, t, 0, i, 0, a)
After(p, t, i, a) == Fits(p, t, i, Len(p), a, Len(t))

\* A pattern that starts to fit still does when one more of its characters takes what it may.
LEMMA BeforeGrows ==
  ASSUME NEW p, NEW t, NEW i \in Nat, NEW a \in Nat, NEW b \in Nat, a <= b,
         Before(p, t, i, a), Takes(p, t, i + 1, a, b)
  PROVE  Before(p, t, i + 1, b)
<1>1. PICK f \in [0..i -> 0..a] :
        /\ f[0] = 0 /\ f[i] = a
        /\ \A k, l \in 0..i : k <= l => f[k] <= f[l]
        /\ \A k \in (0 + 1)..i : Takes(p, t, k, f[k - 1], f[k])
  BY DEF Before, Fits
<1> DEFINE g == [k \in 0..(i + 1) |-> IF k <= i THEN f[k] ELSE b]
<1>2. g \in [0..(i + 1) -> 0..b]
  OBVIOUS
<1>3. g[0] = 0 /\ g[i + 1] = b
  BY <1>1
<1>4. \A k, l \in 0..(i + 1) : k <= l => g[k] <= g[l]
  BY <1>1
<1>5. ASSUME NEW k \in (0 + 1)..(i + 1) PROVE Takes(p, t, k, g[k - 1], g[k])
  <2>1. CASE k = i + 1
    <3>1. g[k - 1] = a /\ g[k] = b
      BY <2>1, <1>1
    <3> QED BY <3>1, <2>1
  <2>2. CASE k # i + 1
    <3>1. k \in (0 + 1)..i /\ g[k - 1] = f[k - 1] /\ g[k] = f[k]
      BY <2>2
    <3> HIDE DEF g
    <3> QED BY <3>1, <1>1
  <2> QED BY <2>1, <2>2
<1> HIDE DEF g
<1> QED BY <1>2, <1>3, <1>4, <1>5 DEF Before, Fits

\* A star at the end of what fits may take one character more.
LEMMA StarStretches ==
  ASSUME NEW p, NEW t, NEW i \in Nat, NEW a \in Nat,
         Before(p, t, i + 1, a), p[i + 1] = Star
  PROVE  Before(p, t, i + 1, a + 1)
<1>1. PICK f \in [0..(i + 1) -> 0..a] :
        /\ f[0] = 0 /\ f[i + 1] = a
        /\ \A k, l \in 0..(i + 1) : k <= l => f[k] <= f[l]
        /\ \A k \in (0 + 1)..(i + 1) : Takes(p, t, k, f[k - 1], f[k])
  BY DEF Before, Fits
<1> DEFINE g == [k \in 0..(i + 1) |-> IF k <= i THEN f[k] ELSE a + 1]
<1>2. g \in [0..(i + 1) -> 0..(a + 1)]
  OBVIOUS
<1>3. g[0] = 0 /\ g[i + 1] = a + 1
  BY <1>1
<1>4. \A k, l \in 0..(i + 1) : k <= l => g[k] <= g[l]
  BY <1>1
<1>5. ASSUME NEW k \in (0 + 1)..(i + 1) PROVE Takes(p, t, k, g[k - 1], g[k])
  <2>1. CASE k = i + 1
    <3>1. g[k - 1] <= g[k]
      BY <1>4, <2>1
    <3> QED BY <3>1, <2>1 DEF Takes
  <2>2. CASE k # i + 1
    <3>1. k \in (0 + 1)..(i + 1) /\ g[k - 1] = f[k - 1] /\ g[k] = f[k]
      BY <2>2
    <3> HIDE DEF g
    <3> QED BY <3>1, <1>1
  <2> QED BY <2>1, <2>2
<1> HIDE DEF g
<1> QED BY <1>2, <1>3, <1>4, <1>5 DEF Before, Fits

\* What fits to the end still does without its first character, from where that leaves off.
LEMMA AfterShrinks ==
  ASSUME NEW p, NEW t, NEW i \in Nat, NEW a \in Nat, Len(p) \in Nat, Len(t) \in Nat,
         i < Len(p), After(p, t, i, a)
  PROVE  \E b \in a..Len(t) : Takes(p, t, i + 1, a, b) /\ After(p, t, i + 1, b)
<1>1. PICK f \in [i..Len(p) -> a..Len(t)] :
        /\ f[i] = a /\ f[Len(p)] = Len(t)
        /\ \A k, l \in i..Len(p) : k <= l => f[k] <= f[l]
        /\ \A k \in (i + 1)..Len(p) : Takes(p, t, k, f[k - 1], f[k])
  BY DEF After, Fits
<1> DEFINE b == f[i + 1]
           g == [k \in (i + 1)..Len(p) |-> f[k]]
<1>2. b \in a..Len(t) /\ i + 1 \in (i + 1)..Len(p)
  OBVIOUS
<1>3. Takes(p, t, i + 1, a, b)
  <2>1. Takes(p, t, i + 1, f[(i + 1) - 1], f[i + 1])
    BY <1>1, <1>2
  <2> QED BY <2>1, <1>1
<1>4. g \in [(i + 1)..Len(p) -> b..Len(t)]
  BY <1>1
<1>5. g[i + 1] = b /\ g[Len(p)] = Len(t)
  BY <1>1
<1>6. \A k, l \in (i + 1)..Len(p) : k <= l => g[k] <= g[l]
  BY <1>1
<1>7. ASSUME NEW k \in (i + 1 + 1)..Len(p) PROVE Takes(p, t, k, g[k - 1], g[k])
  <2>1. k \in (i + 1)..Len(p) /\ g[k - 1] = f[k - 1] /\ g[k] = f[k]
    OBVIOUS
  <2> HIDE DEF g
  <2> QED BY <2>1, <1>1
<1>8. After(p, t, i + 1, b)
  <2> HIDE DEF g, b
  <2> QED BY <1>4, <1>5, <1>6, <1>7 DEF After, Fits
<1> QED BY <1>2, <1>3, <1>8
-----------------------------------------------------------------------------
TypeOK ==
  /\ pattern \in Patterns /\ text \in Names
  /\ pi \in 0..Len(pattern) /\ ti \in 0..Len(text)
  /\ \/ sp = -1 /\ st = -1
     \/ sp \in 0..(Len(pattern) - 1) /\ st \in 0..Len(text)
  /\ answer \in {"pending", "match", "mismatch"}

\* Where the search stands: the last star, and plain characters since.
SinceStar ==
  Starred =>
    /\ pattern[sp + 1] = Star
    /\ ti - st = pi - sp - 1
    /\ sp < pi /\ st <= ti

\* What has been consumed fits, and so does the glob up to the last star.
Sound ==
  /\ Before(pattern, text, pi, ti)
  /\ Starred => Before(pattern, text, sp + 1, st)

\* The characters since the star can only be where they would be if the star took more.
Shifted ==
  Starred =>
    \A k \in (st + 1)..Len(text) :
      After(pattern, text, sp + 1, k) =>
        /\ k + (pi - sp - 1) <= Len(text)
        /\ After(pattern, text, pi, k + (pi - sp - 1))

\* If there is a match at all, there is one from here or with more for the last star.
Complete ==
  Matches(pattern, text) =>
    \/ After(pattern, text, pi, ti)
    \/ /\ Starred
       /\ \E k \in (st + 1)..Len(text) : After(pattern, text, sp + 1, k)

Search == TypeOK /\ SinceStar /\ Sound /\ Shifted /\ Complete

Inv == Search /\ AnswerIsRight
\* What the solver should know of the lengths and counters.
Lens ==
  /\ Len(pattern) \in Nat /\ Len(text) \in Nat
  /\ pi \in 0..Len(pattern) /\ ti \in 0..Len(text)
  /\ sp \in Int /\ st \in Int
  /\ Starred => sp \in 0..(Len(pattern) - 1) /\ st \in 0..Len(text)
  /\ \A i \in 1..Len(text) : text[i] # Star

LEMMA Lengths == TypeOK => Lens
<1> SUFFICES ASSUME TypeOK PROVE Lens
  OBVIOUS
<1>1. pattern \in Seq(Chars) /\ text \in Seq(Chars \ {Star})
  BY GlobAssumption DEF TypeOK
<1>2. Len(pattern) \in Nat /\ Len(text) \in Nat
  BY <1>1
<1>3. \A i \in 1..Len(text) : text[i] # Star
  BY <1>1
<1>4. /\ pi \in 0..Len(pattern) /\ ti \in 0..Len(text)
      /\ sp \in Int /\ st \in Int
  BY <1>2 DEF TypeOK
<1>5. Starred => sp \in 0..(Len(pattern) - 1) /\ st \in 0..Len(text)
  BY <1>2 DEF TypeOK, Starred
<1> QED BY <1>2, <1>3, <1>4, <1>5 DEF Lens

\* Nothing is consumed at first, so what fits is nothing, and a match is a match of the rest.
LEMMA Begins == GlobInit => Inv
<1> SUFFICES ASSUME GlobInit PROVE Inv
  OBVIOUS
<1>1. TypeOK
  <2>1. pattern \in Seq(Chars) /\ text \in Seq(Chars \ {Star})
    BY GlobAssumption DEF GlobInit
  <2> QED BY <2>1 DEF GlobInit, TypeOK
<1>2. Before(pattern, text, 0, 0)
  <2> DEFINE f == [k \in 0..0 |-> 0]
  <2>1. f \in [0..0 -> 0..0] /\ f[0] = 0
    OBVIOUS
  <2>2. \A k, l \in 0..0 : k <= l => f[k] <= f[l]
    BY <2>1
  <2>3. \A k \in (0 + 1)..0 : Takes(pattern, text, k, f[k - 1], f[k])
    OBVIOUS
  <2> HIDE DEF f
  <2> QED BY <2>1, <2>2, <2>3 DEF Before, Fits
<1>3. ~Starred /\ pi = 0 /\ ti = 0 /\ answer = "pending"
  BY DEF GlobInit, Starred
<1>4. Complete
  BY <1>3 DEF Complete, After, Matches
<1> QED BY <1>1, <1>2, <1>3, <1>4 DEF Inv, Search, SinceStar, Sound, Shifted, AnswerIsRight

\* A character of the text is taken by the character of the glob that is the same or ?.
LEMMA AdvanceKeeps ==
  ASSUME Search, Advance PROVE Search'
<1>l. Lens /\ TypeOK /\ SinceStar /\ Sound /\ Shifted /\ Complete
  BY Lengths DEF Search
<1> USE <1>l DEF Lens, Starred
<1>0. /\ pi < Len(pattern) /\ ti < Len(text)
      /\ pattern[pi + 1] = One \/ pattern[pi + 1] = text[ti + 1]
      /\ pi' = pi + 1 /\ ti' = ti + 1
      /\ UNCHANGED <<pattern, text, sp, st, answer>>
  BY DEF Advance, Running, SameHere
<1>1. pattern[pi + 1] # Star
  BY <1>0, GlobAssumption
<1>2. \A a, b : Takes(pattern, text, pi + 1, a, b) => b = a + 1
  BY <1>1 DEF Takes
<1>3. Takes(pattern, text, pi + 1, ti, ti + 1)
  BY <1>0, <1>1 DEF Takes
<1>4. TypeOK'
  BY <1>0 DEF TypeOK
<1>5. SinceStar'
  BY <1>0 DEF SinceStar, TypeOK
<1>6. Sound'
  <2>1. Before(pattern, text, pi + 1, ti + 1)
    BY <1>3, BeforeGrows DEF Sound
  <2> QED BY <2>1, <1>0 DEF Sound
<1>7. \A a \in Nat : After(pattern, text, pi, a) =>
         a + 1 <= Len(text) /\ After(pattern, text, pi + 1, a + 1)
  BY <1>0, <1>2, AfterShrinks
<1>8. Shifted'
  <2> SUFFICES ASSUME Starred, NEW k \in (st + 1)..Len(text),
                      After(pattern, text, sp + 1, k)
               PROVE  /\ k + (pi + 1 - sp - 1) <= Len(text)
                      /\ After(pattern, text, pi + 1, k + (pi + 1 - sp - 1))
    BY <1>0 DEF Shifted
  <2> DEFINE a == k + (pi - sp - 1)
  <2>1. After(pattern, text, pi, a)
    BY DEF Shifted
  <2>2. a \in Nat
    BY DEF SinceStar, TypeOK
  <2>3. a + 1 <= Len(text) /\ After(pattern, text, pi + 1, a + 1)
    BY <2>1, <2>2, <1>7
  <2>4. a + 1 = k + (pi + 1 - sp - 1)
    BY <2>2 DEF TypeOK
  <2> QED BY <2>3, <2>4
<1>9. Complete'
  BY <1>0, <1>7 DEF Complete
<1> QED BY <1>4, <1>5, <1>6, <1>8, <1>9 DEF Search

\* Forgetting the star before loses nothing: had it to take more, the new one could as well.
LEMMA MeetStarKeeps ==
  ASSUME Search, MeetStar PROVE Search'
<1>l. Lens /\ TypeOK /\ SinceStar /\ Sound /\ Shifted /\ Complete
  BY Lengths DEF Search
<1> USE <1>l DEF Lens, Starred
<1>0. /\ pi < Len(pattern) /\ ti < Len(text)
      /\ pattern[pi + 1] = Star
      /\ pi' = pi + 1 /\ sp' = pi /\ st' = ti
      /\ UNCHANGED <<pattern, text, ti, answer>>
  BY DEF MeetStar, Running, StarHere
<1>2. Takes(pattern, text, pi + 1, ti, ti)
  BY <1>0 DEF Takes
<1>3. TypeOK'
  BY <1>0 DEF TypeOK
<1>4. SinceStar'
  BY <1>0 DEF SinceStar
<1>5. Sound'
  <2>1. Before(pattern, text, pi + 1, ti)
    BY <1>2, BeforeGrows DEF Sound
  <2> QED BY <2>1, <1>0 DEF Sound
<1>6. Shifted'
  <2> SUFFICES ASSUME NEW k \in (ti + 1)..Len(text), After(pattern, text, pi + 1, k)
               PROVE  /\ k + (pi + 1 - pi - 1) <= Len(text)
                      /\ After(pattern, text, pi + 1, k + (pi + 1 - pi - 1))
    BY <1>0 DEF Shifted
  <2>1. k + (pi + 1 - pi - 1) = k
    OBVIOUS
  <2> QED BY <2>1
<1>7. \A a \in ti..Len(text) : After(pattern, text, pi, a) =>
         \E b \in ti..Len(text) : After(pattern, text, pi + 1, b)
  BY <1>0, AfterShrinks
<1>8. ASSUME Matches(pattern, text)
      PROVE  \E b \in ti..Len(text) : After(pattern, text, pi + 1, b)
  <2>1. CASE After(pattern, text, pi, ti)
    BY <2>1, <1>7, <1>0
  <2>2. CASE /\ Starred
             /\ \E k \in (st + 1)..Len(text) : After(pattern, text, sp + 1, k)
    <3>1. PICK k \in (st + 1)..Len(text) : After(pattern, text, sp + 1, k)
      BY <2>2
    <3>2. /\ k + (pi - sp - 1) <= Len(text)
          /\ After(pattern, text, pi, k + (pi - sp - 1))
      BY <2>2, <3>1 DEF Shifted
    <3>3. k + (pi - sp - 1) \in ti..Len(text)
      BY <2>2, <3>2 DEF SinceStar, TypeOK
    <3> QED BY <3>2, <3>3, <1>7
  <2> QED BY <1>8, <2>1, <2>2 DEF Complete
<1>9. Complete'
  <2> SUFFICES ASSUME Matches(pattern, text)
               PROVE  \/ After(pattern, text, pi + 1, ti)
                      \/ \E k \in (ti + 1)..Len(text) : After(pattern, text, pi + 1, k)
    BY <1>0 DEF Complete
  <2>1. PICK b \in ti..Len(text) : After(pattern, text, pi + 1, b)
    BY <1>8
  <2>2. b = ti \/ b \in (ti + 1)..Len(text)
    OBVIOUS
  <2> QED BY <2>1, <2>2
<1> QED BY <1>3, <1>4, <1>5, <1>6, <1>9 DEF Search

\* Nothing fits from here: a character of the text, and no character of the glob to take it.
LEMMA StuckHere ==
  ASSUME Search, Running, ~SameHere, ~StarHere PROVE ~After(pattern, text, pi, ti)
<1>l. Lens /\ TypeOK /\ SinceStar /\ Sound /\ Shifted /\ Complete
  BY Lengths DEF Search
<1> USE <1>l DEF Lens, Starred
<1> SUFFICES ASSUME After(pattern, text, pi, ti) PROVE FALSE
  OBVIOUS
<1>1. CASE pi < Len(pattern)
  <2>1. PICK b \in ti..Len(text) : Takes(pattern, text, pi + 1, ti, b)
    BY <1>1, AfterShrinks
  <2> QED BY <1>1, <2>1 DEF Takes, SameHere, StarHere
<1>2. CASE pi = Len(pattern)
  BY <1>2 DEF After, Fits, Running
<1> QED BY <1>1, <1>2 DEF TypeOK

LEMMA BacktrackKeeps ==
  ASSUME Search, Backtrack PROVE Search'
<1>l. Lens /\ TypeOK /\ SinceStar /\ Sound /\ Shifted /\ Complete
  BY Lengths DEF Search
<1> USE <1>l DEF Lens, Starred
<1>0. /\ ti < Len(text) /\ Starred
      /\ sp \in Nat /\ st \in Nat
      /\ pi' = sp + 1 /\ ti' = st + 1
      /\ st' = st + 1
      /\ UNCHANGED <<pattern, text, sp, answer>>
  BY DEF Backtrack, Running, TypeOK
<1>2. sp < Len(pattern) /\ st < Len(text)
  BY <1>0 DEF SinceStar, TypeOK
<1>3. TypeOK'
  BY <1>0, <1>2 DEF TypeOK
<1>4. SinceStar'
  BY <1>0 DEF SinceStar
<1>5. Sound'
  <2>1. Before(pattern, text, sp + 1, st + 1)
    BY <1>0, StarStretches DEF Sound, SinceStar
  <2> QED BY <2>1, <1>0 DEF Sound
<1>6. Shifted'
  <2> SUFFICES ASSUME NEW k \in (st + 1 + 1)..Len(text), After(pattern, text, sp + 1, k)
               PROVE  /\ k + (sp + 1 - sp - 1) <= Len(text)
                      /\ After(pattern, text, sp + 1, k + (sp + 1 - sp - 1))
    BY <1>0 DEF Shifted
  <2>1. k + (sp + 1 - sp - 1) = k
    BY <1>0
  <2> QED BY <2>1
<1>7. Complete'
  <2> SUFFICES ASSUME Matches(pattern, text)
               PROVE  \/ After(pattern, text, sp + 1, st + 1)
                      \/ \E k \in (st + 1 + 1)..Len(text) :
                            After(pattern, text, sp + 1, k)
    BY <1>0 DEF Complete
  <2>1. ~After(pattern, text, pi, ti)
    BY StuckHere DEF Backtrack
  <2>2. PICK k \in (st + 1)..Len(text) : After(pattern, text, sp + 1, k)
    BY <2>1 DEF Complete
  <2>3. k = st + 1 \/ k \in (st + 1 + 1)..Len(text)
    BY <1>0
  <2> QED BY <2>2, <2>3
<1> QED BY <1>3, <1>4, <1>5, <1>6, <1>7 DEF Search

\* A search that ends leaves its counters alone.
LEMMA EndKeeps ==
  ASSUME Search, UNCHANGED <<pattern, text, pi, ti, sp, st>>,
         answer' \in {"pending", "match", "mismatch"}
  PROVE  Search'
<1>1. Starred' = Starred
  BY DEF Starred
<1>2. TypeOK'
  BY DEF Search, TypeOK
<1>3. SinceStar' /\ Sound'
  BY <1>1 DEF Search, SinceStar, Sound
<1>4. Shifted'
  BY <1>1 DEF Search, Shifted
<1>5. Complete'
  BY <1>1 DEF Search, Complete
<1> QED BY <1>2, <1>3, <1>4, <1>5 DEF Search

LEMMA MismatchIsRight ==
  ASSUME Search, Mismatch PROVE Search' /\ AnswerIsRight'
<1>1. ~Matches(pattern, text)
  BY StuckHere DEF Mismatch, Search, Complete
<1>2. Search'
  BY EndKeeps DEF Mismatch
<1>3. answer' = "mismatch" /\ pattern' = pattern /\ text' = text
  BY DEF Mismatch
<1> QED BY <1>1, <1>2, <1>3 DEF AnswerIsRight

LEMMA UseUpIsRight ==
  ASSUME Search, UseUp PROVE Search' /\ AnswerIsRight'
<1>l. Lens /\ TypeOK /\ SinceStar /\ Sound /\ Shifted /\ Complete
  BY Lengths DEF Search
<1> USE <1>l DEF Lens, Starred
<1> DEFINE stars == \A k \in (pi + 1)..Len(pattern) : pattern[k] = Star
<1>0. /\ ti = Len(text)
      /\ UNCHANGED <<pattern, text, pi, ti, sp, st>>
  BY DEF UseUp
<1>a. answer' = IF stars THEN "match" ELSE "mismatch"
  BY DEF UseUp
<1>1. ASSUME stars PROVE Matches(pattern, text)
  <2>1. PICK f \in [0..pi -> 0..ti] :
          /\ f[0] = 0 /\ f[pi] = ti
          /\ \A k, l \in 0..pi : k <= l => f[k] <= f[l]
          /\ \A k \in (0 + 1)..pi : Takes(pattern, text, k, f[k - 1], f[k])
    BY DEF Sound, Before, Fits
  <2> DEFINE g == [k \in 0..Len(pattern) |-> IF k <= pi THEN f[k] ELSE ti]
  <2>2. g \in [0..Len(pattern) -> 0..Len(text)]
    BY <1>0
  <2>3. g[0] = 0 /\ g[Len(pattern)] = Len(text)
    BY <1>0, <2>1 DEF TypeOK
  <2>4. \A k, l \in 0..Len(pattern) : k <= l => g[k] <= g[l]
    BY <2>1
  <2>5. ASSUME NEW k \in (0 + 1)..Len(pattern) PROVE Takes(pattern, text, k, g[k - 1], g[k])
    <3>1. CASE k > pi
      <4>1. pattern[k] = Star
        BY <1>1, <3>1
      <4>2. g[k - 1] = ti /\ g[k] = ti
        BY <3>1, <2>1
      <4> QED BY <4>1, <4>2 DEF Takes
    <3>2. CASE k <= pi
      <4>1. k \in (0 + 1)..pi /\ g[k - 1] = f[k - 1] /\ g[k] = f[k]
        BY <3>2
      <4> HIDE DEF g
      <4> QED BY <4>1, <2>1
    <3> QED BY <3>1, <3>2
  <2> HIDE DEF g
  <2> QED BY <2>2, <2>3, <2>4, <2>5 DEF Matches, Fits
<1>2. ASSUME Matches(pattern, text) PROVE stars
  <2>1. After(pattern, text, pi, ti)
    <3>1. ASSUME Starred, NEW k \in (st + 1)..Len(text),
                 After(pattern, text, sp + 1, k)
          PROVE  FALSE
      <4>1. k + (pi - sp - 1) <= Len(text)
        BY <3>1 DEF Shifted
      <4> QED BY <4>1, <3>1, <1>0 DEF SinceStar, TypeOK
    <3> QED BY <1>2, <3>1 DEF Complete
  <2>2. PICK f \in [pi..Len(pattern) -> ti..Len(text)] :
          \A k \in (pi + 1)..Len(pattern) : Takes(pattern, text, k, f[k - 1], f[k])
    BY <2>1 DEF After, Fits
  <2> SUFFICES ASSUME NEW k \in (pi + 1)..Len(pattern) PROVE pattern[k] = Star
    OBVIOUS
  <2>3. f[k - 1] = ti /\ f[k] = ti
    BY <1>0
  <2>4. Takes(pattern, text, k, ti, ti)
    BY <2>2, <2>3
  <2> QED BY <2>4 DEF Takes
<1>3. Search'
  <2> HIDE DEF stars
  <2> QED BY <1>0, <1>a, EndKeeps
<1> HIDE DEF stars
<1> QED BY <1>0, <1>a, <1>1, <1>2, <1>3 DEF AnswerIsRight

LEMMA Stepwise == Inv /\ [GlobNext]_globVars => Inv'
<1> SUFFICES ASSUME Inv, [GlobNext]_globVars PROVE Inv'
  OBVIOUS
<1>0. Search
  BY DEF Inv
<1>1. CASE Advance
  BY <1>0, <1>1, AdvanceKeeps DEF Inv, AnswerIsRight, Advance, Running
<1>2. CASE MeetStar
  BY <1>0, <1>2, MeetStarKeeps DEF Inv, AnswerIsRight, MeetStar, Running
<1>3. CASE Backtrack
  BY <1>0, <1>3, BacktrackKeeps DEF Inv, AnswerIsRight, Backtrack, Running
<1>4. CASE Mismatch
  BY <1>0, <1>4, MismatchIsRight DEF Inv
<1>5. CASE UseUp
  BY <1>0, <1>5, UseUpIsRight DEF Inv
<1>6. CASE UNCHANGED globVars
  <2>1. Search'
    BY <1>0, <1>6, EndKeeps DEF globVars, Search, TypeOK
  <2> QED BY <2>1, <1>6 DEF Inv, AnswerIsRight, globVars
<1> QED BY <1>1, <1>2, <1>3, <1>4, <1>5, <1>6 DEF GlobNext

(***************************************************************************)
(* match_segment returns true exactly when the name matches the glob, for  *)
(* all globs, and all names without a literal star.                        *)
(***************************************************************************)
THEOREM AnswerIsRightAlways == GlobSpec => []AnswerIsRight
<1>1. Inv => AnswerIsRight
  BY DEF Inv
<1> QED BY Begins, Stepwise, <1>1, PTL DEF GlobSpec

\* An upper bound of the turns left: the last star may take each character once, and
\* between two of those the loop goes once through what is left of both.
PerStar == Len(pattern) + Len(text) + 1

TurnsLeft ==
  (Len(text) - st) * PerStar + (Len(pattern) - pi) + (Len(text) - ti)
    + (IF answer = "pending" THEN 1 ELSE 0)

LEMMA Multiples ==
  ASSUME NEW K \in Nat, NEW a \in Nat, NEW b \in Nat, a <= b
  PROVE  /\ a * K \in Nat /\ a * K <= b * K
         /\ a < b => a * K + K <= b * K
<1>1. PICK c \in Nat : b = a + c
  <2>1. b - a \in Nat /\ b = a + (b - a)
    OBVIOUS
  <2> QED BY <2>1
<1>2. a * K \in Nat /\ c * K \in Nat /\ b * K = a * K + c * K
  BY <1>1
<1>3. ASSUME a < b PROVE a * K + K <= b * K
  <2>1. PICK d \in Nat : c = d + 1
    <3>1. c - 1 \in Nat /\ c = (c - 1) + 1
      BY <1>1, <1>3
    <3> QED BY <3>1
  <2>2. d * K \in Nat /\ c * K = d * K + K
    BY <2>1
  <2> QED BY <1>2, <2>2
<1> QED BY <1>2, <1>3

LEMMA TurnsTyped ==
  ASSUME Lens, TypeOK
  PROVE  /\ Len(text) - st \in Nat /\ PerStar \in Nat \ {0}
         /\ (Len(text) - st) * PerStar \in Nat /\ TurnsLeft \in Nat
<1>1. Len(text) - st \in Nat
  BY DEF TypeOK, Lens
<1>2. PerStar \in Nat \ {0}
  BY DEF Lens, PerStar
<1>3. (Len(text) - st) * PerStar \in Nat
  <2> HIDE DEF PerStar
  <2> QED BY <1>1, <1>2, Multiples
<1>4. TurnsLeft \in Nat
  <2> HIDE DEF PerStar
  <2> DEFINE product == (Len(text) - st) * PerStar
  <2>1. product \in Nat
    BY <1>3
  <2>2. TurnsLeft = product + (Len(pattern) - pi) + (Len(text) - ti)
                      + (IF answer = "pending" THEN 1 ELSE 0)
    BY DEF TurnsLeft
  <2> HIDE DEF product
  <2> QED BY <2>1, <2>2 DEF Lens
<1> QED BY <1>1, <1>2, <1>3, <1>4

LEMMA TurnsGoDown ==
  ASSUME Inv, GlobNext
  PROVE  TurnsLeft' < TurnsLeft
<1>1. TypeOK /\ Lens /\ SinceStar
  BY Lengths DEF Inv, Search
<1> DEFINE K == PerStar
           now == (Len(text) - st) * K
           next == (Len(text) - st') * K
           one == IF answer = "pending" THEN 1 ELSE 0
           oneNext == IF answer' = "pending" THEN 1 ELSE 0
<1>2. UNCHANGED <<pattern, text>> /\ answer = "pending"
  BY DEF GlobNext, Advance, MeetStar, Backtrack, Mismatch, UseUp, Running
<1>3. /\ TurnsLeft = now + (Len(pattern) - pi) + (Len(text) - ti) + one
      /\ TurnsLeft' = next + (Len(pattern) - pi') + (Len(text) - ti') + oneNext
  BY <1>2 DEF TurnsLeft, PerStar
<1>4. now \in Nat /\ K \in Nat
  BY <1>1, TurnsTyped
<1>5. one = 1 /\ oneNext \in 0..1
  BY <1>2
<1>6. CASE Advance \/ Mismatch \/ UseUp
  <2>1. st' = st
    BY <1>6 DEF Advance, Mismatch, UseUp
  <2>2. next = now
    BY <2>1
  <2> HIDE DEF now, next, one, oneNext
  <2>3. CASE Advance
    <3>1. pi' = pi + 1 /\ ti' = ti + 1
      BY <2>3 DEF Advance
    <3> QED BY <1>1, <1>3, <1>4, <1>5, <2>2, <3>1 DEF Lens
  <2>4. CASE Mismatch \/ UseUp
    <3>1. pi' = pi /\ ti' = ti /\ answer' # "pending"
      BY <2>4 DEF Mismatch, UseUp
    <3>2. oneNext = 0
      BY <3>1 DEF oneNext
    <3> QED BY <1>1, <1>3, <1>4, <1>5, <2>2, <3>1, <3>2 DEF Lens
  <2> QED BY <1>6, <2>3, <2>4
<1>7. CASE MeetStar
  <2>1. pi' = pi + 1 /\ ti' = ti /\ st' = ti
    BY <1>7 DEF MeetStar
  <2>2. next <= now /\ next \in Nat
    <3>1. Len(text) - st' \in Nat /\ Len(text) - st \in Nat /\ Len(text) - st' <= Len(text) - st
      BY <1>1, <2>1, TurnsTyped DEF Lens, TypeOK, SinceStar, Starred
    <3> HIDE DEF K
    <3> QED BY <1>4, <3>1, Multiples
  <2> HIDE DEF now, next, one, oneNext
  <2> QED BY <1>1, <1>3, <1>4, <1>5, <2>1, <2>2 DEF Lens
<1>8. CASE Backtrack
  <2>1. pi' = sp + 1 /\ ti' = st + 1 /\ st' = st + 1 /\ Starred /\ ti < Len(text)
    BY <1>8 DEF Backtrack, Running
  <2>2. st <= ti /\ sp \in Nat /\ st \in Nat
    BY <1>1, <2>1 DEF Lens, SinceStar
  <2>3. next + K <= now /\ next \in Nat
    <3>1. Len(text) - st' \in Nat /\ Len(text) - st \in Nat /\ Len(text) - st' < Len(text) - st
      BY <1>1, <2>1, <2>2 DEF Lens
    <3> HIDE DEF K
    <3> QED BY <1>4, <3>1, Multiples
  <2> HIDE DEF now, next, one, oneNext
  <2> QED BY <1>1, <1>3, <1>4, <1>5, <2>1, <2>2, <2>3 DEF Lens, PerStar
<1> QED BY <1>6, <1>7, <1>8 DEF GlobNext

(***************************************************************************)
(* The loop of match_segment, which sets both its counters back, is over   *)
(* after at most (|t| + 1)(|p| + |t| + 1) + |p| + |t| + 1 turns: each turn  *)
(* leaves fewer, for globs and names of every length.                      *)
(***************************************************************************)
THEOREM LoopIsBounded ==
  GlobSpec => /\ [](TurnsLeft \in Nat)
              /\ [][TurnsLeft' < TurnsLeft]_globVars
<1>1. Inv => TurnsLeft \in Nat
  BY Lengths, TurnsTyped DEF Inv, Search
<1>2. Inv /\ [GlobNext]_globVars => [TurnsLeft' < TurnsLeft]_globVars
  BY TurnsGoDown
<1> QED BY <1>1, <1>2, Begins, Stepwise, PTL DEF GlobSpec

-----------------------------------------------------------------------------
\* Induction over the natural numbers, for a set of them.
LEMMA FromZeroOn ==
  ASSUME NEW S, 0 \in S, \A n \in Nat : n \in S => n + 1 \in S
  PROVE  Nat \subseteq S
<1> DEFINE T == Nat \ S
<1> SUFFICES ASSUME T # {} PROVE FALSE
  OBVIOUS
<1>1. T \subseteq Nat
  OBVIOUS
<1>2. PICK m \in T : \A r \in T : <<r, m>> \notin OpToRel(<, Nat)
  BY <1>1, NatLessThanWellFounded, WFMin, Zenon
<1>3. m # 0 /\ m - 1 \in Nat
  OBVIOUS
<1>4. m - 1 \notin S
  BY <1>3
<1>5. <<m - 1, m>> \in {ss \in Nat \X Nat : ss[1] < ss[2]}
  BY <1>3
<1>6. <<m - 1, m>> \notin OpToRel(<, Nat)
  BY <1>2, <1>3, <1>4
<1> QED BY <1>5, <1>6 DEF OpToRel

-----------------------------------------------------------------------------
(* The recursive functions are defined by their equations. *)

LEMMA StacksDefined ==
  ASSUME NEW s, Len(s) \in Nat
  PROVE  /\ Stacks(s)[0] = <<>>
         /\ \A n \in 1..Len(s) : Stacks(s)[n] = Enter(Stacks(s)[n - 1], s[n])
<1> DEFINE Next(g, n) == IF n = 0 THEN <<>> ELSE Enter(g[n - 1], s[n])
           Part(g, m) == g = [n \in 0..m |-> Next(g, n)]
           Reached == {m \in Nat : \E g : Part(g, m)}
<1>1. 0 \in Reached
  <2> DEFINE g == [n \in 0..0 |-> <<>>]
  <2>1. \A n \in 0..0 : Next(g, n) = <<>>
    OBVIOUS
  <2>2. Part(g, 0)
    BY <2>1
  <2> QED BY <2>2
<1>2. ASSUME NEW m \in Nat, m \in Reached PROVE m + 1 \in Reached
  <2>1. PICK g : Part(g, m)
    BY <1>2
  <2> DEFINE h == [n \in 0..(m + 1) |-> Next(g, n)]
  <2>2. ASSUME NEW n \in 0..(m + 1) PROVE Next(g, n) = Next(h, n)
    <3>1. CASE n = 0
      BY <3>1
    <3>2. CASE n # 0
      <4>1. n - 1 \in 0..m /\ n - 1 \in 0..(m + 1)
        BY <3>2
      <4>2. g[n - 1] = Next(g, n - 1)
        BY <2>1, <4>1
      <4>3. h[n - 1] = Next(g, n - 1)
        BY <4>1
      <4> QED BY <4>2, <4>3
    <3> QED BY <3>1, <3>2
  <2>3. Part(h, m + 1)
    BY <2>2
  <2> HIDE DEF Part, h
  <2> QED BY <2>3
<1>3. Len(s) \in Reached
  <2> HIDE DEF Reached
  <2> QED BY <1>1, <1>2, FromZeroOn
<1>4. PICK g : g = [n \in 0..Len(s) |-> IF n = 0 THEN <<>> ELSE Enter(g[n - 1], s[n])]
  BY <1>3
<1>5. Stacks(s) = [n \in 0..Len(s) |-> IF n = 0 THEN <<>> ELSE Enter(Stacks(s)[n - 1], s[n])]
  BY <1>4 DEF Stacks
<1> QED BY <1>5

LEMMA MatchingDefined ==
  ASSUME NEW p, NEW s, Len(p) \in Nat
  PROVE  /\ MatchingFrom(p, s)[Len(p) + 1] = {Len(s) + 1}
         /\ \A i \in 1..Len(p) :
              MatchingFrom(p, s)[i] = PlacesBefore(p[i], s, MatchingFrom(p, s)[i + 1])
<1> DEFINE L == Len(p)
           Next(g, i) == IF i > L THEN {Len(s) + 1} ELSE PlacesBefore(p[i], s, g[i + 1])
           Part(g, m) == g = [i \in (L + 1 - m)..(L + 1) |-> Next(g, i)]
           Reached == {m \in Nat : m <= L => \E g : Part(g, m)}
<1>1. 0 \in Reached
  <2> DEFINE g == [i \in (L + 1)..(L + 1) |-> {Len(s) + 1}]
  <2>1. \A i \in (L + 1)..(L + 1) : Next(g, i) = {Len(s) + 1}
    OBVIOUS
  <2>2. L + 1 - 0 = L + 1
    OBVIOUS
  <2>3. Part(g, 0)
    BY <2>1, <2>2
  <2> HIDE DEF Part, g
  <2> QED BY <2>3
<1>2. ASSUME NEW m \in Nat, m \in Reached PROVE m + 1 \in Reached
  <2> SUFFICES ASSUME m + 1 <= L PROVE \E g : Part(g, m + 1)
    OBVIOUS
  <2>1. PICK g : Part(g, m)
    BY <1>2
  <2> DEFINE h == [i \in (L + 1 - (m + 1))..(L + 1) |-> Next(g, i)]
  <2>2. ASSUME NEW i \in (L + 1 - (m + 1))..(L + 1) PROVE Next(g, i) = Next(h, i)
    <3>1. CASE i > L
      BY <3>1
    <3>2. CASE i <= L
      <4>1. i + 1 \in (L + 1 - m)..(L + 1) /\ i + 1 \in (L + 1 - (m + 1))..(L + 1)
        BY <3>2
      <4>2. g[i + 1] = Next(g, i + 1)
        BY <2>1, <4>1
      <4>3. h[i + 1] = Next(g, i + 1)
        BY <4>1
      <4> QED BY <4>2, <4>3
    <3> QED BY <3>1, <3>2
  <2>3. Part(h, m + 1)
    BY <2>2
  <2> HIDE DEF Part, h
  <2> QED BY <2>3
<1>3. L \in Reached
  <2> HIDE DEF Reached
  <2> QED BY <1>1, <1>2, FromZeroOn
<1>4. L + 1 - L = 1
  OBVIOUS
<1>5. PICK g : g = [i \in 1..(L + 1) |-> IF i > L THEN {Len(s) + 1}
                                        ELSE PlacesBefore(p[i], s, g[i + 1])]
  BY <1>3, <1>4
<1> DEFINE F == MatchingFrom(p, s)
           G == [i \in 1..(L + 1) |-> IF i > L THEN {Len(s) + 1} ELSE PlacesBefore(p[i], s, F[i + 1])]
<1>6. F = G
  BY <1>5 DEF MatchingFrom
<1>7. \A i \in 1..(L + 1) : G[i] = IF i > L THEN {Len(s) + 1} ELSE PlacesBefore(p[i], s, F[i + 1])
  OBVIOUS
<1> HIDE DEF F, G
<1>8. F[L + 1] = {Len(s) + 1} /\ \A i \in 1..L : F[i] = PlacesBefore(p[i], s, F[i + 1])
  BY <1>6, <1>7
<1> QED BY <1>8 DEF F

-----------------------------------------------------------------------------
(* What the stack of resolve holds *)

Steps == {Void, ".", ".."}
CountsTo(s, n) == {a \in 1..n : s[a] \notin Steps /\ \A b \in a..n : Depth(s, a, b) >= 1}
From(places, a) == {c \in places : c >= a}
Escapes(s, n) == \E b \in 1..n : Depth(s, 1, b) < 0

\* The list holds, in their order, what stands in these places.
InOrder(list, s, places) ==
  /\ Len(list) = Cardinality(places)
  /\ \A i \in places : list[Cardinality({j \in places : j <= i})] = s[i]

\* One segment more leads down, up or nowhere.
LEMMA DepthGrows ==
  ASSUME NEW s, NEW a \in Nat \ {0}, NEW n \in Nat, a <= n + 1
  PROVE  /\ Depth(s, a, n) \in Int /\ Depth(s, n + 1, n) = 0
         /\ s[n + 1] \notin Steps => Depth(s, a, n + 1) = Depth(s, a, n) + 1
         /\ s[n + 1] = ".." => Depth(s, a, n + 1) = Depth(s, a, n) - 1
         /\ s[n + 1] \in {Void, "."} => Depth(s, a, n + 1) = Depth(s, a, n)
<1> DEFINE down(b, m) == {k \in b..m : s[k] \notin Steps}
           up(b, m) == {k \in b..m : s[k] = ".."}
<1>1. \A b, m : Depth(s, b, m) = Cardinality(down(b, m)) - Cardinality(up(b, m))
  BY DEF Depth, Steps
<1>2. /\ IsFiniteSet(down(a, n)) /\ Cardinality(down(a, n)) \in Nat
      /\ IsFiniteSet(up(a, n)) /\ Cardinality(up(a, n)) \in Nat
  <2>1. IsFiniteSet(a..n)
    BY FS_Interval
  <2>2. down(a, n) \in SUBSET (a..n) /\ up(a, n) \in SUBSET (a..n)
    OBVIOUS
  <2> HIDE DEF down, up
  <2> QED BY <2>1, <2>2, FS_Subset, FS_CardinalityType
<1>3. n + 1 \notin down(a, n) /\ n + 1 \notin up(a, n)
  OBVIOUS
<1>4. down(a, n + 1) = IF s[n + 1] \notin Steps THEN down(a, n) \cup {n + 1} ELSE down(a, n)
  <2>1. \A k : k \in a..(n + 1) <=> k \in a..n \/ k = n + 1
    OBVIOUS
  <2> QED BY <2>1
<1>5. up(a, n + 1) = IF s[n + 1] = ".." THEN up(a, n) \cup {n + 1} ELSE up(a, n)
  <2>1. \A k : k \in a..(n + 1) <=> k \in a..n \/ k = n + 1
    OBVIOUS
  <2> QED BY <2>1
<1>6. /\ Cardinality(down(a, n) \cup {n + 1}) = Cardinality(down(a, n)) + 1
      /\ Cardinality(up(a, n) \cup {n + 1}) = Cardinality(up(a, n)) + 1
  <2> HIDE DEF down, up
  <2> QED BY <1>2, <1>3, FS_AddElement
<1>7. Depth(s, n + 1, n) = 0
  <2>1. down(n + 1, n) = {} /\ up(n + 1, n) = {}
    OBVIOUS
  <2>2. Cardinality({}) = 0
    BY FS_EmptySet
  <2> QED BY <1>1, <2>1, <2>2
<1>8. ".." \in Steps /\ ".." \notin {Void, "."} /\ {Void, "."} \subseteq Steps
  BY DEF Steps, Void
<1> HIDE DEF down, up
<1> QED BY <1>1, <1>2, <1>4, <1>5, <1>6, <1>7, <1>8

\* A name is added to those that count, or an earlier one taken back.
LEMMA CountsGrow ==
  ASSUME NEW s, NEW n \in Nat
  PROVE  /\ CountsTo(s, n) \subseteq 1..n
         /\ s[n + 1] \notin Steps => CountsTo(s, n + 1) = CountsTo(s, n) \cup {n + 1}
         /\ s[n + 1] = ".." =>
              CountsTo(s, n + 1) = {a \in CountsTo(s, n) : Depth(s, a, n) >= 2}
         /\ s[n + 1] \in {Void, "."} => CountsTo(s, n + 1) = CountsTo(s, n)
<1>1. CountsTo(s, n) \subseteq 1..n
  BY DEF CountsTo
<1>2. ASSUME NEW a \in 1..n
      PROVE  a \in CountsTo(s, n + 1) <=> a \in CountsTo(s, n) /\ Depth(s, a, n + 1) >= 1
  <2>1. \A b : b \in a..(n + 1) <=> b \in a..n \/ b = n + 1
    OBVIOUS
  <2> QED BY <2>1 DEF CountsTo
<1>3. n + 1 \in CountsTo(s, n + 1) <=> s[n + 1] \notin Steps
  <2>1. \A b : b \in (n + 1)..(n + 1) <=> b = n + 1
    OBVIOUS
  <2>2. s[n + 1] \notin Steps => Depth(s, n + 1, n + 1) = 0 + 1
    BY DepthGrows
  <2> QED BY <2>1, <2>2 DEF CountsTo
<1>4. \A a : a \in CountsTo(s, n + 1) => a \in 1..n \/ a = n + 1
  BY DEF CountsTo
<1>5. \A a \in CountsTo(s, n) : Depth(s, a, n) \in Int /\ Depth(s, a, n) >= 1
  <2>1. \A a \in CountsTo(s, n) : n \in a..n
    BY DEF CountsTo
  <2> QED BY <1>1, <2>1, DepthGrows DEF CountsTo
<1>6. ".." \in Steps /\ {Void, "."} \subseteq Steps
  BY DEF Steps
<1>7. ASSUME NEW a \in CountsTo(s, n)
       PROVE  /\ s[n + 1] \notin Steps => Depth(s, a, n + 1) = Depth(s, a, n) + 1
              /\ s[n + 1] = ".." => Depth(s, a, n + 1) = Depth(s, a, n) - 1
              /\ s[n + 1] \in {Void, "."} => Depth(s, a, n + 1) = Depth(s, a, n)
  <2>1. a \in Nat \ {0} /\ a <= n + 1
    BY <1>1
  <2> QED BY <2>1, DepthGrows
<1>8. ASSUME s[n + 1] \notin Steps PROVE CountsTo(s, n + 1) = CountsTo(s, n) \cup {n + 1}
  <2>1. \A a \in CountsTo(s, n) : Depth(s, a, n + 1) >= 1
    BY <1>5, <1>8, <1>7
  <2> QED BY <1>1, <1>2, <1>3, <1>4, <1>8, <2>1
<1>9. ASSUME s[n + 1] = ".."
      PROVE  CountsTo(s, n + 1) = {a \in CountsTo(s, n) : Depth(s, a, n) >= 2}
  <2>1. \A a \in CountsTo(s, n) : Depth(s, a, n + 1) >= 1 <=> Depth(s, a, n) >= 2
    BY <1>5, <1>9, <1>7
  <2> QED BY <1>1, <1>2, <1>3, <1>4, <1>6, <1>9, <2>1
<1>10. ASSUME s[n + 1] \in {Void, "."} PROVE CountsTo(s, n + 1) = CountsTo(s, n)
  <2>1. \A a \in CountsTo(s, n) : Depth(s, a, n + 1) >= 1
    BY <1>5, <1>10, <1>7
  <2> QED BY <1>1, <1>2, <1>3, <1>4, <1>6, <1>10, <2>1
<1> QED BY <1>1, <1>8, <1>9, <1>10

\* One more place, behind the others.
LEMMA InOrderGrows ==
  ASSUME NEW n \in Nat, NEW places, places \subseteq 1..n, NEW s, NEW T,
         NEW list \in Seq(T), InOrder(list, s, places), s[n + 1] \in T
  PROVE  /\ Append(list, s[n + 1]) \in Seq(T)
         /\ InOrder(Append(list, s[n + 1]), s, places \cup {n + 1})
<1> DEFINE more == places \cup {n + 1}
           rank(i) == {j \in places : j <= i}
           rankNow(i) == {j \in more : j <= i}
           longer == Append(list, s[n + 1])
<1>1. IsFiniteSet(places) /\ Cardinality(places) \in Nat
  <2>1. IsFiniteSet(1..n) /\ places \in SUBSET (1..n)
    BY FS_Interval
  <2> QED BY <2>1, FS_Subset, FS_CardinalityType
<1>2. Cardinality(more) = Cardinality(places) + 1
  <2>1. n + 1 \notin places
    OBVIOUS
  <2> QED BY <1>1, <2>1, FS_AddElement
<1>3. ASSUME NEW i \in places
      PROVE  rankNow(i) = rank(i) /\ Cardinality(rank(i)) \in 1..Len(list)
  <2>1. rankNow(i) = rank(i)
    OBVIOUS
  <2>2. rank(i) \in SUBSET places /\ i \in rank(i)
    OBVIOUS
  <2>3. IsFiniteSet(rank(i)) /\ Cardinality(rank(i)) <= Cardinality(places)
    BY <1>1, <2>2, FS_Subset
  <2>4. Cardinality(rank(i)) \in Nat /\ Cardinality(rank(i)) # 0
    BY <2>2, <2>3, FS_CardinalityType, FS_EmptySet
  <2>5. Len(list) = Cardinality(places)
    BY DEF InOrder
  <2> QED BY <1>1, <2>1, <2>3, <2>4, <2>5
<1>4. rankNow(n + 1) = more
  <2>1. \A j \in more : j <= n + 1
    OBVIOUS
  <2> QED BY <2>1
<1>5. /\ longer \in Seq(T) /\ Len(longer) = Len(list) + 1
      /\ \A k \in 1..Len(list) : longer[k] = list[k]
      /\ longer[Len(list) + 1] = s[n + 1]
  <2>1. ASSUME NEW x \in T
        PROVE  /\ Append(list, x) \in Seq(T) /\ Len(Append(list, x)) = Len(list) + 1
               /\ \A k \in 1..Len(list) : Append(list, x)[k] = list[k]
               /\ Append(list, x)[Len(list) + 1] = x
    OBVIOUS
  <2> QED BY <2>1
<1>6. /\ Len(list) = Cardinality(places)
      /\ \A i \in places : list[Cardinality(rank(i))] = s[i]
  BY DEF InOrder
<1>7. ASSUME NEW i \in more PROVE longer[Cardinality(rankNow(i))] = s[i]
  <2>1. CASE i \in places
    BY <1>3, <1>5, <1>6, <2>1
  <2>2. CASE i = n + 1
    BY <1>2, <1>4, <1>5, <1>6, <2>2
  <2> QED BY <2>1, <2>2
<1> HIDE DEF more, longer, rank
<1>8. Len(longer) = Cardinality(more)
  BY <1>2, <1>5, <1>6
<1> QED BY <1>5, <1>7, <1>8 DEF InOrder, more, longer

\* The last place is given up.
LEMMA InOrderShrinks ==
  ASSUME NEW n \in Nat, NEW places, places \subseteq 1..n, NEW s, NEW T,
         NEW list \in Seq(T), InOrder(list, s, places),
         NEW m \in places, \A j \in places : j <= m
  PROVE  /\ Front(list) \in Seq(T) /\ list # <<>>
         /\ InOrder(Front(list), s, places \ {m})
<1> DEFINE fewer == places \ {m}
           rank(i) == {j \in places : j <= i}
           rankNow(i) == {j \in fewer : j <= i}
<1>1. IsFiniteSet(places) /\ Cardinality(places) \in Nat
  <2>1. IsFiniteSet(1..n) /\ places \in SUBSET (1..n)
    BY FS_Interval
  <2> QED BY <2>1, FS_Subset, FS_CardinalityType
<1>2. /\ IsFiniteSet(fewer) /\ Cardinality(fewer) = Cardinality(places) - 1
      /\ Cardinality(fewer) \in Nat
  BY <1>1, FS_RemoveElement, FS_CardinalityType
<1>3. /\ Len(list) = Cardinality(places) /\ Len(list) \in Nat
      /\ \A i \in places : list[Cardinality(rank(i))] = s[i]
  BY DEF InOrder
<1>4. ASSUME NEW i \in fewer
      PROVE  rankNow(i) = rank(i) /\ Cardinality(rank(i)) \in 1..Cardinality(fewer)
  <2>1. i < m
    OBVIOUS
  <2>2. rankNow(i) = rank(i)
    BY <2>1
  <2>3. rankNow(i) \in SUBSET fewer /\ i \in rankNow(i)
    OBVIOUS
  <2>4. IsFiniteSet(rankNow(i)) /\ Cardinality(rankNow(i)) <= Cardinality(fewer)
    BY <1>2, <2>3, FS_Subset
  <2>5. Cardinality(rankNow(i)) \in Nat /\ Cardinality(rankNow(i)) # 0
    BY <2>3, <2>4, FS_CardinalityType, FS_EmptySet
  <2> HIDE DEF rank, rankNow, fewer
  <2> QED BY <1>2, <2>2, <2>4, <2>5
<1>5. /\ Front(list) \in Seq(T) /\ Len(Front(list)) = Len(list) - 1
      /\ \A k \in 1..(Len(list) - 1) : Front(list)[k] = list[k]
  BY <1>2, <1>3 DEF Front
<1>6. list # <<>>
  BY <1>2, <1>3
<1>7. \A i \in fewer : Front(list)[Cardinality(rankNow(i))] = s[i]
  BY <1>2, <1>3, <1>4, <1>5
<1> HIDE DEF fewer
<1>8. Len(Front(list)) = Cardinality(fewer)
  BY <1>2, <1>3, <1>5
<1> QED BY <1>5, <1>6, <1>7, <1>8 DEF InOrder, fewer

\* Of places that can be counted, one is the last.
LEMMA LastPlace ==
  ASSUME NEW n \in Nat, NEW places, places \subseteq 1..n, places # {}
  PROVE  \E m \in places : \A j \in places : j <= m
<1> DEFINE Below == {k \in Nat : (\A i \in places : i <= k)
                                 => \E m \in places : \A j \in places : j <= m}
<1>1. 0 \in Below
  <2>1. PICK i \in places : TRUE
    OBVIOUS
  <2>2. ~(i <= 0)
    OBVIOUS
  <2> QED BY <2>2
<1>2. ASSUME NEW k \in Nat, k \in Below PROVE k + 1 \in Below
  <2> SUFFICES ASSUME \A i \in places : i <= k + 1
               PROVE  \E m \in places : \A j \in places : j <= m
    OBVIOUS
  <2>1. CASE k + 1 \in places
    BY <2>1
  <2>2. CASE k + 1 \notin places
    <3>1. \A i \in places : i <= k
      BY <2>2
    <3> QED BY <1>2, <3>1
  <2> QED BY <2>1, <2>2
<1>3. n \in Below
  <2> HIDE DEF Below
  <2> QED BY <1>1, <1>2, FromZeroOn
<1> QED BY <1>3

(***************************************************************************)
(* The stack holds the names that count, in their order; how deep it is    *)
(* above any of them is how deep the segments from there on lead.          *)
(***************************************************************************)
StackHolds(s, n) ==
  /\ Escapes(s, n) => Stacks(s)[n] = Bad
  /\ ~Escapes(s, n) =>
       /\ Stacks(s)[n] \in Seq(Segments \ Steps)
       /\ InOrder(Stacks(s)[n], s, CountsTo(s, n))
       /\ Depth(s, 1, n) = Cardinality(CountsTo(s, n))
       /\ \A a \in CountsTo(s, n) : Depth(s, a, n) = Cardinality(From(CountsTo(s, n), a))

\* No list of names is the one that stands for a glob that leads out.
LEMMA NeverBad ==
  ASSUME NEW t \in Seq(Segments \ Steps)
  PROVE  t # Bad /\ Len(t) \in Nat
<1> SUFFICES ASSUME t = Bad PROVE FALSE
  OBVIOUS
<1>1. Len(t) = 1 /\ t[1] = ".."
  BY DEF Bad
<1>2. t[1] \in Segments \ Steps
  BY <1>1
<1> QED BY <1>1, <1>2 DEF Steps

LEMMA StackStarts ==
  ASSUME NEW s \in Seq(Segments)
  PROVE  StackHolds(s, 0)
<1>1. Stacks(s)[0] = <<>>
  BY StacksDefined
<1>2. ~Escapes(s, 0) /\ CountsTo(s, 0) = {}
  BY DEF Escapes, CountsTo
<1>3. Cardinality({}) = 0 /\ Depth(s, 1, 0) = 0
  <2>1. Depth(s, 0 + 1, 0) = 0
    BY DepthGrows
  <2> QED BY <2>1, FS_EmptySet
<1>4. InOrder(<<>>, s, {})
  BY <1>3 DEF InOrder
<1>5. <<>> \in Seq(Segments \ Steps)
  OBVIOUS
<1> QED BY ONLY <1>1, <1>2, <1>3, <1>4, <1>5 DEF StackHolds

LEMMA StackGoesOn ==
  ASSUME NEW s \in Seq(Segments), NEW n \in 0..(Len(s) - 1), StackHolds(s, n)
  PROVE  StackHolds(s, n + 1)
<1> DEFINE t == Stacks(s)[n]
           x == s[n + 1]
           C == CountsTo(s, n)
           D == CountsTo(s, n + 1)
<1>1. /\ Stacks(s)[n + 1] = Enter(t, x) /\ x \in Segments /\ n \in Nat
  <2>1. n + 1 \in 1..Len(s) /\ (n + 1) - 1 = n
    OBVIOUS
  <2>2. Stacks(s)[n + 1] = Enter(Stacks(s)[(n + 1) - 1], s[n + 1])
    BY <2>1, StacksDefined
  <2> QED BY <2>1, <2>2
<1>2. Escapes(s, n + 1) <=> Escapes(s, n) \/ Depth(s, 1, n + 1) < 0
  <2>1. \A b : b \in 1..(n + 1) <=> b \in 1..n \/ b = n + 1
    BY <1>1
  <2> QED BY <2>1 DEF Escapes
<1>5. Depth(s, n + 1, n) = 0
  BY <1>1, DepthGrows
<1>6. ASSUME NEW a \in 1..(n + 1)
      PROVE  /\ x \notin Steps => Depth(s, a, n + 1) = Depth(s, a, n) + 1
             /\ x = ".." => Depth(s, a, n + 1) = Depth(s, a, n) - 1
             /\ x \in {Void, "."} => Depth(s, a, n + 1) = Depth(s, a, n)
  <2>1. a \in Nat \ {0} /\ a <= n + 1
    OBVIOUS
  <2> QED BY <1>1, <2>1, DepthGrows
<1>3. CASE Escapes(s, n)
  <2>1. t = Bad
    BY <1>3 DEF StackHolds
  <2>2. Enter(t, x) = Bad
    BY <2>1 DEF Enter
  <2> QED BY <1>1, <1>2, <1>3, <2>2 DEF StackHolds
<1>4. CASE ~Escapes(s, n)
  <2>1. /\ t \in Seq(Segments \ Steps) /\ InOrder(t, s, C)
        /\ Depth(s, 1, n) = Cardinality(C)
        /\ \A a \in C : Depth(s, a, n) = Cardinality(From(C, a))
    BY <1>4 DEF StackHolds
  <2>2. t # Bad
    BY <2>1, NeverBad
  <2>3. /\ C \subseteq 1..n /\ IsFiniteSet(C) /\ Cardinality(C) \in Nat
    <3>1. C \subseteq 1..n /\ IsFiniteSet(1..n)
      BY <1>1, CountsGrow, FS_Interval
    <3> QED BY <3>1, FS_Subset, FS_CardinalityType
  <2>4. \A a \in C : IsFiniteSet(From(C, a)) /\ Cardinality(From(C, a)) \in Nat
    <3> TAKE a \in C
    <3>1. From(C, a) \in SUBSET C
      BY DEF From
    <3> QED BY <2>3, <3>1, FS_Subset, FS_CardinalityType
  <2>5. CASE x \notin Steps
    <3>1. D = C \cup {n + 1} /\ n + 1 \notin C
      BY <1>1, <2>3, <2>5, CountsGrow
    <3>2. /\ Depth(s, 1, n + 1) = Depth(s, 1, n) + 1
          /\ \A a \in C : Depth(s, a, n + 1) = Depth(s, a, n) + 1
          /\ Depth(s, n + 1, n + 1) = 1
      <4>1. Depth(s, n + 1, n + 1) = 0 + 1
        BY <1>1, <1>5, <1>6, <2>5
      <4>2. C \subseteq 1..(n + 1) /\ 1 \in 1..(n + 1)
        BY <1>1, <2>3
      <4> QED BY <1>6, <2>5, <4>1, <4>2
    <3>3. Cardinality(D) = Cardinality(C) + 1
      BY <2>3, <3>1, FS_AddElement
    <3>4. Stacks(s)[n + 1] = Append(t, x)
      BY <1>1, <2>2, <2>5 DEF Enter, Steps
    <3>5. /\ Stacks(s)[n + 1] \in Seq(Segments \ Steps)
          /\ InOrder(Stacks(s)[n + 1], s, D)
      <4> DEFINE T == Segments \ Steps
      <4>1. x \in T /\ t \in Seq(T)
        BY <1>1, <2>1, <2>5
      <4> HIDE DEF T, C, t
      <4>2. Append(t, s[n + 1]) \in Seq(T) /\ InOrder(Append(t, s[n + 1]), s, C \cup {n + 1})
        BY <1>1, <2>1, <2>3, <4>1, InOrderGrows
      <4> QED BY <3>1, <3>4, <4>2 DEF T, t
    <3>6. ASSUME NEW a \in D PROVE Depth(s, a, n + 1) = Cardinality(From(D, a))
      <4>1. CASE a \in C
        <5>1. From(D, a) = From(C, a) \cup {n + 1} /\ n + 1 \notin From(C, a)
          BY <1>1, <2>3, <3>1, <4>1 DEF From
        <5>2. Cardinality(From(D, a)) = Cardinality(From(C, a)) + 1
          BY <2>4, <4>1, <5>1, FS_AddElement
        <5> QED BY <2>1, <3>2, <4>1, <5>2
      <4>2. CASE a = n + 1
        <5>1. From(D, a) = {n + 1}
          BY <1>1, <2>3, <3>1, <4>2 DEF From
        <5>2. Cardinality({n + 1}) = 1
          BY FS_Singleton
        <5> QED BY <3>2, <4>2, <5>1, <5>2
      <4> QED BY <3>1, <4>1, <4>2
    <3>7. ~Escapes(s, n + 1)
      BY <1>2, <1>4, <2>1, <2>3, <3>2
    <3>8. Depth(s, 1, n + 1) = Cardinality(D)
      BY <2>1, <3>2, <3>3
    <3> QED BY <3>5, <3>6, <3>7, <3>8 DEF StackHolds
  <2>6. CASE x \in {Void, "."}
    <3>1. D = C
      BY <1>1, <2>6, CountsGrow
    <3>2. /\ Depth(s, 1, n + 1) = Depth(s, 1, n)
          /\ \A a \in C : Depth(s, a, n + 1) = Depth(s, a, n)
      <4>1. C \subseteq 1..(n + 1) /\ 1 \in 1..(n + 1)
        BY <1>1, <2>3
      <4> QED BY <1>6, <2>6, <4>1
    <3>3. Stacks(s)[n + 1] = t
      BY <1>1, <2>2, <2>6 DEF Enter, Void
    <3>4. ~Escapes(s, n + 1)
      BY <1>2, <1>4, <2>1, <2>3, <3>2
    <3> QED BY <2>1, <3>1, <3>2, <3>3, <3>4 DEF StackHolds
  <2>7. CASE x = ".."
    <3>1. D = {a \in C : Depth(s, a, n) >= 2}
      BY <1>1, <2>7, CountsGrow
    <3>2. /\ Depth(s, 1, n + 1) = Depth(s, 1, n) - 1
          /\ \A a \in C : Depth(s, a, n + 1) = Depth(s, a, n) - 1
      <4>1. C \subseteq 1..(n + 1) /\ 1 \in 1..(n + 1)
        BY <1>1, <2>3
      <4> QED BY <1>6, <2>7, <4>1
    <3>3. Stacks(s)[n + 1] = IF t = <<>> THEN Bad ELSE Front(t)
      BY <1>1, <2>2, <2>7 DEF Enter, Void
    <3>4. CASE C = {}
      <4>1. Cardinality(C) = 0 /\ Len(t) = 0
        BY <2>1, <3>4, FS_EmptySet DEF InOrder
      <4>2. t = <<>>
        BY <2>1, <4>1
      <4>3. Escapes(s, n + 1)
        BY <1>2, <2>1, <3>2, <4>1
      <4> QED BY <3>3, <4>2, <4>3 DEF StackHolds
    <3>5. CASE C # {}
      <4>1. PICK m \in C : \A j \in C : j <= m
        BY <1>1, <2>3, <3>5, LastPlace
      <4>2. ASSUME NEW a \in C PROVE Cardinality(From(C, a)) >= 2 <=> a # m
        <5>1. CASE a = m
          <6>1. From(C, a) = {m}
            BY <2>3, <4>1, <5>1 DEF From
          <6>2. Cardinality({m}) = 1
            BY FS_Singleton
          <6>3. Cardinality(From(C, a)) = 1
            BY <6>1, <6>2
          <6> QED BY ONLY <5>1, <6>3
        <5>2. CASE a # m
          <6> DEFINE both == {a} \cup {m}
          <6>1. both \in SUBSET From(C, a)
            BY <2>3, <4>1, <5>2 DEF From
          <6>2. IsFiniteSet({a}) /\ Cardinality({a}) = 1 /\ m \notin {a}
            BY <5>2, FS_Singleton
          <6>3. Cardinality(both) = 1 + 1
            BY <6>2, FS_AddElement
          <6> HIDE DEF both
          <6>4. Cardinality(both) <= Cardinality(From(C, a))
            BY <2>4, <6>1, FS_Subset
          <6>5. Cardinality(From(C, a)) \in Nat
            BY <2>4
          <6> QED BY ONLY <5>2, <6>3, <6>4, <6>5
        <5> QED BY <5>1, <5>2
      <4>3. D = C \ {m}
        BY <2>1, <3>1, <4>2
      <4>4. Cardinality(D) = Cardinality(C) - 1
        BY <2>3, <4>3, FS_RemoveElement
      <4>5. Front(t) \in Seq(Segments \ Steps) /\ t # <<>> /\ InOrder(Front(t), s, D)
        <5> DEFINE T == Segments \ Steps
        <5>1. t \in Seq(T)
          BY <2>1
        <5> HIDE DEF T, C, t
        <5>2. Front(t) \in Seq(T) /\ t # <<>> /\ InOrder(Front(t), s, C \ {m})
          BY <1>1, <2>1, <2>3, <4>1, <5>1, InOrderShrinks
        <5> QED BY <4>3, <5>2 DEF T
      <4>6. ASSUME NEW a \in D PROVE Depth(s, a, n + 1) = Cardinality(From(D, a))
        <5>1. a \in C
          BY <4>3
        <5>2. From(D, a) = From(C, a) \ {m} /\ m \in From(C, a)
          BY <2>3, <4>1, <4>3, <5>1 DEF From
        <5>3. Cardinality(From(D, a)) = Cardinality(From(C, a)) - 1
          BY <2>4, <5>1, <5>2, FS_RemoveElement
        <5> QED BY <2>1, <3>2, <5>1, <5>3
      <4>7. ~Escapes(s, n + 1) /\ Depth(s, 1, n + 1) = Cardinality(D)
        <5>1. Cardinality(C) # 0
          BY <2>3, <3>5, FS_EmptySet
        <5> QED BY <1>2, <1>4, <2>1, <2>3, <3>2, <4>4, <5>1
      <4>8. Stacks(s)[n + 1] = Front(t)
        BY <3>3, <4>5
      <4> QED BY <4>5, <4>6, <4>7, <4>8 DEF StackHolds
    <3> QED BY <3>4, <3>5
  <2> QED BY <2>5, <2>6, <2>7 DEF Steps
<1> QED BY <1>3, <1>4

LEMMA StackIsRight ==
  ASSUME NEW s \in Seq(Segments)
  PROVE  StackHolds(s, Len(s))
<1> DEFINE Held == {n \in Nat : n <= Len(s) => StackHolds(s, n)}
<1>1. 0 \in Held
  BY StackStarts
<1>2. ASSUME NEW n \in Nat, n \in Held PROVE n + 1 \in Held
  <2> SUFFICES ASSUME n + 1 <= Len(s) PROVE StackHolds(s, n + 1)
    OBVIOUS
  <2>1. n \in 0..(Len(s) - 1) /\ StackHolds(s, n)
    BY <1>2
  <2> QED BY <2>1, StackGoesOn
<1>3. Len(s) \in Nat /\ Nat \subseteq Held
  <2> HIDE DEF Held
  <2> QED BY <1>1, <1>2, FromZeroOn
<1> QED BY <1>3

-----------------------------------------------------------------------------
(* The glob as it is resolved matches where the glob as it is written lies. *)

\* Segments k+1 .. of s can take the path from character b on.
LiesFrom(s, path, k, b) ==
  \E f \in [k..Len(s) -> 0..Len(path)] :
    /\ f[k] = b /\ f[Len(s)] = Len(path)
    /\ \A i \in (k + 1)..Len(s) :
         \/ i \notin Counts(s) /\ f[i] = f[i - 1]
         \/ i \in Counts(s) /\ s[i] = "**" /\ f[i] >= f[i - 1]
         \/ i \in Counts(s) /\ f[i] = f[i - 1] + 1 /\ SegmentMatches(s[i], path[f[i]])

\* One more segment in front of a stretch.
LaysNext(s, path, k, b, c) ==
  \/ k + 1 \notin Counts(s) /\ c = b
  \/ k + 1 \in Counts(s) /\ s[k + 1] = "**" /\ c >= b
  \/ k + 1 \in Counts(s) /\ c = b + 1 /\ SegmentMatches(s[k + 1], path[c])

LEMMA LiesStep ==
  ASSUME NEW s, NEW path, Len(s) \in Nat, Len(path) \in Nat,
         NEW k \in 0..(Len(s) - 1), NEW b \in 0..Len(path)
  PROVE  LiesFrom(s, path, k, b) <=>
           \E c \in 0..Len(path) : LaysNext(s, path, k, b, c) /\ LiesFrom(s, path, k + 1, c)
<1>1. ASSUME LiesFrom(s, path, k, b)
      PROVE  \E c \in 0..Len(path) : LaysNext(s, path, k, b, c) /\ LiesFrom(s, path, k + 1, c)
  <2>1. PICK f \in [k..Len(s) -> 0..Len(path)] :
          /\ f[k] = b /\ f[Len(s)] = Len(path)
          /\ \A i \in (k + 1)..Len(s) :
               \/ i \notin Counts(s) /\ f[i] = f[i - 1]
               \/ i \in Counts(s) /\ s[i] = "**" /\ f[i] >= f[i - 1]
               \/ i \in Counts(s) /\ f[i] = f[i - 1] + 1 /\ SegmentMatches(s[i], path[f[i]])
    BY <1>1 DEF LiesFrom
  <2> DEFINE g == [i \in (k + 1)..Len(s) |-> f[i]]
  <2>2. /\ g \in [(k + 1)..Len(s) -> 0..Len(path)]
        /\ \A i \in (k + 1)..Len(s) : g[i] = f[i]
    OBVIOUS
  <2>3. k + 1 \in (k + 1)..Len(s) /\ (k + 1) - 1 = k /\ Len(s) \in (k + 1)..Len(s)
    OBVIOUS
  <2>4. LaysNext(s, path, k, b, g[k + 1])
    <3> HIDE DEF g
    <3> QED BY <2>1, <2>2, <2>3 DEF LaysNext
  <2>5. LiesFrom(s, path, k + 1, g[k + 1])
    <3>1. \A i \in (k + 2)..Len(s) : i \in (k + 1)..Len(s) /\ i - 1 \in (k + 1)..Len(s)
      OBVIOUS
    <3>2. (k + 1) + 1 = k + 2
      OBVIOUS
    <3> HIDE DEF g
    <3>3. \A i \in (k + 2)..Len(s) :
            \/ i \notin Counts(s) /\ g[i] = g[i - 1]
            \/ i \in Counts(s) /\ s[i] = "**" /\ g[i] >= g[i - 1]
            \/ i \in Counts(s) /\ g[i] = g[i - 1] + 1 /\ SegmentMatches(s[i], path[g[i]])
      <4> SUFFICES ASSUME NEW i \in (k + 2)..Len(s)
                   PROVE \/ i \notin Counts(s) /\ g[i] = g[i - 1]
                         \/ i \in Counts(s) /\ s[i] = "**" /\ g[i] >= g[i - 1]
                         \/ i \in Counts(s) /\ g[i] = g[i - 1] + 1
                            /\ SegmentMatches(s[i], path[g[i]])
        OBVIOUS
      <4>1. g[i] = f[i] /\ g[i - 1] = f[i - 1] /\ i \in (k + 1)..Len(s)
        BY <2>2, <3>1
      <4> QED BY <2>1, <4>1
    <3> QED BY <2>1, <2>2, <2>3, <3>2, <3>3 DEF LiesFrom
  <2>6. g[k + 1] \in 0..Len(path)
    BY <2>2, <2>3
  <2> HIDE DEF g
  <2> QED BY <2>4, <2>5, <2>6
<1>2. ASSUME NEW c \in 0..Len(path), LaysNext(s, path, k, b, c), LiesFrom(s, path, k + 1, c)
      PROVE  LiesFrom(s, path, k, b)
  <2>1. PICK f \in [(k + 1)..Len(s) -> 0..Len(path)] :
          /\ f[k + 1] = c /\ f[Len(s)] = Len(path)
          /\ \A i \in ((k + 1) + 1)..Len(s) :
               \/ i \notin Counts(s) /\ f[i] = f[i - 1]
               \/ i \in Counts(s) /\ s[i] = "**" /\ f[i] >= f[i - 1]
               \/ i \in Counts(s) /\ f[i] = f[i - 1] + 1 /\ SegmentMatches(s[i], path[f[i]])
    BY <1>2 DEF LiesFrom
  <2> DEFINE g == [i \in k..Len(s) |-> IF i = k THEN b ELSE f[i]]
  <2>2. g \in [k..Len(s) -> 0..Len(path)]
    <3>1. \A i \in k..Len(s) : i = k \/ i \in (k + 1)..Len(s)
      OBVIOUS
    <3> QED BY <3>1
  <2>3. g[k] = b /\ \A i \in (k + 1)..Len(s) : g[i] = f[i]
    OBVIOUS
  <2>4. ASSUME NEW i \in (k + 1)..Len(s)
        PROVE \/ i \notin Counts(s) /\ g[i] = g[i - 1]
              \/ i \in Counts(s) /\ s[i] = "**" /\ g[i] >= g[i - 1]
              \/ i \in Counts(s) /\ g[i] = g[i - 1] + 1 /\ SegmentMatches(s[i], path[g[i]])
    <3> HIDE DEF g
    <3>1. CASE i = k + 1
      <4>1. g[i] = c /\ g[i - 1] = b
        BY <2>1, <2>3, <3>1
      <4> QED BY <1>2, <3>1, <4>1 DEF LaysNext
    <3>2. CASE i # k + 1
      <4>1. i \in ((k + 1) + 1)..Len(s) /\ i - 1 \in (k + 1)..Len(s)
        BY <3>2
      <4>2. g[i] = f[i] /\ g[i - 1] = f[i - 1]
        BY <2>3, <4>1
      <4> QED BY <2>1, <4>1, <4>2
    <3> QED BY <3>1, <3>2
  <2>5. g[Len(s)] = Len(path)
    <3>1. Len(s) \in (k + 1)..Len(s)
      OBVIOUS
    <3> QED BY <2>1, <2>3, <3>1
  <2> HIDE DEF g
  <2> QED BY <2>2, <2>3, <2>4, <2>5 DEF LiesFrom
<1> QED BY <1>1, <1>2

\* How many of the first k segments count.
Rank(s, k) == Cardinality({j \in Counts(s) : j <= k})

LEMMA RankGrows ==
  ASSUME NEW s, Len(s) \in Nat, NEW k \in 0..(Len(s) - 1)
  PROVE  /\ Rank(s, k) \in Nat
         /\ k + 1 \notin Counts(s) => Rank(s, k + 1) = Rank(s, k)
         /\ k + 1 \in Counts(s) => Rank(s, k + 1) = Rank(s, k) + 1
<1> DEFINE upto(i) == {j \in Counts(s) : j <= i}
<1>1. Counts(s) \subseteq 1..Len(s)
  BY DEF Counts
<1>2. IsFiniteSet(upto(k)) /\ Cardinality(upto(k)) \in Nat
  <2>1. upto(k) \in SUBSET (1..Len(s)) /\ IsFiniteSet(1..Len(s))
    BY <1>1, FS_Interval
  <2> QED BY <2>1, FS_Subset, FS_CardinalityType
<1>3. \A j \in Counts(s) : j <= k + 1 <=> j <= k \/ j = k + 1
  BY <1>1
<1>4. k + 1 \notin upto(k)
  OBVIOUS
<1>5. k + 1 \notin Counts(s) => upto(k + 1) = upto(k)
  BY <1>3
<1>6. k + 1 \in Counts(s) => upto(k + 1) = upto(k) \cup {k + 1}
  BY <1>3
<1>7. Cardinality(upto(k) \cup {k + 1}) = Cardinality(upto(k)) + 1
  <2> HIDE DEF upto
  <2> QED BY <1>2, <1>4, FS_AddElement
<1>8. Rank(s, k) = Cardinality(upto(k)) /\ Rank(s, k + 1) = Cardinality(upto(k + 1))
  BY DEF Rank
<1> HIDE DEF upto
<1> QED BY <1>2, <1>5, <1>6, <1>7, <1>8

\* What is left of s lies along the path where what is left of its names matches.
AsMatched(s, t, path, k) ==
  LET places == MatchingFrom(t, path)[Rank(s, k) + 1]
  IN /\ places \subseteq 1..(Len(path) + 1)
     /\ \A b \in 0..Len(path) : LiesFrom(s, path, k, b) <=> b + 1 \in places

LEMMA AsMatchedAtTheEnd ==
  ASSUME NEW s, NEW t, NEW path, Len(s) \in Nat, Len(t) \in Nat, Len(path) \in Nat,
         InOrder(t, s, Counts(s))
  PROVE  AsMatched(s, t, path, Len(s))
<1>1. Rank(s, Len(s)) = Len(t)
  <2>1. {j \in Counts(s) : j <= Len(s)} = Counts(s)
    BY DEF Counts
  <2> QED BY <2>1 DEF Rank, InOrder
<1>2. MatchingFrom(t, path)[Len(t) + 1] = {Len(path) + 1}
  BY MatchingDefined
<1>3. ASSUME NEW b \in 0..Len(path) PROVE LiesFrom(s, path, Len(s), b) <=> b = Len(path)
  <2>1. ASSUME b = Len(path) PROVE LiesFrom(s, path, Len(s), b)
    <3> DEFINE f == [i \in Len(s)..Len(s) |-> b]
    <3>1. f \in [Len(s)..Len(s) -> 0..Len(path)] /\ f[Len(s)] = b
      OBVIOUS
    <3>2. (Len(s) + 1)..Len(s) = {}
      OBVIOUS
    <3> HIDE DEF f
    <3> QED BY <2>1, <3>1, <3>2 DEF LiesFrom
  <2>2. ASSUME LiesFrom(s, path, Len(s), b) PROVE b = Len(path)
    BY <2>2 DEF LiesFrom
  <2> QED BY <2>1, <2>2
<1> QED BY <1>1, <1>2, <1>3 DEF AsMatched

LEMMA AsMatchedBefore ==
  ASSUME NEW s, NEW t, NEW path, Len(s) \in Nat, Len(t) \in Nat, Len(path) \in Nat,
         InOrder(t, s, Counts(s)), NEW k \in 0..(Len(s) - 1), AsMatched(s, t, path, k + 1)
  PROVE  AsMatched(s, t, path, k)
<1> DEFINE r == Rank(s, k)
           N == Len(path)
           later == MatchingFrom(t, path)[Rank(s, k + 1) + 1]
           places == MatchingFrom(t, path)[r + 1]
<1>1. /\ later \subseteq 1..(N + 1)
      /\ \A c \in 0..N : LiesFrom(s, path, k + 1, c) <=> c + 1 \in later
  BY DEF AsMatched
<1>2. \A b \in 0..N :
        LiesFrom(s, path, k, b) <=>
          \E c \in 0..N : LaysNext(s, path, k, b, c) /\ c + 1 \in later
  BY <1>1, LiesStep
<1>3. CASE k + 1 \notin Counts(s)
  <2>1. places = later
    BY <1>3, RankGrows
  <2>2. \A b, c : LaysNext(s, path, k, b, c) <=> c = b
    BY <1>3 DEF LaysNext
  <2> HIDE DEF places, later, N
  <2>3. places \subseteq 1..(N + 1) /\ \A b \in 0..N : LiesFrom(s, path, k, b) <=> b + 1 \in places
    BY <1>1, <1>2, <2>1, <2>2
  <2> QED BY <2>3 DEF AsMatched, places, N
<1>4. CASE k + 1 \in Counts(s)
  <2>1. r \in Nat /\ Rank(s, k + 1) = r + 1
    BY <1>4, RankGrows
  <2>2. r + 1 \in 1..Len(t)
    <3>1. IsFiniteSet(Counts(s))
      <4>1. Counts(s) \in SUBSET (1..Len(s)) /\ IsFiniteSet(1..Len(s))
        BY FS_Interval DEF Counts
      <4> QED BY <4>1, FS_Subset
    <3>2. {j \in Counts(s) : j <= k + 1} \in SUBSET Counts(s)
      OBVIOUS
    <3>3. Rank(s, k + 1) <= Cardinality(Counts(s))
      BY <3>1, <3>2, FS_Subset DEF Rank
    <3> QED BY <2>1, <3>3 DEF InOrder
  <2>3. t[r + 1] = s[k + 1]
    BY <1>4, <2>1 DEF InOrder, Rank
  <2>4. places = PlacesBefore(s[k + 1], path, later)
    BY <2>1, <2>2, <2>3, MatchingDefined
  <2> HIDE DEF places, later, r
  <2>5. CASE s[k + 1] = "**"
    <3>1. places = {j \in 1..(N + 1) : \E c \in later : j <= c}
      BY <2>4, <2>5 DEF PlacesBefore
    <3>2. ASSUME NEW b \in 0..N, NEW c \in 0..N PROVE LaysNext(s, path, k, b, c) <=> c >= b
      BY <1>4, <2>5 DEF LaysNext
    <3>3. ASSUME NEW b \in 0..N
          PROVE (\E c \in 0..N : c >= b /\ c + 1 \in later) <=> b + 1 \in places
      <4>1. ASSUME NEW c \in 0..N, c >= b, c + 1 \in later PROVE b + 1 \in places
        BY <3>1, <4>1
      <4>2. ASSUME b + 1 \in places PROVE \E c \in 0..N : c >= b /\ c + 1 \in later
        <5>1. PICK d \in later : b + 1 <= d
          BY <3>1, <4>2
        <5>2. d - 1 \in 0..N /\ d - 1 >= b /\ (d - 1) + 1 = d
          BY <1>1, <5>1
        <5> QED BY <5>1, <5>2
      <4> QED BY <4>1, <4>2
    <3>4. places \subseteq 1..(N + 1)
      BY <3>1
    <3>5. \A b \in 0..N : LiesFrom(s, path, k, b) <=> b + 1 \in places
      <4> HIDE DEF N
      <4> QED BY <1>2, <3>2, <3>3
    <3> QED BY <3>4, <3>5 DEF AsMatched, places, r
  <2>6. CASE s[k + 1] # "**"
    <3>1. places = {j \in 1..N : SegmentMatches(s[k + 1], path[j]) /\ j + 1 \in later}
      BY <2>4, <2>6 DEF PlacesBefore
    <3>2. ASSUME NEW b \in 0..N, NEW c \in 0..N
          PROVE  LaysNext(s, path, k, b, c) <=> c = b + 1 /\ SegmentMatches(s[k + 1], path[c])
      BY <1>4, <2>6 DEF LaysNext
    <3>3. ASSUME NEW b \in 0..N
          PROVE (\E c \in 0..N : c = b + 1 /\ SegmentMatches(s[k + 1], path[c]) /\ c + 1 \in later)
                  <=> b + 1 \in places
      <4>1. b + 1 \in 0..N <=> b + 1 \in 1..N
        OBVIOUS
      <4> HIDE DEF N
      <4> QED BY <3>1, <4>1
    <3>4. places \subseteq 1..(N + 1)
      BY <3>1
    <3>5. \A b \in 0..N : LiesFrom(s, path, k, b) <=> b + 1 \in places
      <4> HIDE DEF N
      <4> QED BY <1>2, <3>2, <3>3
    <3> QED BY <3>4, <3>5 DEF AsMatched, places, r
  <2> QED BY <2>5, <2>6
<1> QED BY <1>3, <1>4

LEMMA CoversAsMatched ==
  ASSUME NEW s, NEW t, NEW path, Len(s) \in Nat, Len(t) \in Nat, Len(path) \in Nat,
         InOrder(t, s, Counts(s))
  PROVE  Covers(s, path) <=> MatchSegments(t, path)
<1> DEFINE L == Len(s)
           Done == {m \in Nat : m <= L => AsMatched(s, t, path, L - m)}
<1>1. 0 \in Done
  <2>1. L - 0 = L
    OBVIOUS
  <2>2. AsMatched(s, t, path, L)
    BY AsMatchedAtTheEnd
  <2> HIDE DEF L
  <2> QED BY <2>1, <2>2
<1>2. ASSUME NEW m \in Nat, m \in Done PROVE m + 1 \in Done
  <2> SUFFICES ASSUME m + 1 <= L PROVE AsMatched(s, t, path, L - (m + 1))
    OBVIOUS
  <2>1. L - (m + 1) \in 0..(Len(s) - 1) /\ (L - (m + 1)) + 1 = L - m /\ m <= L
    OBVIOUS
  <2>2. AsMatched(s, t, path, L - m)
    BY <1>2, <2>1
  <2>3. AsMatched(s, t, path, (L - (m + 1)) + 1)
    BY ONLY <2>1, <2>2
  <2> HIDE DEF L
  <2> QED BY <2>1, <2>3, AsMatchedBefore
<1>3. L \in Nat /\ L \in Done
  <2> HIDE DEF Done
  <2> QED BY <1>1, <1>2, FromZeroOn
<1>4. AsMatched(s, t, path, 0)
  <2>1. L - L = 0
    BY <1>3
  <2>2. AsMatched(s, t, path, L - L)
    BY <1>3
  <2> QED BY ONLY <2>1, <2>2
<1>5. Rank(s, 0) = 0
  <2>1. {j \in Counts(s) : j <= 0} = {}
    BY DEF Counts
  <2> QED BY <2>1, FS_EmptySet DEF Rank
<1>6. LiesFrom(s, path, 0, 0) <=> 1 \in MatchingFrom(t, path)[1]
  <2>1. 0 \in 0..Len(path) /\ 0 + 1 = 1
    OBVIOUS
  <2> QED BY <1>4, <1>5, <2>1 DEF AsMatched
<1>7. LiesFrom(s, path, 0, 0) <=> Covers(s, path)
  <2>1. 0 + 1 = 1
    OBVIOUS
  <2> QED BY <2>1 DEF LiesFrom, Covers
<1> QED BY <1>6, <1>7 DEF MatchSegments

\* What is tried of a glob is what it means.
LEMMA TriedAsMeant ==
  ASSUME NEW dir \in Seq(Segments), NEW glob \in Seq(Segments), NEW path \in Seq(Segments)
  PROVE  LET s == dir \o glob
         IN (glob[1] # Void /\ ~(\E b \in 1..Len(s) : Depth(s, 1, b) < 0) /\ Covers(s, path))
              <=> (Resolve(dir, glob) # Bad /\ MatchSegments(Resolve(dir, glob), path))
<1> DEFINE s == dir \o glob
           t == Stacks(s)[Len(s)]
<1>1. s \in Seq(Segments) /\ Len(s) \in Nat /\ Len(path) \in Nat
  OBVIOUS
<1>2. Resolve(dir, glob) = IF glob[1] = Void THEN Bad ELSE t
  BY DEF Resolve
<1>3. Escapes(s, Len(s)) <=> \E b \in 1..Len(s) : Depth(s, 1, b) < 0
  BY DEF Escapes
<1>4. StackHolds(s, Len(s))
  <2> HIDE DEF s
  <2> QED BY <1>1, StackIsRight
<1>5. Counts(s) = CountsTo(s, Len(s))
  BY DEF Counts, CountsTo, Steps
<1>6. CASE Escapes(s, Len(s))
  <2>1. t = Bad
    BY <1>4, <1>6 DEF StackHolds
  <2> HIDE DEF s, t
  <2>2. Resolve(dir, glob) = Bad
    BY <1>2, <2>1
  <2> QED BY <1>3, <1>6, <2>2 DEF s
<1>7. CASE ~Escapes(s, Len(s))
  <2>1. t \in Seq(Segments \ Steps) /\ InOrder(t, s, Counts(s))
    BY <1>4, <1>5, <1>7 DEF StackHolds
  <2> HIDE DEF s, t
  <2>2. t # Bad /\ Len(t) \in Nat
    BY <2>1, NeverBad
  <2>3. Covers(s, path) <=> MatchSegments(t, path)
    BY <1>1, <2>1, <2>2, CoversAsMatched
  <2>4. (glob[1] # Void /\ ~(\E b \in 1..Len(s) : Depth(s, 1, b) < 0) /\ Covers(s, path))
           <=> (Resolve(dir, glob) # Bad /\ MatchSegments(Resolve(dir, glob), path))
    BY <1>2, <1>3, <1>7, <2>2, <2>3
  <2> QED BY <2>4 DEF s
<1> QED BY <1>6, <1>7

Tried(u, i, path) ==
  /\ Resolve(Front(u), GlobsOf[u][i]) # Bad
  /\ MatchSegments(Resolve(Front(u), GlobsOf[u][i]), path)

LEMMA WatchesAsTried ==
  ASSUME NEW u \in ToSet(UnitFiles), NEW path \in Seq(Segments)
  PROVE  Watches(u, path) <=> \E i \in DOMAIN GlobsOf[u] : Tried(u, i, path)
<1>1. Front(u) \in Seq(Segments)
  <2>1. PICK k \in DOMAIN UnitFiles : u = UnitFiles[k]
    BY DEF ToSet
  <2>2. u \in Seq(Segments) \ {<<>>}
    BY <2>1, WatchConstantsOK
  <2> QED BY <2>2 DEF Front
<1>2. ASSUME NEW i \in DOMAIN GlobsOf[u] PROVE GlobsOf[u][i] \in Seq(Segments)
  BY WatchConstantsOK
<1> DEFINE Means(i) == LET s == Front(u) \o GlobsOf[u][i]
                       IN /\ GlobsOf[u][i][1] # Void
                          /\ ~(\E b \in 1..Len(s) : Depth(s, 1, b) < 0) /\ Covers(s, path)
<1>3. ASSUME NEW i \in DOMAIN GlobsOf[u] PROVE Means(i) <=> Tried(u, i, path)
  BY <1>1, <1>2, TriedAsMeant DEF Tried
<1>4. Watches(u, path) <=> \E i \in DOMAIN GlobsOf[u] : Means(i)
  BY DEF Watches
<1> HIDE DEF Means
<1> QED BY <1>3, <1>4

-----------------------------------------------------------------------------
(***************************************************************************)
(* mark_watched.  What is left of the walk is an end of the list of unit   *)
(* files, what is left of a unit's globs an end of its list; the files     *)
(* before it that watch something are the ones that have been added.       *)
(***************************************************************************)
WatchSpec == WatchInit /\ [][WatchNext]_watchVars

\* What is left of a list.
EndOf(rest, list) ==
  /\ Len(rest) <= Len(list)
  /\ \A j \in 1..Len(rest) : rest[j] = list[Len(list) - Len(rest) + j]

WalkedPast == {UnitFiles[k] : k \in 1..(Len(UnitFiles) - Len(queue))}
Watchers == {u \in ToSet(UnitFiles) \ Unreadable : \E path \in other : Watches(u, path)}

UnitAtHand ==
  /\ unit = <<>> => globs = <<>>
  /\ unit # <<>> =>
       /\ Len(queue) < Len(UnitFiles) /\ unit = UnitFiles[Len(UnitFiles) - Len(queue)]
       /\ unit \notin ToSet(changed) \cup Unreadable
       /\ globs \in Seq(Seq(Segments) \ {<<>>}) /\ EndOf(globs, GlobsOf[unit])
       /\ \A i \in 1..(Len(GlobsOf[unit]) - Len(globs)) :
            ~\E path \in other : Tried(unit, i, path)

WatchInv ==
  /\ listed \in ChangedAlready /\ other \in Others
  /\ queue \in Seq(Seq(Segments) \ {<<>>}) /\ EndOf(queue, UnitFiles)
  /\ UnitAtHand
  /\ changed \in Seq(Seq(Segments)) /\ IsInjective(changed)
  /\ ToSet(changed) = ToSet(listed) \cup (Watchers \cap (WalkedPast \ {unit}))

\* One element of a list is taken off its front.
LEMMA EndGoesOn ==
  ASSUME NEW T, NEW list \in Seq(T), NEW rest \in Seq(T), EndOf(rest, list), rest # <<>>
  PROVE  /\ Tail(rest) \in Seq(T) /\ Len(Tail(rest)) = Len(rest) - 1 /\ EndOf(Tail(rest), list)
         /\ Len(list) - Len(Tail(rest)) = (Len(list) - Len(rest)) + 1
         /\ (Len(list) - Len(rest)) + 1 \in 1..Len(list)
         /\ Head(rest) = list[(Len(list) - Len(rest)) + 1]
<1>1. Tail(rest) \in Seq(T) /\ Len(Tail(rest)) = Len(rest) - 1 /\ Len(rest) \in Nat \ {0}
  OBVIOUS
<1>2. \A j \in 1..Len(Tail(rest)) : Tail(rest)[j] = rest[j + 1]
  OBVIOUS
<1>3. Head(rest) = rest[1]
  OBVIOUS
<1>4. Len(list) \in Nat /\ Len(rest) <= Len(list)
  BY DEF EndOf
<1>5. ASSUME NEW j \in 1..Len(Tail(rest))
      PROVE  Tail(rest)[j] = list[Len(list) - Len(Tail(rest)) + j]
  <2>1. j + 1 \in 1..Len(rest)
    BY <1>1
  <2>2. rest[j + 1] = list[Len(list) - Len(rest) + (j + 1)]
    BY <2>1 DEF EndOf
  <2>3. Len(list) - Len(rest) + (j + 1) = Len(list) - Len(Tail(rest)) + j
    BY <1>1, <1>4
  <2> QED BY <1>2, <2>2, <2>3
<1>6. Head(rest) = list[(Len(list) - Len(rest)) + 1]
  <2>1. 1 \in 1..Len(rest)
    BY <1>1
  <2> QED BY <1>3, <2>1 DEF EndOf
<1>7. EndOf(Tail(rest), list)
  BY <1>1, <1>4, <1>5 DEF EndOf
<1> QED BY <1>1, <1>4, <1>6, <1>7

LEMMA WholeIsEnd ==
  ASSUME NEW T, NEW list \in Seq(T)
  PROVE  EndOf(list, list) /\ EndOf(<<>>, list)
BY DEF EndOf

LEMMA WatchBegins == WatchInit => WatchInv
<1> SUFFICES ASSUME WatchInit PROVE WatchInv
  OBVIOUS
<1>1. /\ listed \in ChangedAlready /\ changed = listed /\ other \in Others
      /\ queue = (IF other = {} THEN <<>> ELSE UnitFiles) /\ unit = <<>> /\ globs = <<>>
  BY DEF WatchInit
<1>2. changed \in Seq(Seq(Segments)) /\ IsInjective(changed)
  BY <1>1, WatchConstantsOK
<1>3. queue \in Seq(Seq(Segments) \ {<<>>}) /\ EndOf(queue, UnitFiles)
  <2>1. UnitFiles \in Seq(Seq(Segments) \ {<<>>}) /\ <<>> \in Seq(Seq(Segments) \ {<<>>})
    BY WatchConstantsOK
  <2> QED BY <1>1, <2>1, WholeIsEnd
<1>4. UnitAtHand
  BY <1>1 DEF UnitAtHand
<1>5. Watchers \cap (WalkedPast \ {unit}) = {}
  <2>1. CASE other = {}
    BY <2>1 DEF Watchers
  <2>2. CASE other # {}
    <3>1. Len(UnitFiles) - Len(queue) = 0
      BY <1>1, <2>2, WatchConstantsOK
    <3> QED BY <3>1 DEF WalkedPast
  <2> QED BY <2>1, <2>2
<1> QED BY <1>1, <1>2, <1>3, <1>4, <1>5 DEF WatchInv

\* A file that is walked past joins those before it.
LEMMA WalkedFurther ==
  ASSUME WatchInv, queue # <<>>, queue' = Tail(queue)
  PROVE  /\ queue' \in Seq(Seq(Segments) \ {<<>>}) /\ EndOf(queue', UnitFiles)
         /\ Len(UnitFiles) - Len(queue') = (Len(UnitFiles) - Len(queue)) + 1
         /\ Len(queue') < Len(UnitFiles)
         /\ Head(queue) = UnitFiles[Len(UnitFiles) - Len(queue')]
         /\ Head(queue) \in ToSet(UnitFiles) \ {<<>>}
         /\ Head(queue) \notin WalkedPast /\ WalkedPast' = WalkedPast \cup {Head(queue)}
<1> DEFINE T == Seq(Segments) \ {<<>>}
           L == Len(UnitFiles)
           n == L - Len(queue)
<1>1. UnitFiles \in Seq(T) /\ queue \in Seq(T) /\ EndOf(queue, UnitFiles)
  BY WatchConstantsOK DEF WatchInv
<1>2. L \in Nat /\ Len(queue) \in Nat /\ Len(queue) <= L /\ n \in Nat
  BY <1>1 DEF EndOf
<1>3. /\ queue' \in Seq(T) /\ Len(queue') = Len(queue) - 1 /\ EndOf(queue', UnitFiles)
      /\ L - Len(queue') = n + 1 /\ n + 1 \in 1..L /\ Head(queue) = UnitFiles[n + 1]
  <2> HIDE DEF T
  <2> QED BY <1>1, EndGoesOn
<1>4. UnitFiles[n + 1] \in ToSet(UnitFiles) \ {<<>>}
  BY <1>1, <1>3 DEF ToSet
<1>5. WalkedPast = {UnitFiles[k] : k \in 1..n} /\ WalkedPast' = {UnitFiles[k] : k \in 1..(n + 1)}
  <2> HIDE DEF n
  <2> QED BY <1>3 DEF WalkedPast, n
<1>6. \A k : k \in 1..(n + 1) <=> k \in 1..n \/ k = n + 1
  BY <1>2
<1>7. ASSUME NEW k \in 1..n PROVE UnitFiles[k] # UnitFiles[n + 1]
  <2>1. k \in DOMAIN UnitFiles /\ n + 1 \in DOMAIN UnitFiles /\ k # n + 1
    BY <1>1, <1>2, <1>3
  <2> HIDE DEF n
  <2> QED BY <2>1, WatchConstantsOK DEF IsInjective
<1> HIDE DEF n, L, T
<1>8. Len(queue') < L
  BY <1>2, <1>3
<1>9. WalkedPast' = WalkedPast \cup {UnitFiles[n + 1]} /\ UnitFiles[n + 1] \notin WalkedPast
  BY <1>5, <1>6, <1>7
<1> QED BY <1>3, <1>4, <1>8, <1>9 DEF n, L, T

\* The file being looked at has been taken from the list.
LEMMA HandFacts ==
  ASSUME WatchInv, unit # <<>>
  PROVE  /\ unit \in ToSet(UnitFiles) /\ unit \in WalkedPast /\ unit \in Seq(Segments)
         /\ GlobsOf[unit] \in Seq(Seq(Segments) \ {<<>>})
<1> DEFINE n == Len(UnitFiles) - Len(queue)
<1>1. n \in 1..Len(UnitFiles) /\ unit = UnitFiles[n]
  <2>1. Len(UnitFiles) \in Nat /\ Len(queue) \in Nat /\ Len(queue) < Len(UnitFiles)
    BY WatchConstantsOK DEF WatchInv, UnitAtHand
  <2> QED BY <2>1 DEF WatchInv, UnitAtHand
<1>2. n \in DOMAIN UnitFiles /\ n \in 1..n
  BY <1>1, WatchConstantsOK
<1> HIDE DEF n
<1>3. unit \in ToSet(UnitFiles)
  BY <1>1, <1>2 DEF ToSet
<1>4. unit \in WalkedPast
  BY <1>1, <1>2 DEF WalkedPast, n
<1>5. unit \in Seq(Segments)
  BY <1>1, WatchConstantsOK
<1> QED BY <1>3, <1>4, <1>5, WatchConstantsOK

LEMMA PassUnitKeeps == WatchInv /\ PassUnit => WatchInv'
<1> SUFFICES ASSUME WatchInv, PassUnit PROVE WatchInv'
  OBVIOUS
<1> DEFINE d == Head(queue)
<1>1. /\ unit = <<>> /\ queue # <<>> /\ d \in ToSet(changed) \cup Unreadable
      /\ queue' = Tail(queue)
      /\ changed' = changed /\ other' = other /\ unit' = unit /\ globs' = globs /\ listed' = listed
  BY DEF PassUnit
<1>2. /\ queue' \in Seq(Seq(Segments) \ {<<>>}) /\ EndOf(queue', UnitFiles)
      /\ WalkedPast' = WalkedPast \cup {d} /\ d # <<>>
  BY <1>1, WalkedFurther
<1>3. UnitAtHand'
  BY <1>1 DEF UnitAtHand, WatchInv
<1>4. Watchers' = Watchers
  BY <1>1 DEF Watchers
<1> HIDE DEF d
<1>5. ToSet(changed)' = ToSet(changed) /\ ToSet(listed)' = ToSet(listed)
  BY <1>1
<1>6. ToSet(changed) = ToSet(listed) \cup (Watchers \cap (WalkedPast \ {unit}))
  BY DEF WatchInv
<1>7. ToSet(changed)' = ToSet(listed)' \cup (Watchers' \cap (WalkedPast' \ {unit'}))
  <2>1. Watchers \cap Unreadable = {}
    BY DEF Watchers
  <2> QED BY <1>1, <1>2, <1>4, <1>5, <1>6, <2>1
<1> QED BY <1>1, <1>2, <1>3, <1>7 DEF WatchInv

LEMMA OpenUnitKeeps == WatchInv /\ OpenUnit => WatchInv'
<1> SUFFICES ASSUME WatchInv, OpenUnit PROVE WatchInv'
  OBVIOUS
<1> DEFINE d == Head(queue)
<1>1. /\ unit = <<>> /\ queue # <<>> /\ d \notin ToSet(changed) \cup Unreadable
      /\ queue' = Tail(queue) /\ unit' = d /\ globs' = GlobsOf[d]
      /\ changed' = changed /\ other' = other /\ listed' = listed
  BY DEF OpenUnit
<1>2. /\ queue' \in Seq(Seq(Segments) \ {<<>>}) /\ EndOf(queue', UnitFiles)
      /\ Len(queue') < Len(UnitFiles) /\ d = UnitFiles[Len(UnitFiles) - Len(queue')]
      /\ d \in ToSet(UnitFiles) \ {<<>>}
      /\ d \notin WalkedPast /\ WalkedPast' = WalkedPast \cup {d}
  BY <1>1, WalkedFurther
<1> HIDE DEF d
<1>3. GlobsOf[d] \in Seq(Seq(Segments) \ {<<>>})
  BY <1>2, WatchConstantsOK
<1>4. UnitAtHand'
  <2>1. EndOf(globs', GlobsOf[d]) /\ 1..(Len(GlobsOf[d]) - Len(globs')) = {}
    BY <1>1, <1>3, WholeIsEnd
  <2> QED BY <1>1, <1>2, <1>3, <2>1 DEF UnitAtHand
<1>5. Watchers' = Watchers
  BY <1>1 DEF Watchers
<1>6. ToSet(changed)' = ToSet(changed) /\ ToSet(listed)' = ToSet(listed)
  BY <1>1
<1>7. ToSet(changed) = ToSet(listed) \cup (Watchers \cap (WalkedPast \ {unit}))
  BY DEF WatchInv
<1>8. <<>> \notin Watchers
  <2>1. <<>> \notin ToSet(UnitFiles)
    BY WatchConstantsOK DEF ToSet
  <2> QED BY <2>1 DEF Watchers
<1>9. ToSet(changed)' = ToSet(listed)' \cup (Watchers' \cap (WalkedPast' \ {unit'}))
  BY <1>1, <1>2, <1>5, <1>6, <1>7, <1>8
<1> QED BY <1>1, <1>2, <1>4, <1>9 DEF WatchInv

\* A glob that reaches nothing is done with.
LEMMA GlobGone ==
  ASSUME WatchInv, globs # <<>>, globs' = Tail(globs),
         UNCHANGED <<changed, other, queue, unit, listed>>,
         ~\E path \in other : Tried(unit, (Len(GlobsOf[unit]) - Len(globs)) + 1, path)
  PROVE  WatchInv'
<1> DEFINE T == Seq(Segments) \ {<<>>}
           list == GlobsOf[unit]
           n == Len(list) - Len(globs)
<1>1. unit # <<>>
  BY DEF WatchInv, UnitAtHand
<1>2. list \in Seq(T) /\ globs \in Seq(T) /\ EndOf(globs, list)
  BY <1>1, HandFacts DEF WatchInv, UnitAtHand
<1>3. n \in Nat
  BY <1>2 DEF EndOf
<1>4. globs' \in Seq(T) /\ EndOf(globs', list) /\ Len(list) - Len(globs') = n + 1
  <2> HIDE DEF T, list
  <2> QED BY <1>2, EndGoesOn
<1>5. \A i \in 1..(n + 1) : ~\E path \in other : Tried(unit, i, path)
  <2>1. \A i : i \in 1..(n + 1) <=> i \in 1..n \/ i = n + 1
    BY <1>3
  <2>2. \A i \in 1..n : ~\E path \in other : Tried(unit, i, path)
    BY <1>1 DEF WatchInv, UnitAtHand
  <2> HIDE DEF n
  <2> QED BY <2>1, <2>2 DEF n
<1>6. UnitAtHand'
  <2> HIDE DEF n
  <2>1. /\ unit' = unit /\ queue' = queue /\ changed' = changed /\ other' = other
    OBVIOUS
  <2>2. /\ Len(queue) < Len(UnitFiles) /\ unit = UnitFiles[Len(UnitFiles) - Len(queue)]
        /\ unit \notin ToSet(changed) \cup Unreadable
    BY <1>1 DEF WatchInv, UnitAtHand
  <2> QED BY <1>1, <1>4, <1>5, <2>1, <2>2 DEF UnitAtHand
<1>7. Watchers' = Watchers /\ WalkedPast' = WalkedPast
  BY DEF Watchers, WalkedPast
<1> QED BY <1>6, <1>7 DEF WatchInv

LEMMA GlobStepsKeep == WatchInv /\ (IgnoreGlob \/ TryGlob) => WatchInv'
<1> SUFFICES ASSUME WatchInv, IgnoreGlob \/ TryGlob PROVE WatchInv'
  OBVIOUS
<1> DEFINE n == (Len(GlobsOf[unit]) - Len(globs)) + 1
<1>1. /\ globs # <<>> /\ globs' = Tail(globs)
      /\ UNCHANGED <<changed, other, queue, unit, listed>>
  BY DEF IgnoreGlob, TryGlob
<1>2. Head(globs) = GlobsOf[unit][n]
  <2>1. unit # <<>>
    BY <1>1 DEF WatchInv, UnitAtHand
  <2>2. globs \in Seq(Seq(Segments) \ {<<>>}) /\ EndOf(globs, GlobsOf[unit])
    BY <2>1 DEF WatchInv, UnitAtHand
  <2>3. GlobsOf[unit] \in Seq(Seq(Segments) \ {<<>>})
    BY <2>1, HandFacts
  <2> QED BY <1>1, <2>2, <2>3, EndGoesOn
<1>3. ~\E path \in other : Tried(unit, n, path)
  <2> HIDE DEF n
  <2> QED BY <1>2 DEF IgnoreGlob, TryGlob, Pattern, Tried
<1> QED BY <1>1, <1>3, GlobGone

LEMMA HitKeeps == WatchInv /\ Hit => WatchInv'
<1> SUFFICES ASSUME WatchInv, Hit PROVE WatchInv'
  OBVIOUS
<1> DEFINE n == (Len(GlobsOf[unit]) - Len(globs)) + 1
<1>1. /\ globs # <<>> /\ Pattern # Bad /\ \E path \in other : MatchSegments(Pattern, path)
      /\ changed' = Append(changed, unit) /\ unit' = <<>> /\ globs' = <<>>
      /\ other' = other /\ queue' = queue /\ listed' = listed
  BY DEF Hit
<1>2. unit # <<>> /\ unit \notin ToSet(changed) \cup Unreadable
  BY <1>1 DEF WatchInv, UnitAtHand
<1>3. unit \in ToSet(UnitFiles) /\ unit \in WalkedPast /\ unit \in Seq(Segments)
  BY <1>2, HandFacts
<1>4. Head(globs) = GlobsOf[unit][n] /\ n \in DOMAIN GlobsOf[unit]
  <2>1. globs \in Seq(Seq(Segments) \ {<<>>}) /\ EndOf(globs, GlobsOf[unit])
    BY <1>2 DEF WatchInv, UnitAtHand
  <2>2. GlobsOf[unit] \in Seq(Seq(Segments) \ {<<>>})
    BY <1>2, HandFacts
  <2>3. Head(globs) = GlobsOf[unit][n] /\ n \in 1..Len(GlobsOf[unit])
    BY <1>1, <2>1, <2>2, EndGoesOn
  <2> HIDE DEF n
  <2> QED BY <2>2, <2>3
<1> HIDE DEF n
<1>5. unit \in Watchers
  <2>1. PICK path \in other : Tried(unit, n, path)
    BY <1>1, <1>4 DEF Pattern, Tried
  <2>2. path \in Seq(Segments)
    BY WatchConstantsOK DEF WatchInv
  <2> QED BY <1>2, <1>3, <1>4, <2>1, <2>2, WatchesAsTried DEF Watchers
<1>6. changed \in Seq(Seq(Segments)) /\ IsInjective(changed)
  BY DEF WatchInv
<1>7. changed' \in Seq(Seq(Segments))
  <2> DEFINE T == Seq(Segments)
  <2>1. unit \in T /\ changed \in Seq(T)
    BY <1>3, <1>6
  <2> HIDE DEF T
  <2>2. Append(changed, unit) \in Seq(T)
    BY <2>1
  <2> QED BY <1>1, <2>2 DEF T
<1>8. /\ DOMAIN changed' = (DOMAIN changed) \cup {Len(changed) + 1}
      /\ Len(changed) + 1 \notin DOMAIN changed
      /\ \A k \in DOMAIN changed : changed'[k] = changed[k]
      /\ changed'[Len(changed) + 1] = unit
  BY <1>1, <1>6
<1>9. IsInjective(changed') /\ ToSet(changed') = ToSet(changed) \cup {unit}
  <2>1. \A k \in DOMAIN changed : changed[k] # unit
    BY <1>2 DEF ToSet
  <2> QED BY <1>6, <1>8, <2>1 DEF IsInjective, ToSet
<1>10. UnitAtHand'
  BY <1>1 DEF UnitAtHand
<1>11. Watchers' = Watchers /\ WalkedPast' = WalkedPast
  BY <1>1 DEF Watchers, WalkedPast
<1>12. <<>> \notin Watchers
  <2>1. <<>> \notin ToSet(UnitFiles)
    BY WatchConstantsOK DEF ToSet
  <2> QED BY <2>1 DEF Watchers
<1>13. ToSet(changed') = ToSet(listed') \cup (Watchers' \cap (WalkedPast' \ {unit'}))
  <2>1. ToSet(changed) = ToSet(listed) \cup (Watchers \cap (WalkedPast \ {unit}))
    BY DEF WatchInv
  <2> QED BY <1>1, <1>3, <1>5, <1>9, <1>11, <1>12, <2>1
<1> QED BY <1>1, <1>7, <1>9, <1>10, <1>13 DEF WatchInv

LEMMA CloseUnitKeeps == WatchInv /\ CloseUnit => WatchInv'
<1> SUFFICES ASSUME WatchInv, CloseUnit PROVE WatchInv'
  OBVIOUS
<1>1. /\ unit # <<>> /\ globs = <<>> /\ unit' = <<>> /\ globs' = globs
      /\ changed' = changed /\ other' = other /\ queue' = queue /\ listed' = listed
  BY DEF CloseUnit
<1>2. unit \in ToSet(UnitFiles) /\ GlobsOf[unit] \in Seq(Seq(Segments) \ {<<>>})
  BY <1>1, HandFacts
<1>3. unit \notin Watchers
  <2>1. DOMAIN GlobsOf[unit] = 1..(Len(GlobsOf[unit]) - Len(globs))
    BY <1>1, <1>2
  <2>2. \A i \in DOMAIN GlobsOf[unit] : ~\E path \in other : Tried(unit, i, path)
    BY <1>1, <2>1 DEF WatchInv, UnitAtHand
  <2>3. \A path \in other : path \in Seq(Segments)
    BY WatchConstantsOK DEF WatchInv
  <2> QED BY <1>2, <2>2, <2>3, WatchesAsTried DEF Watchers
<1>4. UnitAtHand'
  BY <1>1 DEF UnitAtHand
<1>5. Watchers' = Watchers /\ WalkedPast' = WalkedPast
  BY <1>1 DEF Watchers, WalkedPast
<1>6. <<>> \notin Watchers
  <2>1. <<>> \notin ToSet(UnitFiles)
    BY WatchConstantsOK DEF ToSet
  <2> QED BY <2>1 DEF Watchers
<1>7. ToSet(changed') = ToSet(listed') \cup (Watchers' \cap (WalkedPast' \ {unit'}))
  <2>1. ToSet(changed) = ToSet(listed) \cup (Watchers \cap (WalkedPast \ {unit}))
    BY DEF WatchInv
  <2> QED BY <1>1, <1>3, <1>5, <1>6, <2>1
<1> QED BY <1>1, <1>4, <1>5, <1>7 DEF WatchInv

LEMMA WatchGoesOn == WatchInv /\ [WatchNext]_watchVars => WatchInv'
<1> SUFFICES ASSUME WatchInv, [WatchNext]_watchVars PROVE WatchInv'
  OBVIOUS
<1>1. CASE PassUnit
  BY <1>1, PassUnitKeeps
<1>2. CASE OpenUnit
  BY <1>2, OpenUnitKeeps
<1>3. CASE IgnoreGlob \/ TryGlob
  BY <1>3, GlobStepsKeep
<1>4. CASE Hit
  BY <1>4, HitKeeps
<1>5. CASE CloseUnit
  BY <1>5, CloseUnitKeeps
<1>6. CASE UNCHANGED watchVars
  <2>1. /\ changed' = changed /\ other' = other /\ queue' = queue /\ unit' = unit
        /\ globs' = globs /\ listed' = listed
    BY <1>6 DEF watchVars
  <2>2. UnitAtHand' /\ Watchers' = Watchers /\ WalkedPast' = WalkedPast
    BY <2>1 DEF WatchInv, UnitAtHand, Watchers, WalkedPast
  <2> QED BY <2>1, <2>2 DEF WatchInv
<1> QED BY <1>1, <1>2, <1>3, <1>4, <1>5, <1>6 DEF WatchNext

LEMMA InvGivesMarked == WatchInv => WatchersAreMarked
<1> SUFFICES ASSUME WatchInv, unit = <<>>, queue = <<>>
             PROVE  IsInjective(changed) /\ ToSet(changed) = ToSet(listed) \cup Watchers
  BY DEF WatchersAreMarked, Marked, Watchers
<1>1. WalkedPast = ToSet(UnitFiles) /\ <<>> \notin ToSet(UnitFiles)
  <2>1. Len(UnitFiles) - Len(queue) = Len(UnitFiles) /\ DOMAIN UnitFiles = 1..Len(UnitFiles)
    BY WatchConstantsOK
  <2>2. \A k \in DOMAIN UnitFiles : UnitFiles[k] # <<>>
    BY WatchConstantsOK
  <2> QED BY <2>1, <2>2 DEF WalkedPast, ToSet
<1>2. Watchers \subseteq ToSet(UnitFiles)
  BY DEF Watchers
<1> QED BY <1>1, <1>2 DEF WatchInv

(***************************************************************************)
(* When mark_watched is done, the changed units are those the diff listed  *)
(* and every readable unit file with a glob that reaches a touched file    *)
(* inside the repository, each once: whatever files, globs and paths there *)
(* are, the stack of resolve and match_segments find what the globs mean.  *)
(***************************************************************************)
THEOREM WatchersAreMarkedAlways == WatchSpec => []WatchersAreMarked
BY WatchBegins, WatchGoesOn, InvGivesMarked, PTL DEF WatchSpec
=============================================================================
