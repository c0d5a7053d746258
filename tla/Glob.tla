-------------------------------- MODULE Glob --------------------------------
(***************************************************************************)
(* match_segment (sync/watch.rs): does one segment of a path match one     *)
(* segment of a Watch= glob?  The loop keeps how many characters of each   *)
(* it has consumed and, of the stars it has met, only the last one, to     *)
(* which it returns on a mismatch.  That forgetting the earlier stars      *)
(* never costs a match is what GlobProofs proves for every glob and every  *)
(* name without a literal star in it; Watch composes segments into paths.  *)
(***************************************************************************)
EXTENDS Integers, Sequences

CONSTANTS Chars,      \* characters
          Patterns,   \* the globs tried
          Names,      \* the segments of paths tried
          Star, One   \* the characters * and ?

VARIABLES pattern, text,   \* the two segments
          pi, ti,          \* characters consumed of each
          sp, st,          \* the last star: its place, and where the text after it may begin
          answer           \* what the call returned

globVars == <<pattern, text, pi, ti, sp, st, answer>>

Starred == sp >= 0

\* A name may hold any character but the star (see README, "Also met").
ASSUME GlobAssumption ==
  /\ Star # One
  /\ \A p \in Patterns : p \in Seq(Chars)
  /\ \A n \in Names : n \in Seq(Chars \ {Star})

-----------------------------------------------------------------------------
GlobInit ==
  /\ pattern \in Patterns /\ text \in Names
  /\ pi = 0 /\ ti = 0
  /\ sp = -1 /\ st = -1
  /\ answer = "pending"

Running == answer = "pending" /\ ti < Len(text)

SameHere == pi < Len(pattern) /\ pattern[pi + 1] \in {One, text[ti + 1]}
StarHere == pi < Len(pattern) /\ pattern[pi + 1] = Star

Advance ==
  /\ Running /\ SameHere
  /\ pi' = pi + 1 /\ ti' = ti + 1
  /\ UNCHANGED <<pattern, text, sp, st, answer>>

\* The star first takes nothing.
MeetStar ==
  /\ Running /\ ~SameHere /\ StarHere
  /\ sp' = pi /\ st' = ti
  /\ pi' = pi + 1
  /\ UNCHANGED <<pattern, text, ti, answer>>

\* Mutant: the star is returned to, but takes no more than before.
BacktrackStuck ==
  /\ Running /\ ~SameHere /\ ~StarHere
  /\ Starred
  /\ pi' = sp + 1 /\ ti' = st
  /\ UNCHANGED <<pattern, text, sp, st, answer>>

\* The last star takes one more character.
Backtrack ==
  /\ Running /\ ~SameHere /\ ~StarHere
  /\ Starred
  /\ pi' = sp + 1 /\ ti' = st + 1
  /\ st' = st + 1
  /\ UNCHANGED <<pattern, text, sp, answer>>

Mismatch ==
  /\ Running /\ ~SameHere /\ ~StarHere
  /\ ~Starred
  /\ answer' = "mismatch"
  /\ UNCHANGED <<pattern, text, pi, ti, sp, st>>

\* Mutant: stars at the end of the glob must take something, too.
UseUpAll ==
  /\ answer = "pending" /\ ti >= Len(text)
  /\ answer' = IF pi >= Len(pattern) THEN "match" ELSE "mismatch"
  /\ UNCHANGED <<pattern, text, pi, ti, sp, st>>

\* The text is used up: what is left of the glob must be stars.
UseUp ==
  /\ answer = "pending" /\ ti >= Len(text)
  /\ answer' = IF \A k \in (pi + 1)..Len(pattern) : pattern[k] = Star
               THEN "match" ELSE "mismatch"
  /\ UNCHANGED <<pattern, text, pi, ti, sp, st>>

GlobNext == Advance \/ MeetStar \/ Backtrack \/ Mismatch \/ UseUp

GlobSpec == GlobInit /\ [][GlobNext]_globVars

-----------------------------------------------------------------------------
(***************************************************************************)
(* What a match is, without any algorithm: a way of laying the text along  *)
(* the glob, f[k] being how much of the text its first k characters take.  *)
(***************************************************************************)
Takes(p, t, k, a, b) ==
  \/ p[k] = Star /\ a <= b
  \/ p[k] = One /\ b = a + 1
  \/ p[k] \notin {Star, One} /\ b = a + 1 /\ t[b] = p[k]

\* Characters i+1..j of the glob can take characters a+1..b of the text.
Fits(p, t, i, j, a, b) ==
  \E f \in [i..j -> a..b] :
     /\ f[i] = a /\ f[j] = b
     /\ \A k, l \in i..j : k <= l => f[k] <= f[l]
     /\ \A k \in (i + 1)..j : Takes(p, t, k, f[k - 1], f[k])

Matches(p, t) == Fits(p, t, 0, Len(p), 0, Len(t))

(***************************************************************************)
(* The answer is the right one: remembering one star is enough, whichever  *)
(* way the earlier ones had to stretch (match_segment's one Option).       *)
(***************************************************************************)
AnswerIsRight ==
  answer \in {"match", "mismatch"} => (answer = "match" <=> Matches(pattern, text))

(***************************************************************************)
(* The call returns, however often it goes back (the while loop of         *)
(* match_segment sets its two counters back as well as forward).           *)
(***************************************************************************)
MatchReturns == answer = "pending" ~> answer # "pending"
=============================================================================
