------------------------------ MODULE RateTime ------------------------------
(***************************************************************************)
(* Rate-time priority, the vocabulary shared by the dispatch queue and the *)
(* dispatch engine (src/mittelwerk/core).  A rate is a natural number of   *)
(* rate increments; NoRate stands for a missing max_hourly_rate.           *)
(***************************************************************************)
EXTENDS Integers

NoRate == 0

Sides == {"REQUEST", "OFFER"}

Opposite(side) == IF side = "REQUEST" THEN "OFFER" ELSE "REQUEST"

\* For mutation: the request side is not negated.
KeyUnsigned(side, rate) == rate

\* The key of a rate level in the SortedDict of its side: the first key is the
\* best level, the highest request rate or the lowest offer rate.
Key(side, rate) == IF side = "REQUEST" THEN -rate ELSE rate

\* A rate-capped order of this side, with this cap, deals at this rate.
Accepts(side, cap, rate) ==
  IF side = "REQUEST" THEN rate =< cap ELSE rate >= cap

\* The order that joined at time s1 with rate r1 is served before the one that
\* joined at s2 with r2: a better rate first, then the earlier arrival.
Precedes(side, r1, s1, r2, s2) ==
  \/ IF side = "REQUEST" THEN r1 > r2 ELSE r1 < r2
  \/ r1 = r2 /\ s1 < s2

=============================================================================
