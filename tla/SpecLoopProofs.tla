--------------------------- MODULE SpecLoopProofs ---------------------------
(***************************************************************************)
(* Proofs about SpecLoop, for every plan, lanes, dependencies and bounds:  *)
(* its types, that callbacks find their card, that agents exclude each     *)
(* other in a lane, that validation sees the finished tree, that the loop  *)
(* branch holds the done cards, that the slots are never exceeded and that *)
(* cards wait for what they come after.                                    *)
(***************************************************************************)
EXTENDS SpecLoop, FiniteSetTheorems, TLAPS

StTypes == [Cards -> CardStates \cup {"absent"}]
ImTypes == [Cards -> {"none", "over"} \cup Live]
RvTypes == [Cards -> {"none", "active", "popped", "over"}]
RoundTypes == [Cards -> 0 .. MaxRounds]
ValTypes == {"none", "running", "cancelled", "ending"}

Types(ls, s, i, r) ==
    ls \in LoopStates /\ s \in StTypes /\ i \in ImTypes /\ r \in RvTypes

Reviewed(r, x) == r[x] \in {"active", "popped"}
WorksFor(i, r, x) == i[x] \in Live \/ Reviewed(r, x)
InHand(s, i, r, x) == s[x] \in {"running", "review"} \/ WorksFor(i, r, x)

\* What work is done for a card agrees with its state.
Agrees(ls, s, i, r) ==
    \A x \in Cards :
        /\ i[x] \in {"turn", "popped", "check"} => s[x] = "running"
        /\ i[x] = "blocked" => /\ ~Reviewed(r, x)
                               /\ s[x] = "review" \/ (ls = "cancelled" /\ s[x] = "running")
        /\ Reviewed(r, x) => s[x] \in {"review", "failed"}

\* A failed card is reviewed only while the loop needs attention.
FailedAway(ls, s, r) ==
    ls = "running" => \A x \in Cards : s[x] = "failed" => ~Reviewed(r, x)

\* A follow-up exists once its card is concluded, and its review is over.
Replaced(s, r) ==
    \A x \in Cards :
        Has(s, FollowUp(x)) => s[x] \in {"done", "failed"} /\ ~Reviewed(r, x)

LaneExclusive(s, i, r) ==
    \A x, y \in Cards :
        InHand(s, i, r, x) /\ InHand(s, i, r, y) /\ LaneOf(x) = LaneOf(y) => x = y

Finished(s) ==
    \A x \in Cards :
        Has(s, x) => \/ s[x] \in {"done", "dropped"}
                     \/ s[x] = "failed" /\ Has(s, FollowUp(x))

Sound(ls, s, i, r) ==
    /\ Types(ls, s, i, r)
    /\ Agrees(ls, s, i, r)
    /\ FailedAway(ls, s, r)
    /\ Replaced(s, r)
    /\ LaneExclusive(s, i, r)
    /\ ls \in {"validating", "awaiting_commit", "done"} => Finished(s)

USE DEF StTypes, ImTypes, RvTypes, RoundTypes, ValTypes, Types, Live, CardStates, LoopStates

-----------------------------------------------------------------------------
(* The steps _advance_loop is made of.                                      *)

\* Reviews start for cards whose implementer is over.
LEMMA ReviewsSound ==
    ASSUME NEW ls, NEW s, NEW i, NEW r, Sound(ls, s, i, r),
           NEW R \in SUBSET Cards,
           \A x \in R : s[x] = "review" /\ i[x] = "over"
    PROVE  Sound(ls, s, i, Reviewing(r, R))
<1> DEFINE q == Reviewing(r, R)
<1>1. \A x \in Cards : q[x] = IF x \in R THEN "active" ELSE r[x]
  BY DEF Reviewing
<1>2. Types(ls, s, i, q)
  BY DEF Sound, Reviewing
<1> HIDE DEF q
<1>3. \A x \in Cards : Reviewed(q, x) <=> x \in R \/ Reviewed(r, x)
  BY <1>1 DEF Reviewed
<1>4. Agrees(ls, s, i, q) /\ FailedAway(ls, s, q)
  BY <1>3 DEF Sound, Agrees, FailedAway
<1>5. Replaced(s, q)
  BY <1>3 DEF Sound, Replaced
<1>6. LaneExclusive(s, i, q)
  BY <1>3 DEF Sound, LaneExclusive, InHand, WorksFor
<1> QED
  BY <1>2, <1>4, <1>5, <1>6 DEF Sound, q

\* Planned cards start, one in each of some free lanes.
LEMMA StartsSound ==
    ASSUME NEW s, NEW i, NEW r, Sound("running", s, i, r),
           NEW B \in SUBSET Cards,
           \A x \in B : s[x] = "planned" /\ ~Busy(s, LaneOf(x)),
           \A x, y \in B : LaneOf(x) = LaneOf(y) => x = y
    PROVE  Sound("running", Running(s, B), Turning(i, B), r)
<1> DEFINE t == Running(s, B)
           j == Turning(i, B)
<1>1. \A x \in Cards : /\ t[x] = IF x \in B THEN "running" ELSE s[x]
                       /\ j[x] = IF x \in B THEN "turn" ELSE i[x]
  BY DEF Running, Turning
<1>2. Types("running", t, j, r)
  BY DEF Sound, Running, Turning
<1> HIDE DEF t, j
<1>3. Agrees("running", t, j, r) /\ FailedAway("running", t, r)
  BY <1>1 DEF Sound, Agrees, FailedAway, Reviewed
<1>4. Replaced(t, r)
  BY <1>1 DEF Sound, Replaced, Has
\* Nothing is in hand in the lane of a card that starts.
<1>5. ASSUME NEW x \in Cards, NEW y \in B, LaneOf(x) = LaneOf(y)
      PROVE  ~InHand(s, i, r, x)
  <2>1. s[x] \notin {"running", "review"}
    BY <1>5 DEF Busy
  <2>2. ~WorksFor(i, r, x)
    BY <2>1 DEF Sound, Agrees, FailedAway, WorksFor
  <2> QED
    BY <2>1, <2>2 DEF InHand
<1>6. \A x \in Cards : InHand(t, j, r, x) => x \in B \/ InHand(s, i, r, x)
  BY <1>1 DEF InHand, WorksFor
<1>7. LaneExclusive(t, j, r)
  BY <1>5, <1>6 DEF Sound, LaneExclusive
<1> QED
  BY <1>2, <1>3, <1>4, <1>7 DEF Sound, t, j

\* A card whose implementer is over fails, and the loop needs attention.
LEMMA FailSound ==
    ASSUME NEW ls, NEW s, NEW i, NEW r, Sound(ls, s, i, r), ls \in {"running", "needs_attention"},
           NEW x \in Cards, s[x] \in {"planned", "review", "failed"}, i[x] \notin Live
    PROVE  Sound("needs_attention", [s EXCEPT ![x] = "failed"], i, r)
<1> DEFINE t == [s EXCEPT ![x] = "failed"]
<1>1. /\ t[x] = "failed"
      /\ \A y \in Cards \ {x} : t[y] = s[y]
      /\ Types("needs_attention", t, i, r)
  BY DEF Sound
<1> HIDE DEF t
<1>2. Agrees("needs_attention", t, i, r)
  BY <1>1 DEF Sound, Agrees
<1>3. Replaced(t, r)
  BY <1>1 DEF Sound, Replaced, Has
<1>4. LaneExclusive(t, i, r)
  BY <1>1 DEF Sound, LaneExclusive, InHand
<1> QED
  BY <1>1, <1>2, <1>3, <1>4 DEF Sound, FailedAway, t

\* All cards of a running loop are done.
LEMMA AllDoneFinished ==
    ASSUME NEW s, s \in StTypes, AllDone(s)
    PROVE  Finished(s)
<1> SUFFICES ASSUME NEW x \in Cards, Has(s, x), s[x] # "dropped"
             PROVE  Settled(s, x)
  BY DEF Finished, Settled
<1>1. DependencyDone(s, x, Nobody)
  BY DEF AllDone
<1>2. x = <<x[1], x[2]>> /\ x[2] \in 0 .. FollowUps
  BY DEF Cards
<1>3. x[2] \in x[2] .. FollowUps /\ (x[2] + 1) .. x[2] = {}
  BY <1>2, BoundAssumption
<1> QED
  BY <1>1, <1>2, <1>3 DEF DependencyDone

LEMMA RoundsType ==
    ASSUME round \in RoundTypes, NEW i, NEW B
    PROVE  Rounds(i, B) \in RoundTypes
BY BoundAssumption DEF Rounds

LEMMA FirstReadyFact ==
    ASSUME NEW s, NEW F \in FirstReady(s)
    PROVE  /\ F \in SUBSET Cards
           /\ \A x \in F : s[x] = "planned" /\ ~Busy(s, LaneOf(x))
           /\ \A x, y \in F : LaneOf(x) = LaneOf(y) => x = y
           /\ \A x \in F : LanesBefore(F, x) \subseteq F \ {x}
<1>1. /\ F \in SUBSET Cards
      /\ \A x \in F : s[x] = "planned" /\ ~Busy(s, LaneOf(x))
      /\ \A x, y \in F : LaneOf(x) = LaneOf(y) => x = y
  BY DEF FirstReady, Ready
<1>2. \A x \in Cards : LaneOf(x) \in Nat
  BY PlanAssumption DEF LaneOf, Cards
<1>3. \A x \in F : ~(LaneOf(x) < LaneOf(x))
  BY <1>1, <1>2
<1> QED
  BY <1>1, <1>3 DEF LanesBefore

\* A card x is failed beside the cards of B that start.
LEMMA CannotStartSound ==
    ASSUME NEW s, NEW i, NEW r, NEW v, Sound("running", s, i, r),
           v \in ValTypes, round \in RoundTypes,
           NEW B \in SUBSET Cards,
           \A y \in B : s[y] = "planned" /\ ~Busy(s, LaneOf(y)),
           \A y, z \in B : LaneOf(y) = LaneOf(z) => y = z,
           NEW x \in Cards \ B, s[x] \in {"planned", "review"},
           i[x] \notin Live,
           CannotStart(s, i, B, x, v)
    PROVE  /\ Sound(lstate', st', im', r)
           /\ round' \in RoundTypes /\ val' \in ValTypes
           /\ \A y \in Cards : st'[y] = "done" <=> s[y] = "done"
           /\ lstate' = "needs_attention"
<1>1. /\ st' = [Running(s, B) EXCEPT ![x] = "failed"] /\ im' = Turning(i, B)
      /\ lstate' = "needs_attention" /\ round' \in RoundTypes /\ val' \in ValTypes
  BY RoundsType DEF CannotStart, Attention
<1>2. Sound("running", Running(s, B), Turning(i, B), r)
  BY StartsSound
<1>3. Running(s, B)[x] = s[x] /\ Turning(i, B)[x] = i[x]
  BY DEF Running, Turning
<1>4. Sound("needs_attention", st', im', r)
  BY <1>1, <1>2, <1>3, FailSound
<1>5. \A y \in Cards : st'[y] = "done" <=> s[y] = "done"
  BY <1>1 DEF Running
<1> QED
  BY <1>1, <1>4, <1>5

LEMMA AllStartSound ==
    ASSUME NEW s, NEW i, NEW r, NEW v, Sound("running", s, i, r),
           v \in ValTypes, round \in RoundTypes,
           NEW B \in SUBSET Cards,
           \A y \in B : s[y] = "planned" /\ ~Busy(s, LaneOf(y)),
           \A y, z \in B : LaneOf(y) = LaneOf(z) => y = z,
           AllStart(s, i, B, v)
    PROVE  /\ Sound(lstate', st', im', r)
           /\ round' \in RoundTypes /\ val' \in ValTypes
           /\ \A y \in Cards : st'[y] = "done" <=> s[y] = "done"
           /\ lstate' \in {"running", "validating"}
<1>1. /\ st' = Running(s, B) /\ im' = Turning(i, B)
      /\ lstate' \in {"running", "validating"}
      /\ round' \in RoundTypes /\ val' \in ValTypes
      /\ lstate' = "validating" => AllDone(st')
  BY RoundsType DEF AllStart, StartValidation
<1>2. Sound("running", st', im', r)
  BY <1>1, StartsSound
<1>3. lstate' = "validating" => Finished(st')
  BY <1>1, <1>2, AllDoneFinished DEF Sound
<1>4. Sound(lstate', st', im', r)
  BY <1>1, <1>2, <1>3 DEF Sound, FailedAway, Agrees
<1>5. \A y \in Cards : st'[y] = "done" <=> s[y] = "done"
  BY <1>1 DEF Running
<1> QED
  BY <1>1, <1>4, <1>5

\* _advance_loop keeps the cards sound, whatever loop its caller has saved; it
\* moves no loop but a running one, and makes no card done or undone.
LEMMA AdvanceSound ==
    ASSUME NEW ls, NEW s, NEW i, NEW r, NEW v, NEW o,
           Sound(ls, s, i, r), v \in ValTypes, round \in RoundTypes,
           Advance(ls, s, i, r, v, o)
    PROVE  /\ Sound(lstate', st', im', rv')
           /\ round' \in RoundTypes /\ val' \in ValTypes
           /\ \A x \in Cards : st'[x] = "done" <=> s[x] = "done"
           /\ IF ls = "running" THEN lstate' \in {"running", "needs_attention", "validating"}
              ELSE lstate' = ls /\ st' = s
<1>1. CASE ls # "running"
  <2>1. lstate' = ls /\ st' = s /\ im' = i /\ rv' = r /\ round' = Rounds(i, {})
    BY <1>1 DEF Advance
  <2>2. val' \in ValTypes
    BY <1>1 DEF Advance, StartValidation
  <2> QED
    BY <1>1, <2>1, <2>2, RoundsType
<1>2. CASE ls = "running"
  <2>1. PICK R \in FirstReviews(s, i, r, o) :
          \/ \E x \in R : rv' = Reviewing(r, R \ {x}) /\ CannotStart(s, i, {}, x, v)
          \/ /\ rv' = Reviewing(r, R)
             /\ \E F \in FirstReady(s) :
                  \/ \E x \in F : CannotStart(s, i, LanesBefore(F, x), x, v)
                  \/ \E B \in SUBSET F : AllStart(s, i, B, v)
    BY <1>2 DEF Advance
  <2>2. /\ R \in SUBSET Cards
        /\ \A x \in R : s[x] = "review" /\ r[x] = "none" /\ i[x] = "over"
    BY DEF FirstReviews
  <2>3. \A Q \in SUBSET R : Sound("running", s, i, Reviewing(r, Q))
    BY <1>2, <2>2, ReviewsSound
  <2>4. ASSUME NEW x \in R, rv' = Reviewing(r, R \ {x}), CannotStart(s, i, {}, x, v)
        PROVE  /\ Sound(lstate', st', im', rv')
               /\ round' \in RoundTypes /\ val' \in ValTypes
               /\ \A y \in Cards : st'[y] = "done" <=> s[y] = "done"
               /\ lstate' = "needs_attention"
    <3>1. i[x] \notin Live /\ x \in Cards \ {} /\ s[x] = "review"
      BY <2>2, <2>4
    <3>2. Sound("running", s, i, rv')
      BY <2>3, <2>4
    <3> QED
      BY <2>4, <3>1, <3>2, CannotStartSound
  <2>5. ASSUME NEW F \in FirstReady(s), rv' = Reviewing(r, R)
        PROVE  /\ Sound("running", s, i, rv')
               /\ F \in SUBSET Cards
               /\ \A x \in F : /\ s[x] = "planned" /\ ~Busy(s, LaneOf(x))
                               /\ LanesBefore(F, x) \subseteq F \ {x}
                               /\ i[x] \notin Live
               /\ \A x, y \in F : LaneOf(x) = LaneOf(y) => x = y
    <3>1. Sound("running", s, i, rv')
      BY <2>3, <2>5
    <3>2. \A x \in Cards : s[x] = "planned" => i[x] \notin Live
      BY <3>1 DEF Sound, Agrees
    <3> QED
      BY <3>1, <3>2, FirstReadyFact
  <2>6. ASSUME NEW F \in FirstReady(s), rv' = Reviewing(r, R),
               NEW x \in F, CannotStart(s, i, LanesBefore(F, x), x, v)
        PROVE  /\ Sound(lstate', st', im', rv')
               /\ round' \in RoundTypes /\ val' \in ValTypes
               /\ \A y \in Cards : st'[y] = "done" <=> s[y] = "done"
               /\ lstate' = "needs_attention"
    <3> DEFINE B == LanesBefore(F, x)
    <3>1. /\ B \in SUBSET Cards /\ x \in Cards \ B
          /\ Sound("running", s, i, rv')
          /\ \A y \in B : s[y] = "planned" /\ ~Busy(s, LaneOf(y))
          /\ \A y, z \in B : LaneOf(y) = LaneOf(z) => y = z
          /\ s[x] = "planned" /\ i[x] \notin Live
      BY <2>5, <2>6
    <3>2. CannotStart(s, i, B, x, v)
      BY <2>6
    <3> HIDE DEF B
    <3> QED
      BY <3>1, <3>2, CannotStartSound
  <2>7. ASSUME NEW F \in FirstReady(s), rv' = Reviewing(r, R),
               NEW B \in SUBSET F, AllStart(s, i, B, v)
        PROVE  /\ Sound(lstate', st', im', rv')
               /\ round' \in RoundTypes /\ val' \in ValTypes
               /\ \A y \in Cards : st'[y] = "done" <=> s[y] = "done"
               /\ lstate' \in {"running", "validating"}
    <3>1. /\ B \in SUBSET Cards
          /\ Sound("running", s, i, rv')
          /\ \A y \in B : s[y] = "planned" /\ ~Busy(s, LaneOf(y))
          /\ \A y, z \in B : LaneOf(y) = LaneOf(z) => y = z
      BY <2>5, <2>7
    <3> QED
      BY <2>7, <3>1, AllStartSound
  <2> QED
    BY <1>2, <2>1, <2>4, <2>6, <2>7
<1> QED
  BY <1>1, <1>2

-----------------------------------------------------------------------------
(* The other changes to the cards.                                          *)

\* Work for cards goes on, or ends.
Fewer(i, r, j, q) ==
    /\ j \in ImTypes /\ q \in RvTypes
    /\ \A x \in Cards :
         /\ j[x] \in Live => \/ j[x] = i[x]
                             \/ i[x] \in {"turn", "popped", "check"} /\ j[x] # "blocked"
         /\ Reviewed(q, x) => Reviewed(r, x)

LEMMA FewerSound ==
    ASSUME NEW ls, NEW s, NEW i, NEW r, NEW j, NEW q, Sound(ls, s, i, r), Fewer(i, r, j, q)
    PROVE  Sound(ls, s, j, q)
<1>1. \A x \in Cards : InHand(s, j, q, x) => InHand(s, i, r, x)
  BY DEF Fewer, InHand, WorksFor
<1>2. LaneExclusive(s, j, q)
  BY <1>1 DEF Sound, LaneExclusive
<1>3. Agrees(ls, s, j, q)
  BY DEF Sound, Agrees, Fewer
<1>4. FailedAway(ls, s, q) /\ Replaced(s, q)
  BY DEF Sound, FailedAway, Replaced, Fewer
<1> QED
  BY <1>2, <1>3, <1>4 DEF Sound, Fewer

\* A running loop stops for the person.
LEMMA StopSound ==
    ASSUME NEW ls, NEW s, NEW i, NEW r, Sound(ls, s, i, r), ls # "cancelled"
    PROVE  Sound("needs_attention", s, i, r)
BY DEF Sound, Agrees, FailedAway

\* A run ends, or its goal is blocked: the card goes to review.
LEMMA RunOverSound ==
    ASSUME NEW ls, NEW s, NEW i, NEW r, NEW j, Sound(ls, s, i, r),
           ls \in {"running", "needs_attention"},
           NEW x \in Cards, i[x] \in {"turn", "popped", "check"},
           j \in ImTypes, j[x] \in {"blocked", "over"},
           \A y \in Cards \ {x} : j[y] \in {i[y], "over"}
    PROVE  Sound(ls, [s EXCEPT ![x] = "review"], j, r)
<1> DEFINE t == [s EXCEPT ![x] = "review"]
<1>1. /\ t[x] = "review" /\ s[x] = "running"
      /\ \A y \in Cards \ {x} : t[y] = s[y]
      /\ Types(ls, t, j, r)
  BY DEF Sound, Agrees
<1> HIDE DEF t
<1>2. Agrees(ls, t, j, r) /\ FailedAway(ls, t, r)
  BY <1>1 DEF Sound, Agrees, FailedAway
<1>3. Replaced(t, r)
  BY <1>1 DEF Sound, Replaced, Has
<1>4. \A y \in Cards : InHand(t, j, r, y) => InHand(s, i, r, y)
  BY <1>1 DEF InHand, WorksFor
<1>5. LaneExclusive(t, j, r)
  BY <1>4 DEF Sound, LaneExclusive
<1> QED
  BY <1>1, <1>2, <1>3, <1>5 DEF Sound, t

\* A review concludes its card.
LEMMA CloseSound ==
    ASSUME NEW ls, NEW s, NEW i, NEW r, Sound(ls, s, i, r),
           ls \in {"running", "needs_attention"},
           NEW x \in Cards, Reviewed(r, x), NEW c \in {"done", "failed"}
    PROVE  /\ Sound(ls, [s EXCEPT ![x] = c], i, [r EXCEPT ![x] = "over"])
           /\ ~Has(s, FollowUp(x))
<1> DEFINE t == [s EXCEPT ![x] = c]
           q == [r EXCEPT ![x] = "over"]
<1>1. /\ t[x] = c /\ q[x] = "over"
      /\ \A y \in Cards \ {x} : t[y] = s[y] /\ q[y] = r[y]
      /\ Types(ls, t, i, q)
  BY DEF Sound
<1>2. s[x] \in {"review", "failed"} /\ ~Has(s, FollowUp(x)) /\ i[x] \notin Live
  BY DEF Sound, Agrees, Replaced
<1> HIDE DEF t, q
<1>3. Agrees(ls, t, i, q) /\ FailedAway(ls, t, q)
  BY <1>1, <1>2 DEF Sound, Agrees, FailedAway, Reviewed
<1>4. Replaced(t, q)
  BY <1>1, <1>2 DEF Sound, Replaced, Has, Reviewed
<1>5. \A y \in Cards : InHand(t, i, q, y) => InHand(s, i, r, y)
  BY <1>1 DEF InHand, WorksFor, Reviewed
<1>6. LaneExclusive(t, i, q)
  BY <1>5 DEF Sound, LaneExclusive
<1> QED
  BY <1>1, <1>2, <1>3, <1>4, <1>6 DEF Sound, t, q

\* A review adds a follow-up to the card it has concluded.
LEMMA FollowUpSound ==
    ASSUME NEW ls, NEW s, NEW i, NEW r, Sound(ls, s, i, r),
           ls \in {"running", "needs_attention"},
           NEW x \in Cards, s[x] \in {"done", "failed"}, ~Reviewed(r, x),
           FollowUp(x) \in Cards, s[FollowUp(x)] = "absent"
    PROVE  Sound(ls, [s EXCEPT ![FollowUp(x)] = "planned"], i, r)
<1> DEFINE f == FollowUp(x)
           t == [s EXCEPT ![f] = "planned"]
<1>1. /\ f \in Cards /\ t[f] = "planned" /\ s[f] = "absent"
      /\ \A y \in Cards \ {f} : t[y] = s[y]
      /\ Types(ls, t, i, r)
  BY DEF Sound
<1>2. i[f] \notin Live /\ ~Reviewed(r, f)
  BY <1>1 DEF Sound, Agrees
<1>3. \A y \in Cards : FollowUp(y) = f => y = x
  BY DEF FollowUp, Cards
<1>4. x # f
  BY <1>1
<1> HIDE DEF t, f
<1>5. Agrees(ls, t, i, r) /\ FailedAway(ls, t, r)
  BY <1>1, <1>2 DEF Sound, Agrees, FailedAway
<1>6. Replaced(t, r)
  <2> SUFFICES ASSUME NEW y \in Cards, Has(t, FollowUp(y))
               PROVE  t[y] \in {"done", "failed"} /\ ~Reviewed(r, y)
    BY DEF Replaced
  <2>1. CASE FollowUp(y) = f
    BY <1>1, <1>3, <1>4, <2>1
  <2>2. CASE FollowUp(y) # f
    <3>1. Has(s, FollowUp(y))
      BY <1>1, <2>2 DEF Has
    <3>2. s[y] \in {"done", "failed"} /\ ~Reviewed(r, y)
      BY <3>1 DEF Sound, Replaced
    <3> QED
      BY <1>1, <3>2
  <2> QED
    BY <2>1, <2>2
<1>7. \A y \in Cards : InHand(t, i, r, y) => InHand(s, i, r, y)
  BY <1>1 DEF InHand
<1>8. LaneExclusive(t, i, r)
  BY <1>7 DEF Sound, LaneExclusive
<1> QED
  BY <1>1, <1>5, <1>6, <1>8 DEF Sound, t, f

\* Cards of Z are planned again and their sessions given up.
LEMMA ResetSound ==
    ASSUME NEW ls, NEW s, NEW i, NEW r, Sound(ls, s, i, r),
           NEW Z \in SUBSET Cards,
           \A x \in Z : s[x] \in {"running", "review", "failed"} /\ ~Has(s, FollowUp(x)),
           NEW j, NEW q, Fewer(i, r, j, q),
           \A x \in Z : j[x] \notin Live /\ ~Reviewed(q, x),
           NEW k \in LoopStates, k = ls \/ ls # "cancelled",
           k = "running" => \A x \in Cards \ Z : s[x] = "failed" => ~Reviewed(q, x),
           k \in {"validating", "awaiting_commit", "done"} => Finished(s) /\ Z = {}
    PROVE  /\ Sound(k, Reset(s, Z, "planned"), j, q)
           /\ \A x \in Cards : Reset(s, Z, "planned")[x] = "done" <=> s[x] = "done"
<1> DEFINE t == Reset(s, Z, "planned")
<1>1. \A x \in Cards : t[x] = IF x \in Z THEN "planned" ELSE s[x]
  BY DEF Reset
<1>2. Types(k, t, j, q)
  BY DEF Sound, Reset, Fewer
<1>3. \A x \in Cards : t[x] = "done" <=> s[x] = "done"
  BY <1>1
<1>4. k \in {"validating", "awaiting_commit", "done"} => t = s
  BY DEF Reset, Sound
<1> HIDE DEF t
<1>5. Agrees(k, t, j, q) /\ FailedAway(k, t, q)
  BY <1>1 DEF Sound, Agrees, FailedAway, Fewer
<1>6. Replaced(t, q)
  <2> SUFFICES ASSUME NEW y \in Cards, Has(t, FollowUp(y))
               PROVE  t[y] \in {"done", "failed"} /\ ~Reviewed(q, y)
    BY DEF Replaced
  <2>1. Has(s, FollowUp(y))
    BY <1>1 DEF Has
  <2> QED
    BY <1>1, <2>1 DEF Sound, Replaced, Fewer
<1>7. \A y \in Cards : InHand(t, j, q, y) => InHand(s, i, r, y)
  BY <1>1 DEF InHand, WorksFor, Fewer
<1>8. LaneExclusive(t, j, q)
  BY <1>7 DEF Sound, LaneExclusive
<1>9. k \in {"validating", "awaiting_commit", "done"} => Finished(t)
  BY <1>4
<1> QED
  BY <1>2, <1>3, <1>5, <1>6, <1>8, <1>9 DEF Sound, t

-----------------------------------------------------------------------------
(* The inductive invariant.  Before its plan is approved a loop is fresh;   *)
(* after that no planner returns.                                           *)

Fresh ==
    /\ merged = {}
    /\ \A x \in Cards : st[x] \in {"absent", "planned", "dropped"}

PlannerAlone == pl # "none" => lstate \in {"planning", "cancelled"} /\ Fresh
PlanIsFresh == lstate \in {"planning", "awaiting_plan"} => Fresh
StageHolds ==
    /\ stage # "none" => lstate = "needs_attention"
    /\ stage = "planning" => Fresh
    /\ stage = "validation" => Finished(st)

\* The variables that Sound does not speak of.
OtherTypes ==
    /\ stage \in {"none", "planning", "validation"}
    /\ cause \in [Cards -> BOOLEAN]
    /\ round \in RoundTypes
    /\ merged \subseteq Cards
    /\ pl \in {"none", "active", "popped", "loaded"}
    /\ val \in ValTypes
    /\ cl \in {"none", "branch", "no_branch", "torn"}
    /\ branch \in BOOLEAN
    /\ stale \in Nat
    /\ others \in 0 .. MaxOthers
    /\ restarts \in 0 .. MaxRestarts

IInv ==
    /\ Sound(lstate, st, im, rv)
    /\ OtherTypes
    /\ PlannerAlone /\ PlanIsFresh /\ StageHolds
    /\ BranchHoldsDoneCards

LEMMA IInvTypes == IInv => TypeOK
BY DEF IInv, Sound, OtherTypes, TypeOK

\* Where cards are worked for, or in hand, nothing is being planned, validated
\* or has ended; the loop may be cancelled.
LEMMA WorkPlace ==
    ASSUME IInv, NEW x \in Cards, InHand(st, im, rv, x)
    PROVE  /\ lstate \in {"running", "needs_attention", "cancelled"}
           /\ pl = "none" /\ stage = "none"
<1>1. st[x] \in {"running", "review"} \/ (st[x] = "failed" /\ Reviewed(rv, x))
  BY DEF IInv, Sound, Agrees, InHand, WorksFor
<1>2. ~Fresh
  BY <1>1 DEF Fresh
<1>3. ~Finished(st)
  BY <1>1 DEF Finished, IInv, Sound, Replaced, Has
<1> QED
  BY <1>2, <1>3 DEF IInv, Sound, PlannerAlone, PlanIsFresh, StageHolds, OtherTypes

\* A step of a card that is in hand: what is left to show is Sound and the
\* branch.
LEMMA WorkStep ==
    ASSUME IInv, NEW x \in Cards, InHand(st, im, rv, x),
           Sound(lstate', st', im', rv'), round' \in RoundTypes, val' \in ValTypes,
           cause' \in [Cards -> BOOLEAN], merged' \subseteq Cards,
           stale' \in Nat, others' \in 0 .. MaxOthers,
           UNCHANGED <<stage, branch, pl, cl, restarts>>,
           lstate' \in {"running", "needs_attention", "validating", "cancelled"},
           lstate' # "cancelled" => merged' = {y \in Cards : st'[y] = "done"}
    PROVE  IInv'
<1>1. pl = "none" /\ stage = "none"
  BY WorkPlace
<1> QED
  BY <1>1 DEF IInv, OtherTypes, PlannerAlone, PlanIsFresh, StageHolds, BranchHoldsDoneCards

\* Conversations that are not the loop's, or only im and rv, change.
LEMMA QuietStep ==
    ASSUME IInv, Sound(lstate, st, im', rv'),
           round' \in RoundTypes, stale' \in Nat, others' \in 0 .. MaxOthers,
           UNCHANGED <<lstate, stage, st, cause, merged, branch, pl, val, cl, restarts>>
    PROVE  IInv'
BY DEF IInv, OtherTypes, PlannerAlone, PlanIsFresh, StageHolds, BranchHoldsDoneCards, Fresh

LEMMA CloseIdleFewer ==
    ASSUME NEW i \in ImTypes, NEW r \in RvTypes
    PROVE  Fewer(i, r, CloseIdle(i), r)
BY DEF CloseIdle, Fewer

-----------------------------------------------------------------------------
(* Runs.                                                                    *)

\* _finish_loop_card_run keeps the invariant; j is what becomes of im.
LEMMA FinishRunStep ==
    ASSUME IInv, NEW x \in Cards, im[x] \in {"turn", "popped", "check"},
           NEW j \in ImTypes, j[x] \in {"blocked", "over"},
           \A y \in Cards \ {x} : j[y] \in {im[y], "over"},
           NEW f \in BOOLEAN, FinishRun(x, f, j),
           UNCHANGED <<stage, merged, branch, pl, cl, stale, others, restarts>>
    PROVE  IInv'
<1>1. InHand(st, im, rv, x) /\ st[x] = "running"
  BY DEF IInv, Sound, Agrees, InHand
<1>2. /\ lstate \in {"running", "needs_attention", "cancelled"}
      /\ pl = "none" /\ stage = "none"
  BY <1>1, WorkPlace
<1>3. CASE lstate = "cancelled"
  <2>1. im' = j /\ UNCHANGED <<lstate, st, cause, rv, round, val>>
    BY <1>3 DEF FinishRun
  <2>2. Types(lstate, st, j, rv) /\ ~Reviewed(rv, x)
    BY <1>1 DEF IInv, Sound, Agrees
  <2>3. Agrees(lstate, st, j, rv)
    BY <1>1, <1>3, <2>2 DEF IInv, Sound, Agrees
  <2>4. \A y \in Cards : InHand(st, j, rv, y) => InHand(st, im, rv, y)
    BY <1>1 DEF InHand, WorksFor
  <2>5. LaneExclusive(st, j, rv)
    BY <2>4 DEF IInv, Sound, LaneExclusive
  <2>6. Sound(lstate', st', im', rv')
    BY <2>1, <2>2, <2>3, <2>5 DEF IInv, Sound
  <2> QED
    BY <1>1, <1>3, <2>1, <2>6, WorkStep DEF IInv, OtherTypes
<1>4. CASE lstate # "cancelled"
  <2> DEFINE t == [st EXCEPT ![x] = "review"]
  <2>1. cause' = [cause EXCEPT ![x] = ~f] /\ Advance(lstate, t, j, rv, val, NotCards)
    BY <1>4 DEF FinishRun
  <2>2. Sound(lstate, t, j, rv)
    BY <1>2, <1>4, RunOverSound DEF IInv
  <2>3. \A y \in Cards : t[y] = "done" <=> st[y] = "done"
    BY <1>1
  <2> HIDE DEF t
  <2>4. /\ Sound(lstate', st', im', rv')
        /\ round' \in RoundTypes /\ val' \in ValTypes
        /\ \A y \in Cards : st'[y] = "done" <=> t[y] = "done"
        /\ IF lstate = "running" THEN lstate' \in {"running", "needs_attention", "validating"}
           ELSE lstate' = lstate /\ st' = t
    BY <2>1, <2>2, AdvanceSound DEF IInv, OtherTypes
  <2>5. merged' = {y \in Cards : st'[y] = "done"}
    BY <1>2, <1>4, <2>3, <2>4 DEF IInv, BranchHoldsDoneCards
  <2>6. cause' \in [Cards -> BOOLEAN] /\ stale' \in Nat /\ others' \in 0 .. MaxOthers
    BY <2>1 DEF IInv, OtherTypes
  <2>7. lstate' \in {"running", "needs_attention", "validating"}
    BY <1>2, <1>4, <2>4
  <2> QED
    BY <1>1, <2>4, <2>5, <2>6, <2>7, WorkStep
<1> QED
  BY <1>3, <1>4

LEMMA RunSteps ==
    ASSUME IInv, NEW x \in Cards,
           BlockGoal(x) \/ TurnEnds(x) \/ AfterTurn(x) \/ CheckFinishes(x) \/ CheckFails(x)
    PROVE  IInv'
<1>1. im \in ImTypes /\ rv \in RvTypes
  BY DEF IInv, Sound
<1>2. /\ stale \in Nat /\ others \in 0 .. MaxOthers /\ round \in RoundTypes
  BY DEF IInv, OtherTypes
<1>3. CASE BlockGoal(x)
  <2>1. [im EXCEPT ![x] = "blocked"] \in ImTypes
    BY <1>1
  <2> QED
    BY <1>1, <1>3, <2>1, FinishRunStep DEF BlockGoal
<1>4. CASE TurnEnds(x)
  <2>1. Fewer(im, rv, im', rv')
    BY <1>1, <1>4 DEF TurnEnds, Fewer, CloseIdle
  <2> QED
    BY <1>2, <1>4, <2>1, FewerSound, QuietStep DEF IInv, TurnEnds, hostVars
<1>5. CASE AfterTurn(x)
  <2>1. CASE im' = [im EXCEPT ![x] = "check"] /\ UNCHANGED <<lstate, st, cause, round, rv, val>>
    <3>1. Fewer(im, rv, im', rv')
      BY <1>1, <1>5, <2>1 DEF AfterTurn, Fewer
    <3> QED
      BY <1>2, <1>5, <2>1, <3>1, FewerSound, QuietStep DEF IInv, AfterTurn
  <2>2. CASE FinishRun(x, FALSE, CloseIdle(im))
    <3>1. /\ CloseIdle(im) \in ImTypes /\ CloseIdle(im)[x] = "over"
          /\ \A y \in Cards \ {x} : CloseIdle(im)[y] \in {im[y], "over"}
      BY <1>1, <1>5 DEF AfterTurn, CloseIdle
    <3> QED
      BY <1>5, <2>2, <3>1, FinishRunStep DEF AfterTurn
  <2> QED
    BY <1>5, <2>1, <2>2 DEF AfterTurn
<1>6. CASE CheckFinishes(x)
  <2> DEFINE j == CloseIdle([im EXCEPT ![x] = "over"])
  <2>1. /\ j \in ImTypes /\ j[x] = "over"
        /\ \A y \in Cards \ {x} : j[y] \in {im[y], "over"}
    BY <1>1 DEF CloseIdle
  <2> HIDE DEF j
  <2>2. PICK f \in BOOLEAN : FinishRun(x, f, j)
    BY <1>6 DEF CheckFinishes, j
  <2> QED
    BY <1>6, <2>1, <2>2, FinishRunStep DEF CheckFinishes
<1>7. CASE CheckFails(x)
  <2>1. Fewer(im, rv, im', rv')
    BY <1>1, <1>7 DEF CheckFails, Fewer, CloseIdle
  <2>2. round' \in RoundTypes
    BY <1>2, <1>7, BoundAssumption DEF CheckFails
  <2> QED
    BY <1>2, <1>7, <2>1, <2>2, FewerSound, QuietStep DEF IInv, CheckFails, hostVars
<1> QED
  BY <1>3, <1>4, <1>5, <1>6, <1>7

-----------------------------------------------------------------------------
(* Reviews.                                                                 *)

\* What is known where the callback of a review goes on.
LEMMA ReviewPlace ==
    ASSUME IInv, NEW x \in Cards, Reviewed(rv, x), lstate # "cancelled"
    PROVE  /\ lstate \in {"running", "needs_attention"}
           /\ InHand(st, im, rv, x)
           /\ st[x] \in {"review", "failed"} /\ im[x] \notin Live
           /\ merged = {y \in Cards : st[y] = "done"}
<1>1. InHand(st, im, rv, x)
  BY DEF InHand, WorksFor
<1>2. lstate \in {"running", "needs_attention"}
  BY <1>1, WorkPlace
<1> QED
  BY <1>1, <1>2 DEF IInv, Sound, Agrees, BranchHoldsDoneCards

LEMMA ReviewRejectedStep ==
    ASSUME IInv, NEW x \in Cards, ReviewRejected(x)
    PROVE  IInv'
<1>1. /\ rv[x] = "popped" /\ Reviewed(rv, x) /\ lstate # "cancelled"
      /\ rv' = [rv EXCEPT ![x] = "over"] /\ im' = CloseIdle(im)
      /\ st' = [st EXCEPT ![x] = "failed"] /\ lstate' = Attention(lstate)
      /\ UNCHANGED <<stage, cause, round, merged, branch, hostVars>>
  BY DEF ReviewRejected, Obsolete, Reviewed
<1>2. /\ lstate \in {"running", "needs_attention"} /\ InHand(st, im, rv, x)
      /\ st[x] \in {"review", "failed"} /\ im[x] \notin Live
      /\ merged = {y \in Cards : st[y] = "done"}
  BY <1>1, ReviewPlace
<1>3. Fewer(im, rv, im', rv')
  BY <1>1 DEF IInv, Sound, CloseIdle, Fewer, Reviewed
<1>4. Sound(lstate, st, im', rv') /\ im'[x] \notin Live
  BY <1>1, <1>2, <1>3, FewerSound DEF IInv, CloseIdle
<1>5. lstate' = "needs_attention"
  BY <1>1, <1>2 DEF Attention
<1>6. Sound(lstate', st', im', rv')
  <2>1. Sound("needs_attention", [st EXCEPT ![x] = "failed"], im', rv')
    BY <1>2, <1>4, FailSound
  <2> QED
    BY <1>1, <1>5, <2>1
<1>7. merged' = {y \in Cards : st'[y] = "done"}
  BY <1>1, <1>2 DEF IInv, Sound
<1> QED
  BY <1>1, <1>2, <1>5, <1>6, <1>7, WorkStep DEF IInv, OtherTypes, hostVars

LEMMA IntegrationFailsStep ==
    ASSUME IInv, NEW x \in Cards, IntegrationFails(x)
    PROVE  IInv'
<1>1. PICK failed \in BOOLEAN, started \in BOOLEAN :
        Advance(IF failed THEN Attention(lstate) ELSE lstate,
                IF failed THEN [st EXCEPT ![x] = "failed"] ELSE st,
                CloseIdle(im),
                [rv EXCEPT ![x] = IF started THEN "active" ELSE "over"],
                val, NotCards)
  <2>1. PICK rolledBack \in BOOLEAN, startFails \in BOOLEAN :
         LET started == Active < MaxActive /\ ~startFails
             failed == rolledBack \/ ~started
         IN  Advance(IF failed THEN Attention(lstate) ELSE lstate,
                     IF failed THEN [st EXCEPT ![x] = "failed"] ELSE st,
                     CloseIdle(im),
                     [rv EXCEPT ![x] = IF started THEN "active" ELSE "over"],
                     val, NotCards)
    BY DEF IntegrationFails
  <2>2. (Active < MaxActive /\ ~startFails) \in BOOLEAN
    OBVIOUS
  <2>3. (rolledBack \/ ~(Active < MaxActive /\ ~startFails)) \in BOOLEAN
    OBVIOUS
  <2> QED
    BY <2>1, <2>2, <2>3
<1> DEFINE q == [rv EXCEPT ![x] = IF started THEN "active" ELSE "over"]
           j == CloseIdle(im)
           k == IF failed THEN Attention(lstate) ELSE lstate
           t == IF failed THEN [st EXCEPT ![x] = "failed"] ELSE st
<1>2. /\ rv[x] = "popped" /\ Reviewed(rv, x) /\ lstate # "cancelled"
      /\ cause' = [cause EXCEPT ![x] = TRUE]
      /\ UNCHANGED <<stage, merged, branch, pl, cl, stale, others, restarts>>
  BY DEF IntegrationFails, Obsolete, Reviewed
<1>3. /\ lstate \in {"running", "needs_attention"} /\ InHand(st, im, rv, x)
      /\ st[x] \in {"review", "failed"} /\ im[x] \notin Live
      /\ merged = {y \in Cards : st[y] = "done"}
  BY <1>2, ReviewPlace
<1>4. Fewer(im, rv, j, q)
  BY <1>2 DEF IInv, Sound, CloseIdle, Fewer, Reviewed
<1>5. Sound(lstate, st, j, q) /\ j[x] \notin Live
  BY <1>3, <1>4, FewerSound DEF IInv, CloseIdle
<1> HIDE DEF j, q
<1>6. Sound(k, t, j, q) /\ k \in {"running", "needs_attention"}
  BY <1>3, <1>5, FailSound DEF Attention
<1>7. \A y \in Cards : t[y] = "done" <=> st[y] = "done"
  BY <1>3 DEF IInv, Sound
<1>8. Advance(k, t, j, q, val, NotCards)
  BY <1>1 DEF j, q
<1> HIDE DEF k, t
<1>9. /\ Sound(lstate', st', im', rv')
      /\ round' \in RoundTypes /\ val' \in ValTypes
      /\ \A y \in Cards : st'[y] = "done" <=> t[y] = "done"
      /\ lstate' \in {"running", "needs_attention", "validating"}
  <2>1. /\ Sound(lstate', st', im', rv')
        /\ round' \in RoundTypes /\ val' \in ValTypes
        /\ \A y \in Cards : st'[y] = "done" <=> t[y] = "done"
        /\ IF k = "running" THEN lstate' \in {"running", "needs_attention", "validating"}
           ELSE lstate' = k /\ st' = t
    BY <1>6, <1>8, AdvanceSound DEF IInv, OtherTypes
  <2> QED
    BY <1>6, <2>1
<1>10. merged' = {y \in Cards : st'[y] = "done"}
  BY <1>2, <1>3, <1>7, <1>9
<1>11. cause' \in [Cards -> BOOLEAN] /\ stale' \in Nat /\ others' \in 0 .. MaxOthers
  BY <1>2 DEF IInv, OtherTypes
<1> QED
  BY <1>2, <1>3, <1>9, <1>10, <1>11, WorkStep

LEMMA ReviewAcceptedStep ==
    ASSUME IInv, NEW x \in Cards, ReviewAccepted(x)
    PROVE  IInv'
<1> DEFINE c == IF cause[x] THEN "failed" ELSE "done"
           closed == [st EXCEPT ![x] = c]
           reviews == [rv EXCEPT ![x] = "over"]
           j == CloseIdle(im)
<1>1. /\ rv[x] = "popped" /\ Reviewed(rv, x) /\ lstate # "cancelled"
      /\ merged' = merged \cup Integrated(x)
      /\ UNCHANGED <<stage, cause, branch, pl, cl, stale, others, restarts>>
  BY DEF ReviewAccepted, Obsolete, Reviewed
<1>2. \/ /\ Advance(lstate, closed, j, reviews, val, NotCards)
         /\ ~cause[x]
      \/ /\ x[2] < FollowUps
         /\ Advance(lstate, [closed EXCEPT ![FollowUp(x)] = "planned"], j, reviews, val, NotCards)
      \/ /\ lstate' = Attention(lstate)
         /\ st' = closed /\ rv' = reviews /\ im' = j
         /\ UNCHANGED <<round, val>>
  BY DEF ReviewAccepted
<1>3. /\ lstate \in {"running", "needs_attention"} /\ InHand(st, im, rv, x)
      /\ st[x] \in {"review", "failed"} /\ im[x] \notin Live
      /\ merged = {y \in Cards : st[y] = "done"}
  BY <1>1, ReviewPlace
<1>4. /\ st \in StTypes /\ round \in RoundTypes /\ val \in ValTypes /\ cause \in [Cards -> BOOLEAN]
      /\ stale \in Nat /\ others \in 0 .. MaxOthers
  BY DEF IInv, Sound, OtherTypes
<1>5. Sound(lstate, st, j, rv)
  <2>1. Fewer(im, rv, j, rv)
    BY CloseIdleFewer DEF IInv, Sound
  <2> QED
    BY <2>1, FewerSound DEF IInv
<1> HIDE DEF j
<1>6. c \in {"done", "failed"}
  OBVIOUS
<1>7. Sound(lstate, closed, j, reviews) /\ ~Has(st, FollowUp(x))
  BY <1>1, <1>3, <1>5, <1>6, CloseSound
<1>8. /\ closed[x] = c /\ ~Reviewed(reviews, x)
      /\ \A y \in Cards \ {x} : closed[y] = st[y]
  BY <1>4 DEF Reviewed, IInv, Sound
\* The branch has the patch exactly if the card is done.
<1>9. merged' = {y \in Cards : closed[y] = "done"}
  BY <1>1, <1>3, <1>8 DEF Integrated
<1>10. ASSUME NEW t, Sound(lstate, t, j, reviews), Advance(lstate, t, j, reviews, val, NotCards),
              \A y \in Cards : t[y] = "done" <=> closed[y] = "done"
       PROVE  IInv'
  <2>1. /\ Sound(lstate', st', im', rv')
        /\ round' \in RoundTypes /\ val' \in ValTypes
        /\ \A y \in Cards : st'[y] = "done" <=> t[y] = "done"
        /\ IF lstate = "running" THEN lstate' \in {"running", "needs_attention", "validating"}
           ELSE lstate' = lstate /\ st' = t
    BY <1>4, <1>10, AdvanceSound
  <2>2. lstate' \in {"running", "needs_attention", "validating"}
    BY <1>3, <2>1
  <2>3. merged' = {y \in Cards : st'[y] = "done"}
    BY <1>9, <1>10, <2>1
  <2> QED
    BY <1>1, <1>3, <1>4, <2>1, <2>2, <2>3, WorkStep
<1>11. CASE Advance(lstate, closed, j, reviews, val, NotCards)
  BY <1>7, <1>10, <1>11
<1>12. CASE /\ x[2] < FollowUps
            /\ Advance(lstate, [closed EXCEPT ![FollowUp(x)] = "planned"], j, reviews, val, NotCards)
  <2> DEFINE f == FollowUp(x)
             t == [closed EXCEPT ![f] = "planned"]
  <2>1. f \in Cards /\ f # x
    BY <1>12, BoundAssumption DEF Cards, FollowUp
  <2>2. closed[f] = "absent"
    BY <1>7, <1>8, <2>1 DEF Has
  <2>3. Sound(lstate, t, j, reviews)
    BY <1>3, <1>6, <1>7, <1>8, <2>1, <2>2, FollowUpSound
  <2>4. \A y \in Cards : t[y] = "done" <=> closed[y] = "done"
    BY <1>4, <2>1, <2>2
  <2>5. Advance(lstate, t, j, reviews, val, NotCards)
    BY <1>12
  <2> HIDE DEF t
  <2> QED
    BY <1>10, <2>3, <2>4, <2>5
<1>13. CASE /\ lstate' = Attention(lstate)
            /\ st' = closed /\ rv' = reviews /\ im' = j
            /\ UNCHANGED <<round, val>>
  <2>1. lstate' = "needs_attention"
    BY <1>3, <1>13 DEF Attention
  <2>2. Sound("needs_attention", closed, j, reviews)
    BY <1>1, <1>7, StopSound
  <2>3. merged' = {y \in Cards : st'[y] = "done"}
    BY <1>9, <1>13
  <2>4. Sound(lstate', st', im', rv')
    BY <1>13, <2>1, <2>2
  <2>5. round' \in RoundTypes /\ val' \in ValTypes
    BY <1>4, <1>13
  <2> QED
    BY <1>1, <1>3, <1>4, <2>1, <2>3, <2>4, <2>5, WorkStep
<1> QED
  BY <1>2, <1>11, <1>12, <1>13

LEMMA ReviewSteps ==
    ASSUME IInv, NEW x \in Cards, ReviewEnds(x) \/ ReviewDone(x)
    PROVE  IInv'
<1>1. im \in ImTypes /\ rv \in RvTypes
  BY DEF IInv, Sound
<1>2. stale \in Nat /\ others \in 0 .. MaxOthers /\ round \in RoundTypes
  BY DEF IInv, OtherTypes
<1>3. CASE ReviewEnds(x)
  <2>1. Fewer(im, rv, im', rv')
    BY <1>1, <1>3 DEF ReviewEnds, Fewer, Reviewed
  <2> QED
    BY <1>2, <1>3, <2>1, FewerSound, QuietStep DEF IInv, ReviewEnds, hostVars
<1>4. CASE ReviewIgnored(x)
  <2>1. Fewer(im, rv, im', rv')
    BY <1>1, <1>4 DEF ReviewIgnored, Fewer, Reviewed, CloseIdle
  <2> QED
    BY <1>2, <1>4, <2>1, FewerSound, QuietStep DEF IInv, ReviewIgnored, hostVars
<1> QED
  BY <1>3, <1>4, ReviewRejectedStep, IntegrationFailsStep, ReviewAcceptedStep DEF ReviewDone
-----------------------------------------------------------------------------
(* The planner and the person.                                              *)

\* A loop whose cards have not been started is sound in any state but those
\* that call for finished cards.
LEMMA UnstartedSound ==
    ASSUME NEW ls, NEW s, NEW i, NEW r, Types(ls, s, i, r),
           ls \notin {"validating", "awaiting_commit", "done"},
           \A x \in Cards : /\ s[x] \in {"absent", "planned", "dropped"}
                            /\ ~Has(s, FollowUp(x)) /\ ~WorksFor(i, r, x)
    PROVE  Sound(ls, s, i, r)
BY DEF Sound, Agrees, FailedAway, Replaced, LaneExclusive, InHand, WorksFor

LEMMA FreshUnstarted ==
    ASSUME IInv, Fresh
    PROVE  \A x \in Cards : ~Has(st, FollowUp(x)) /\ ~WorksFor(im, rv, x)
BY DEF IInv, Sound, Fresh, Agrees, Replaced, WorksFor

\* Fresh loops hold the invariant before the plan is approved.
LEMMA FreshStep ==
    ASSUME Sound(lstate', st', im', rv'), OtherTypes', Fresh',
           lstate' \in {"planning", "awaiting_plan", "needs_attention"},
           pl' # "none" => lstate' = "planning",
           stage' \in {"none", "planning"},
           stage' = "planning" => lstate' = "needs_attention"
    PROVE  IInv'
BY DEF IInv, PlannerAlone, PlanIsFresh, StageHolds, BranchHoldsDoneCards, Fresh

LEMMA PlanningSteps ==
    ASSUME IInv, Planning
    PROVE  IInv'
<1>1. CASE PlannerEnds \/ LoadPlan
  BY <1>1 DEF PlannerEnds, LoadPlan, cardVars, IInv, OtherTypes, PlannerAlone, PlanIsFresh,
              StageHolds, BranchHoldsDoneCards, Fresh
<1>2. CASE SavePlan
  <2>1. /\ pl' = "none" /\ Fresh /\ merged' = {}
        /\ UNCHANGED <<merged, branch, val, cl, stale, others, restarts>>
    BY <1>2 DEF SavePlan, IInv, PlannerAlone, Fresh
  <2>2. CASE /\ lstate' = "awaiting_plan"
             /\ stage' = "none"
             /\ st' = NewCards("planned")
             /\ cause' = [x \in Cards |-> FALSE]
             /\ im' = [x \in Cards |-> "none"]
             /\ round' = [x \in Cards |-> 0]
             /\ rv' = [x \in Cards |-> "none"]
    <3>1. Types(lstate', st', im', rv') /\ round' \in RoundTypes
      BY <2>2, BoundAssumption DEF NewCards
    <3>2. \A x \in Cards : ~WorksFor(im', rv', x) /\ st'[x] \in {"absent", "planned", "dropped"}
      BY <2>2 DEF NewCards, WorksFor, Reviewed
    <3>3. \A x \in Cards : ~Has(st', FollowUp(x))
      BY <2>2 DEF NewCards, Has, Cards, FollowUp
    <3>4. Sound(lstate', st', im', rv')
      BY <2>2, <3>1, <3>2, <3>3, UnstartedSound
    <3>5. Fresh' /\ OtherTypes'
      BY <2>1, <2>2, <3>1, <3>2 DEF Fresh, OtherTypes, IInv
    <3> QED
      BY <2>1, <2>2, <3>4, <3>5, FreshStep
  <2>3. CASE lstate' = "needs_attention" /\ stage' = "planning" /\ UNCHANGED cardVars
    <3>1. Types(lstate', st', im', rv')
      BY <2>3 DEF IInv, Sound, cardVars
    <3>2. \A x \in Cards : /\ st'[x] \in {"absent", "planned", "dropped"}
                           /\ ~Has(st', FollowUp(x)) /\ ~WorksFor(im', rv', x)
      BY <2>1, <2>3, FreshUnstarted DEF cardVars, Fresh
    <3>3. Sound(lstate', st', im', rv')
      BY <2>3, <3>1, <3>2, UnstartedSound
    <3>4. Fresh' /\ OtherTypes'
      BY <2>1, <2>3 DEF Fresh, OtherTypes, IInv, cardVars
    <3> QED
      BY <2>1, <2>3, <3>3, <3>4, FreshStep
  <2> QED
    BY <1>2, <2>2, <2>3 DEF SavePlan
<1> QED
  BY <1>1, <1>2 DEF Planning

\* _advance_loop on a loop that has just begun to run or to validate again.
LEMMA AdvancedStep ==
    ASSUME IInv, NEW k \in {"running", "validating"}, NEW t, NEW j, NEW q, NEW v \in ValTypes,
           NEW o, Sound(k, t, j, q), Advance(k, t, j, q, v, o),
           pl = "none", stage' = "none", merged' = {y \in Cards : t[y] = "done"},
           cause' = cause, stale' \in Nat, branch' \in BOOLEAN,
           UNCHANGED <<pl, cl, others, restarts>>
    PROVE  IInv'
<1>1. round \in RoundTypes
  BY DEF IInv, OtherTypes
<1>2. /\ Sound(lstate', st', im', rv')
      /\ round' \in RoundTypes /\ val' \in ValTypes
      /\ \A y \in Cards : st'[y] = "done" <=> t[y] = "done"
      /\ IF k = "running" THEN lstate' \in {"running", "needs_attention", "validating"}
         ELSE lstate' = k /\ st' = t
  BY <1>1, AdvanceSound
<1>3. lstate' \in {"running", "needs_attention", "validating"}
  BY <1>2
<1>4. merged' = {y \in Cards : st'[y] = "done"}
  BY <1>2
<1>5. OtherTypes'
  BY <1>2 DEF IInv, OtherTypes
<1> QED
  BY <1>2, <1>3, <1>4, <1>5 DEF IInv, PlannerAlone, PlanIsFresh, StageHolds, BranchHoldsDoneCards

LEMMA PlanSteps ==
    ASSUME IInv, ApprovePlan \/ DropCards \/ RevisePlan \/ ResumePlanning
    PROVE  IInv'
<1>1. CASE ApprovePlan
  <2>1. /\ lstate = "awaiting_plan" /\ Fresh /\ pl = "none" /\ stage = "none"
    BY <1>1 DEF ApprovePlan, IInv, PlanIsFresh, PlannerAlone, StageHolds
  <2>2. Sound("running", st, im, rv)
    <3>1. Types("running", st, im, rv)
      BY DEF IInv, Sound
    <3> QED
      BY <2>1, <3>1, FreshUnstarted, UnstartedSound DEF Fresh
  <2>3. /\ merged' = {} /\ branch' \in BOOLEAN
        /\ Advance("running", st, im, rv, val, NotCards)
        /\ UNCHANGED <<stage, cause, pl, cl, stale, others, restarts>>
    BY <1>1 DEF ApprovePlan
  <2>4. merged' = {y \in Cards : st[y] = "done"}
    BY <2>1, <2>3 DEF Fresh
  <2>5. val \in ValTypes /\ stale \in Nat
    BY DEF IInv, OtherTypes
  <2> QED
    BY <2>1, <2>2, <2>3, <2>4, <2>5, AdvancedStep
<1>2. CASE DropCards
  <2>1. /\ lstate = "awaiting_plan" /\ Fresh /\ pl = "none" /\ stage = "none"
    BY <1>2 DEF DropCards, IInv, PlanIsFresh, PlannerAlone, StageHolds
  <2>2. /\ \A x \in Cards : st'[x] \in {st[x], "dropped"} /\ (st'[x] # st[x] => Has(st, x))
        /\ st' \in StTypes
        /\ UNCHANGED <<lstate, stage, cause, im, round, rv, merged, branch, hostVars>>
    BY <1>2 DEF DropCards, IInv, Sound
  <2>3. Fresh' /\ OtherTypes'
    BY <2>1, <2>2 DEF Fresh, OtherTypes, IInv, hostVars
  <2>4. \A x \in Cards : ~Has(st', FollowUp(x)) /\ ~WorksFor(im', rv', x)
    BY <2>1, <2>2, FreshUnstarted DEF Has
  <2>5. Sound(lstate', st', im', rv')
    <3>1. Types(lstate', st', im', rv')
      BY <2>2 DEF IInv, Sound
    <3> QED
      BY <2>1, <2>2, <2>3, <2>4, <3>1, UnstartedSound DEF Fresh
  <2> QED
    BY <2>1, <2>2, <2>3, <2>5, FreshStep DEF hostVars
<1>3. CASE RevisePlan \/ ResumePlanning
  <2>1. /\ lstate \in {"awaiting_plan", "needs_attention"} /\ Fresh /\ pl = "none"
    <3>1. CASE RevisePlan
      BY <3>1 DEF RevisePlan, IInv, PlanIsFresh, PlannerAlone
    <3>2. CASE ResumePlanning
      <4>1. lstate = "needs_attention" /\ pl = "none"
        BY <3>2 DEF ResumePlanning, IInv, PlannerAlone
      <4>2. CASE stage = "planning"
        BY <4>1, <4>2 DEF IInv, StageHolds
      <4>3. CASE \A x \in Cards : ~Has(st, x)
        BY <4>1, <4>3 DEF IInv, BranchHoldsDoneCards, Fresh, Has
      <4> QED
        BY <3>2, <4>1, <4>2, <4>3 DEF ResumePlanning
    <3> QED
      BY <1>3, <3>1, <3>2
  <2>2. /\ UNCHANGED <<merged, branch, cardVars, val, cl, stale, others, restarts>>
        /\ \/ lstate' = "planning" /\ pl' = "active" /\ stage' = "none"
           \/ lstate' = "needs_attention" /\ pl' = "none" /\ stage' = "planning"
    BY <1>3, <2>1 DEF RevisePlan, ResumePlanning, IInv, StageHolds
  <2>3. Fresh' /\ OtherTypes'
    BY <2>1, <2>2 DEF Fresh, OtherTypes, IInv, cardVars
  <2>4. Sound(lstate', st', im', rv')
    <3>1. Types(lstate', st', im', rv')
      BY <2>2 DEF IInv, Sound, cardVars
    <3>2. \A x \in Cards : /\ st'[x] \in {"absent", "planned", "dropped"}
                           /\ ~Has(st', FollowUp(x)) /\ ~WorksFor(im', rv', x)
      BY <2>1, <2>2, FreshUnstarted DEF cardVars, Fresh
    <3> QED
      BY <2>2, <3>1, <3>2, UnstartedSound
  <2> QED
    BY <2>2, <2>3, <2>4, FreshStep
<1> QED
  BY <1>1, <1>2, <1>3

LEMMA CardsFinite == IsFiniteSet(Cards)
<1>1. IsFiniteSet(0 .. FollowUps)
  BY BoundAssumption, FS_Interval
<1> QED
  BY <1>1, PlanAssumption, FS_Product DEF Cards

LEMMA ResumeCardsStep ==
    ASSUME IInv, ResumeCards
    PROVE  IInv'
<1> DEFINE Z == {x \in Cards : st[x] = "failed" /\ ~Has(st, FollowUp(x))}
           k == IF stage = "validation" THEN "validating" ELSE "running"
           t == Reset(st, Z, "planned")
           j == Reset(im, Z, "none")
           q == Reset(rv, Z, "none")
<1>1. /\ lstate = "needs_attention" /\ stage' = "none"
      /\ stale' = stale + Cardinality({x \in Z : rv[x] = "active"})
      /\ Advance(k, t, j, q, val, NotCards - stale + stale')
      /\ UNCHANGED <<cause, merged, branch, pl, cl, others, restarts>>
  BY DEF ResumeCards
<1>2. stale' \in Nat
  <2>1. {x \in Z : rv[x] = "active"} \subseteq Cards
    OBVIOUS
  <2>2. Cardinality({x \in Z : rv[x] = "active"}) \in Nat
    BY <2>1, CardsFinite, FS_Subset, FS_CardinalityType
  <2> QED
    BY <1>1, <2>2 DEF IInv, OtherTypes
<1>3. Fewer(im, rv, j, q) /\ \A x \in Z : j[x] \notin Live /\ ~Reviewed(q, x)
  BY DEF IInv, Sound, Fewer, Reset, Reviewed
\* A failed card that is not retried has a follow-up, and its review is over.
<1>4. \A x \in Cards \ Z : st[x] = "failed" => ~Reviewed(q, x)
  BY DEF IInv, Sound, Replaced, Reviewed, Reset
<1>5. k = "validating" => Finished(st) /\ Z = {}
  BY DEF IInv, StageHolds, Finished, Has
<1>6. /\ Z \in SUBSET Cards /\ k \in {"running", "validating"}
      /\ \A x \in Z : st[x] \in {"running", "review", "failed"} /\ ~Has(st, FollowUp(x))
  OBVIOUS
<1>7. \A x \in Cards : t[x] = "done" <=> st[x] = "done"
  BY DEF Reset
<1> HIDE DEF Z, k, j, q
<1>8. Sound(k, t, j, q)
  BY <1>1, <1>3, <1>4, <1>5, <1>6, ResetSound DEF IInv
<1>9. merged' = {y \in Cards : t[y] = "done"}
  BY <1>1, <1>7 DEF IInv, BranchHoldsDoneCards
<1>10. pl = "none" /\ val \in ValTypes /\ branch' \in BOOLEAN
  BY <1>1 DEF IInv, PlannerAlone, OtherTypes
<1> HIDE DEF t
<1> QED
  BY <1>1, <1>2, <1>6, <1>8, <1>9, <1>10, AdvancedStep
-----------------------------------------------------------------------------
(* Cancelling, committing, validation.                                      *)

\* A loop may be cancelled in any state.
LEMMA CancelSound ==
    ASSUME NEW ls, NEW s, NEW i, NEW r, Sound(ls, s, i, r)
    PROVE  Sound("cancelled", s, i, r)
BY DEF Sound, Agrees, FailedAway

LEMMA CancelSteps ==
    ASSUME IInv, CancelBegin \/ Cancelling \/ CommitLoop
    PROVE  IInv'
<1>1. CASE CancelBegin
  <2>1. /\ lstate # "cancelled" /\ lstate' \in {lstate, "needs_attention"}
        /\ lstate' # lstate => lstate \in {"running", "validating"}
        /\ cl' \in {"branch", "no_branch"} /\ val' \in ValTypes
        /\ UNCHANGED <<stage, merged, branch, cardVars, pl, stale, others, restarts>>
    BY <1>1 DEF CancelBegin, Terminal, IInv, OtherTypes
  <2>2. Sound(lstate', st', im', rv')
    BY <2>1, StopSound DEF IInv, cardVars
  <2> QED
    BY <2>1, <2>2 DEF IInv, OtherTypes, PlannerAlone, PlanIsFresh, StageHolds,
                      BranchHoldsDoneCards, Fresh, cardVars
<1>2. CASE CancelTearDown \/ CancelFails
  BY <1>2 DEF CancelTearDown, CancelFails, IInv, OtherTypes, PlannerAlone, PlanIsFresh,
              StageHolds, BranchHoldsDoneCards, Fresh, cardVars
<1>3. CASE CancelFinish
  <2>1. /\ lstate' \in {lstate, "cancelled"} /\ stage' \in {stage, "none"}
        /\ lstate' # lstate => stage' = "none"
        /\ cl' = "none"
        /\ UNCHANGED <<merged, branch, cardVars, pl, val, stale, others, restarts>>
    BY <1>3 DEF CancelFinish
  <2>2. Sound(lstate', st', im', rv')
    BY <2>1, CancelSound DEF IInv, cardVars
  <2> QED
    BY <2>1, <2>2 DEF IInv, OtherTypes, PlannerAlone, PlanIsFresh, StageHolds,
                      BranchHoldsDoneCards, Fresh, cardVars
<1>4. CASE CommitLoop
  <2>1. /\ lstate = "awaiting_commit" /\ lstate' \in {"done", "cancelled"}
        /\ branch' \in BOOLEAN
        /\ UNCHANGED <<stage, merged, cardVars, hostVars>>
    BY <1>4 DEF CommitLoop, IInv, OtherTypes
  <2>2. Sound(lstate', st', im', rv')
    BY <2>1, CancelSound DEF IInv, cardVars, Sound, Agrees, FailedAway
  <2> QED
    BY <2>1, <2>2 DEF IInv, OtherTypes, PlannerAlone, PlanIsFresh, StageHolds,
                      BranchHoldsDoneCards, Fresh, cardVars, hostVars
<1> QED
  BY <1>1, <1>2, <1>3, <1>4 DEF Cancelling

LEMMA ValidationSteps ==
    ASSUME IInv, Validation
    PROVE  IInv'
<1>1. CASE ValidationDecides
  <2>1. /\ \/ UNCHANGED <<lstate, stage>>
           \/ lstate = "validating" /\ lstate' = "awaiting_commit" /\ stage' = "none"
           \/ lstate = "validating" /\ lstate' = "needs_attention" /\ stage' = "validation"
        /\ val' = "ending"
        /\ UNCHANGED <<merged, branch, cardVars, pl, cl, stale, others, restarts>>
    BY <1>1 DEF ValidationDecides
  <2>2. Sound(lstate', st', im', rv')
    BY <2>1 DEF IInv, cardVars, Sound, Agrees, FailedAway
  <2>3. StageHolds'
    BY <2>1 DEF IInv, Sound, StageHolds, cardVars, Fresh
  <2> QED
    BY <2>1, <2>2, <2>3 DEF IInv, OtherTypes, PlannerAlone, PlanIsFresh,
                      BranchHoldsDoneCards, Fresh, cardVars
<1>2. CASE ValidationCancelled \/ ValidationGone
  BY <1>2 DEF ValidationCancelled, ValidationGone, IInv, OtherTypes, PlannerAlone, PlanIsFresh,
              StageHolds, BranchHoldsDoneCards, Fresh, cardVars
<1> QED
  BY <1>1, <1>2 DEF Validation

-----------------------------------------------------------------------------
(* The rest of the host.                                                    *)

LEMMA OtherSteps ==
    ASSUME IInv, StaleReviewEnds \/ OtherStarts \/ OtherEnds
    PROVE  IInv'
<1>1. /\ im' = im \/ im' = CloseIdle(im)
      /\ UNCHANGED <<lstate, stage, st, cause, round, rv, merged, branch, pl, val, cl, restarts>>
  BY DEF StaleReviewEnds, OtherStarts, OtherEnds, cardVars
<1>2. stale' \in Nat /\ others' \in 0 .. MaxOthers /\ round' \in RoundTypes
  BY BoundAssumption DEF StaleReviewEnds, OtherStarts, OtherEnds, IInv, OtherTypes, cardVars
<1>3. Sound(lstate, st, im', rv')
  BY <1>1, CloseIdleFewer, FewerSound DEF IInv, Sound
<1> QED
  BY <1>1, <1>2, <1>3, QuietStep

LEMMA RestartStep ==
    ASSUME IInv, Restart
    PROVE  IInv'
<1> DEFINE Z == IF lstate = "running"
                THEN {x \in Cards : st[x] \in {"running", "review"}} ELSE {}
           k == IF lstate = "planning" THEN "needs_attention" ELSE lstate
           t == Reset(st, Z, "planned")
           j == [x \in Cards |-> IF x \in Z \/ im[x] = "none" THEN "none" ELSE "over"]
           q == [x \in Cards |-> IF x \in Z \/ rv[x] = "none" THEN "none" ELSE "over"]
<1>1. /\ restarts < MaxRestarts /\ restarts' = restarts + 1
      /\ pl' = "none" /\ cl' = "none" /\ stale' = 0 /\ others' = 0
      /\ stage' = IF lstate = "planning" THEN "planning" ELSE stage
      /\ Advance(k, t, j, q, "none", 0)
      /\ UNCHANGED <<cause, merged, branch>>
  BY DEF Restart
<1>2. /\ j \in ImTypes /\ q \in RvTypes
      /\ \A x \in Cards : j[x] \notin Live /\ ~Reviewed(q, x)
  BY DEF Reviewed
<1>3. /\ Z \in SUBSET Cards
      /\ \A x \in Z : st[x] \in {"running", "review", "failed"} /\ ~Has(st, FollowUp(x))
  BY DEF IInv, Sound, Replaced
<1>4. /\ k \in LoopStates /\ (k = lstate \/ lstate # "cancelled")
      /\ k \in {"validating", "awaiting_commit", "done"} => Finished(st) /\ Z = {}
      /\ k # "running" => Z = {}
  BY DEF IInv, Sound
<1> HIDE DEF Z, j, q
<1>5. Fewer(im, rv, j, q)
  BY <1>2 DEF Fewer
<1>6. /\ Sound(k, t, j, q)
      /\ \A x \in Cards : t[x] = "done" <=> st[x] = "done"
  <2>1. Sound(lstate, st, im, rv)
    BY DEF IInv
  <2>2. /\ \A x \in Z : j[x] \notin Live /\ ~Reviewed(q, x)
        /\ \A x \in Cards \ Z : st[x] = "failed" => ~Reviewed(q, x)
    BY <1>2, <1>3
  <2>3. \A x \in Cards : t[x] = "done" <=> st[x] = "done"
    BY <1>3 DEF Reset
  <2> HIDE DEF k
  <2>4. Sound(k, t, j, q)
    BY <1>3, <1>4, <1>5, <2>1, <2>2, ResetSound
  <2> QED
    BY <2>3, <2>4
<1>7. /\ Sound(lstate', st', im', rv')
      /\ round' \in RoundTypes /\ val' \in ValTypes
      /\ \A y \in Cards : st'[y] = "done" <=> t[y] = "done"
      /\ IF k = "running" THEN lstate' \in {"running", "needs_attention", "validating"}
         ELSE lstate' = k /\ st' = t
  <2>1. round \in RoundTypes /\ "none" \in ValTypes
    BY DEF IInv, OtherTypes
  <2> HIDE DEF k, t
  <2> QED
    BY <1>1, <1>6, <2>1, AdvanceSound
<1>8. OtherTypes'
  BY <1>1, <1>7, BoundAssumption DEF IInv, OtherTypes
<1>9. CASE lstate = "running"
  <2>1. lstate' \in {"running", "needs_attention", "validating"} /\ stage' = "none"
    BY <1>1, <1>7, <1>9 DEF IInv, StageHolds
  <2>2. merged' = {y \in Cards : st'[y] = "done"}
    BY <1>1, <1>6, <1>7, <1>9 DEF IInv, BranchHoldsDoneCards
  <2> QED
    BY <1>1, <1>7, <1>8, <2>1, <2>2
       DEF IInv, PlannerAlone, PlanIsFresh, StageHolds, BranchHoldsDoneCards
<1>10. CASE lstate # "running"
  <2>1. t = st
    BY <1>4, <1>10 DEF Reset, IInv, Sound
  <2>2. lstate' = k /\ st' = st
    BY <1>7, <1>10, <2>1
  <2>3. PlannerAlone' /\ PlanIsFresh' /\ StageHolds'
    BY <1>1, <2>2 DEF IInv, PlannerAlone, PlanIsFresh, StageHolds, Fresh
  <2>4. BranchHoldsDoneCards'
    BY <1>1, <2>2 DEF IInv, PlanIsFresh, BranchHoldsDoneCards, Fresh
  <2> QED
    BY <1>7, <1>8, <2>3, <2>4 DEF IInv
<1> QED
  BY <1>9, <1>10

-----------------------------------------------------------------------------
LEMMA InitIInv == Init => IInv
<1> SUFFICES ASSUME Init PROVE IInv
  OBVIOUS
<1>1. \A x \in Cards : st[x] = "absent" /\ ~WorksFor(im, rv, x)
  BY DEF Init, WorksFor, Reviewed
<1>2. Types(lstate, st, im, rv)
  BY DEF Init
<1>3. Sound(lstate, st, im, rv)
  BY <1>1, <1>2, UnstartedSound DEF Init, Has
<1>4. Fresh
  BY <1>1 DEF Init, Fresh
<1>5. round \in RoundTypes /\ cause \in [Cards -> BOOLEAN]
  BY BoundAssumption DEF Init
<1>6. 0 \in Nat /\ 0 \in 0 .. MaxOthers /\ 0 \in 0 .. MaxRestarts
  BY BoundAssumption
<1>7. OtherTypes
  BY <1>5, <1>6 DEF Init, OtherTypes
<1> QED
  BY <1>3, <1>4, <1>7 DEF Init, IInv, PlannerAlone, PlanIsFresh, StageHolds, BranchHoldsDoneCards, Fresh

LEMMA StutterStep == IInv /\ UNCHANGED vars => IInv'
BY DEF vars, cardVars, hostVars, IInv, OtherTypes, PlannerAlone, PlanIsFresh, StageHolds,
       BranchHoldsDoneCards, Fresh

LEMMA NextStep == IInv /\ [Next]_vars => IInv'
<1> SUFFICES ASSUME IInv, [Next]_vars PROVE IInv'
  OBVIOUS
<1>1. CASE Person
  BY <1>1, PlanSteps, CancelSteps, ResumeCardsStep DEF Person
<1>2. CASE \E x \in Cards : CardStep(x)
  BY <1>2, RunSteps, ReviewSteps DEF CardStep
<1>3. CASE UNCHANGED vars
  BY <1>3, StutterStep
<1> QED
  BY <1>1, <1>2, <1>3, PlanningSteps, CancelSteps, ValidationSteps, OtherSteps, RestartStep DEF Next

\* Every step of the host keeps the records of a loop, its sessions and the
\* work of its agents in agreement, whatever the threads' order.
THEOREM Inductive == Spec => []IInv
<1> QED
  BY InitIInv, NextStep, PTL DEF Spec

\* loop.json and the host's own records only ever hold the values of their
\* types; in particular no goal runs more than MaxRounds rounds.
THEOREM Typing == Spec => []TypeOK
BY Inductive, IInvTypes, PTL

\* The callbacks of runs and reviews, which carry nothing but the session, find
\* the card in the state the session left it in (_finish_loop_card_run and
\* _finish_loop_card_review).
THEOREM CallbacksFindCards == Spec => []CallbackFindsItsCard
<1>1. IInv => CallbackFindsItsCard
  BY DEF IInv, Sound, Agrees, Reviewed, CallbackFindsItsCard
<1> QED
  BY <1>1, Inductive, PTL

\* No two agents, implementers or reviewers, work for cards of one lane
\* (_advance_loop's lane rule), for every plan, retry, follow-up and restart.
THEOREM LanesAreExclusive == Spec => []OneAgentPerLane
<1>1. IInv => OneAgentPerLane
  BY DEF IInv, Sound, LaneExclusive, InHand, WorksFor, Reviewed, OneAgentPerLane, Working
<1> QED
  BY <1>1, Inductive, PTL

\* A loop reaches validation, and what follows it, only with its cards finished
\* and its agents gone (_advance_loop's last test, resume_loop's shortcut).
THEOREM ValidationSeesFinishedWork == Spec => []ValidatesFinishedWork
<1>1. IInv => ValidatesFinishedWork
  <2> SUFFICES ASSUME IInv, lstate \in {"validating", "awaiting_commit", "done"},
                      NEW x \in Cards
               PROVE  /\ ~Working(x)
                      /\ Has(st, x) => \/ st[x] \in {"done", "dropped"}
                                       \/ st[x] = "failed" /\ Has(st, FollowUp(x))
    BY DEF ValidatesFinishedWork
  <2>1. ~InHand(st, im, rv, x)
    BY WorkPlace
  <2>2. Finished(st)
    BY DEF IInv, Sound
  <2> QED
    BY <2>1, <2>2 DEF InHand, WorksFor, Reviewed, Working, Finished
<1> QED
  BY <1>1, Inductive, PTL

\* The loop branch holds the patches of the done cards and of no others
\* (integrate in _finish_loop_card_review).
THEOREM BranchIsTheDoneCards == Spec => []BranchHoldsDoneCards
<1>1. IInv => BranchHoldsDoneCards
  BY DEF IInv
<1> QED
  BY <1>1, Inductive, PTL
-----------------------------------------------------------------------------
(* The slots of the host.                                                   *)

TurnsOf(i) == {x \in Cards : i[x] \in {"turn", "blocked"}}
ReviewsOf(r) == {x \in Cards : r[x] = "active"}

LEMMA SetsOfCards ==
    ASSUME NEW S \in SUBSET Cards
    PROVE  IsFiniteSet(S) /\ Cardinality(S) \in Nat
BY CardsFinite, FS_Subset, FS_CardinalityType

LEMMA SmallerSet ==
    ASSUME NEW S \in SUBSET Cards, NEW T \in SUBSET S
    PROVE  Cardinality(T) <= Cardinality(S)
BY SetsOfCards, FS_Subset

LEMMA JoinedSets ==
    ASSUME NEW S \in SUBSET Cards, NEW T \in SUBSET Cards
    PROVE  Cardinality(S \cup T) <= Cardinality(S) + Cardinality(T)
<1>1. /\ IsFiniteSet(S) /\ IsFiniteSet(T)
      /\ Cardinality(S) \in Nat /\ Cardinality(T) \in Nat /\ Cardinality(S \cap T) \in Nat
  BY SetsOfCards
<1>2. Cardinality(S \cup T) = Cardinality(S) + Cardinality(T) - Cardinality(S \cap T)
  BY <1>1, FS_Union
<1> QED
  BY <1>1, <1>2

\* The slots in use, as numbers.
LEMMA SlotsUsed ==
    ASSUME NEW i, NEW r, NEW o \in Int
    PROVE  /\ ActiveIn(i, r, o) = o + Cardinality(TurnsOf(i)) + Cardinality(ReviewsOf(r))
           /\ ActiveIn(i, r, o) \in Int
           /\ Cardinality(TurnsOf(i)) \in Nat /\ Cardinality(ReviewsOf(r)) \in Nat
<1>1. Cardinality(TurnsOf(i)) \in Nat /\ Cardinality(ReviewsOf(r)) \in Nat
  BY SetsOfCards DEF TurnsOf, ReviewsOf
<1>2. ActiveIn(i, r, o) = o + Cardinality(TurnsOf(i)) + Cardinality(ReviewsOf(r))
  BY DEF ActiveIn, TurnsOf, ReviewsOf
<1> QED
  BY <1>1, <1>2

\* Turns and reviews that end free their slots.
LEMMA FewerSlots ==
    ASSUME NEW i, NEW r, NEW o \in Int, NEW j, NEW q, NEW n \in Int,
           TurnsOf(j) \subseteq TurnsOf(i), ReviewsOf(q) \subseteq ReviewsOf(r), n <= o
    PROVE  ActiveIn(j, q, n) <= ActiveIn(i, r, o)
<1>1. /\ Cardinality(TurnsOf(j)) <= Cardinality(TurnsOf(i))
      /\ Cardinality(ReviewsOf(q)) <= Cardinality(ReviewsOf(r))
  BY SmallerSet DEF TurnsOf, ReviewsOf
<1> QED
  BY <1>1, SlotsUsed

\* Turns of the cards of B and reviews of the cards of R take one slot each.
LEMMA MoreSlots ==
    ASSUME NEW i, NEW r, NEW o \in Int, NEW j, NEW q,
           NEW B \in SUBSET Cards, NEW R \in SUBSET Cards,
           TurnsOf(j) \subseteq TurnsOf(i) \cup B, ReviewsOf(q) \subseteq ReviewsOf(r) \cup R
    PROVE  ActiveIn(j, q, o) <= ActiveIn(i, r, o) + Cardinality(B) + Cardinality(R)
<1>1. /\ TurnsOf(i) \in SUBSET Cards /\ ReviewsOf(r) \in SUBSET Cards
      /\ TurnsOf(i) \cup B \in SUBSET Cards /\ ReviewsOf(r) \cup R \in SUBSET Cards
  BY DEF TurnsOf, ReviewsOf
<1>2. /\ Cardinality(TurnsOf(j)) <= Cardinality(TurnsOf(i) \cup B)
      /\ Cardinality(ReviewsOf(q)) <= Cardinality(ReviewsOf(r) \cup R)
  BY <1>1, SmallerSet
<1>3. /\ Cardinality(TurnsOf(i) \cup B) <= Cardinality(TurnsOf(i)) + Cardinality(B)
      /\ Cardinality(ReviewsOf(r) \cup R) <= Cardinality(ReviewsOf(r)) + Cardinality(R)
  BY <1>1, JoinedSets
<1>4. /\ Cardinality(TurnsOf(i) \cup B) \in Nat /\ Cardinality(ReviewsOf(r) \cup R) \in Nat
      /\ Cardinality(B) \in Nat /\ Cardinality(R) \in Nat
  BY <1>1, SetsOfCards
<1> QED
  BY <1>2, <1>3, <1>4, SlotsUsed

\* A new lane is begun only while a slot is free: of the first cards of the
\* lanes F, no more are begun than there are slots.
LEMMA BegunFit ==
    ASSUME NEW s, NEW F \in FirstReady(s), NEW n \in Nat
    PROVE  Cardinality({x \in F : Cardinality(LanesBefore(F, x)) < n}) <= n
<1> DEFINE B == {x \in F : Cardinality(LanesBefore(F, x)) < n}
           place == [x \in B |-> Cardinality(LanesBefore(F, x))]
<1>1. /\ F \in SUBSET Cards
      /\ \A x, y \in F : LaneOf(x) = LaneOf(y) => x = y
      /\ \A x \in F : LanesBefore(F, x) \in SUBSET F
      /\ \A x \in F : LaneOf(x) \in Nat
  <2>1. /\ F \in SUBSET Cards
        /\ \A x, y \in F : LaneOf(x) = LaneOf(y) => x = y
    BY FirstReadyFact
  <2>2. \A x \in Cards : LaneOf(x) \in Nat
    BY PlanAssumption DEF LaneOf, Cards
  <2>3. \A x \in F : LanesBefore(F, x) \in SUBSET F
    BY DEF LanesBefore
  <2> QED
    BY <2>1, <2>2, <2>3
<1>2. \A x \in F : IsFiniteSet(LanesBefore(F, x)) /\ Cardinality(LanesBefore(F, x)) \in Nat
  BY <1>1, SetsOfCards
<1>3. ASSUME NEW x \in F, NEW y \in F, LaneOf(x) < LaneOf(y)
      PROVE  Cardinality(LanesBefore(F, x)) < Cardinality(LanesBefore(F, y))
  <2>1. LanesBefore(F, x) \cup {x} \in SUBSET LanesBefore(F, y) /\ x \notin LanesBefore(F, x)
    BY <1>1, <1>3 DEF LanesBefore
  <2>2. Cardinality(LanesBefore(F, x) \cup {x}) = Cardinality(LanesBefore(F, x)) + 1
    BY <1>2, <2>1, FS_AddElement
  <2>3. Cardinality(LanesBefore(F, x) \cup {x}) <= Cardinality(LanesBefore(F, y))
    BY <1>1, <2>1, SmallerSet
  <2> QED
    BY <1>2, <2>2, <2>3
<1>4. \A x, y \in B : x # y => place[x] # place[y]
  <2> SUFFICES ASSUME NEW x \in B, NEW y \in B, x # y PROVE place[x] # place[y]
    OBVIOUS
  <2>1. x \in F /\ y \in F /\ (LaneOf(x) < LaneOf(y) \/ LaneOf(y) < LaneOf(x))
    BY <1>1
  <2>2. place[x] = Cardinality(LanesBefore(F, x)) /\ place[y] = Cardinality(LanesBefore(F, y))
    OBVIOUS
  <2> QED
    BY <1>2, <1>3, <2>1, <2>2
<1>5. IsFiniteSet(B) /\ Cardinality(B) \in Nat
  BY <1>1, SetsOfCards
<1>6. place \in [B -> 0 .. n - 1]
  BY <1>2
<1>7. IsFiniteSet(0 .. n - 1) /\ Cardinality(0 .. n - 1) = n
  BY FS_Interval
<1> HIDE DEF B, place
<1>8. ~(Cardinality(0 .. n - 1) < Cardinality(B))
  BY <1>4, <1>5, <1>6, <1>7, FS_PigeonHole
<1>9. Cardinality(B) <= n
  BY <1>5, <1>7, <1>8
<1> QED
  BY <1>9 DEF B

\* _advance_loop takes no more slots than are free, for reviews as for runs.
LEMMA AdvanceFits ==
    ASSUME NEW ls, NEW s, NEW i, NEW r, NEW v, NEW o \in Int,
           ActiveIn(i, r, o) <= MaxActive, Advance(ls, s, i, r, v, o)
    PROVE  ActiveIn(im', rv', o) <= MaxActive
<1>1. CASE ls # "running"
  BY <1>1 DEF Advance
<1>2. CASE ls = "running"
  <2>1. PICK R \in FirstReviews(s, i, r, o) :
          \/ \E x \in R : rv' = Reviewing(r, R \ {x}) /\ im' = Turning(i, {})
          \/ /\ rv' = Reviewing(r, R)
             /\ \E F \in FirstReady(s) :
                LET free == MaxActive - ActiveIn(i, Reviewing(r, R), o)
                    begun == {x \in F : Cardinality(LanesBefore(F, x)) < free}
                IN  \/ \E x \in begun : im' = Turning(i, LanesBefore(F, x))
                    \/ im' = Turning(i, begun)
    BY <1>2 DEF Advance, CannotStart, AllStart
  <2>2. R \in SUBSET Cards
    BY DEF FirstReviews
  <2>3. R = {} \/ Cardinality(R) <= MaxActive - ActiveIn(i, r, o)
    BY DEF FirstReviews
  <2>4. /\ ActiveIn(i, r, o) \in Int /\ ActiveIn(i, Reviewing(r, R), o) \in Int
        /\ ActiveIn(im', rv', o) \in Int /\ MaxActive \in Nat
    BY SlotsUsed, BoundAssumption
  <2>5. Cardinality(R) \in Nat /\ Cardinality({}) = 0
    BY <2>2, SetsOfCards, FS_EmptySet
  \* the reviews fit
  <2>6. ActiveIn(i, Reviewing(r, R), o) <= MaxActive
    <3>1. ReviewsOf(Reviewing(r, R)) \subseteq ReviewsOf(r) \cup R
      BY DEF ReviewsOf, Reviewing
    <3>2. ActiveIn(i, Reviewing(r, R), o) <= ActiveIn(i, r, o) + Cardinality({}) + Cardinality(R)
      BY <2>2, <3>1, MoreSlots
    <3>3. Cardinality(R) = 0 \/ Cardinality(R) <= MaxActive - ActiveIn(i, r, o)
      BY <2>3, <2>5
    <3> HIDE DEF ActiveIn
    <3>4. PICK a \in Int, b \in Int, c \in Nat :
            a = ActiveIn(i, r, o) /\ b = ActiveIn(i, Reviewing(r, R), o) /\ c = Cardinality(R)
      BY <2>4, <2>5
    <3>5. b <= a + 0 + c /\ (c = 0 \/ c <= MaxActive - a) /\ a <= MaxActive
      BY <2>5, <3>2, <3>3, <3>4
    <3>6. b <= MaxActive
      BY <2>4, <3>5
    <3> QED
      BY <3>4, <3>6
  <2>7. CASE \E x \in R : rv' = Reviewing(r, R \ {x}) /\ im' = Turning(i, {})
    <3>1. ReviewsOf(rv') \subseteq ReviewsOf(Reviewing(r, R)) /\ TurnsOf(im') \subseteq TurnsOf(i)
      BY <2>7 DEF ReviewsOf, TurnsOf, Reviewing, Turning
    <3>2. ActiveIn(im', rv', o) <= ActiveIn(i, Reviewing(r, R), o)
      BY <3>1, FewerSlots
    <3> QED
      BY <2>4, <2>6, <3>2
  <2>8. ASSUME rv' = Reviewing(r, R), NEW B \in SUBSET Cards, im' = Turning(i, B),
               Cardinality(B) <= MaxActive - ActiveIn(i, Reviewing(r, R), o)
        PROVE  ActiveIn(im', rv', o) <= MaxActive
    <3>1. TurnsOf(im') \subseteq TurnsOf(i) \cup B /\ ReviewsOf(rv') \subseteq ReviewsOf(rv') \cup {}
      BY <2>8 DEF TurnsOf, Turning
    <3>2. ActiveIn(im', rv', o) <= ActiveIn(i, rv', o) + Cardinality(B) + Cardinality({})
      BY <3>1, MoreSlots
    <3>3. Cardinality(B) \in Nat
      BY SetsOfCards
    <3> QED
      BY <2>4, <2>5, <2>8, <3>2, <3>3
  <2>9. ASSUME NEW F \in FirstReady(s)
        PROVE  LET free == MaxActive - ActiveIn(i, Reviewing(r, R), o)
                   begun == {x \in F : Cardinality(LanesBefore(F, x)) < free}
               IN  /\ begun \in SUBSET Cards /\ Cardinality(begun) <= free
                   /\ \A x \in begun : /\ LanesBefore(F, x) \in SUBSET Cards
                                       /\ Cardinality(LanesBefore(F, x)) <= free
    <3> DEFINE free == MaxActive - ActiveIn(i, Reviewing(r, R), o)
               begun == {x \in F : Cardinality(LanesBefore(F, x)) < free}
    <3>1. free \in Nat
      BY <2>4, <2>6
    <3>2. Cardinality(begun) <= free
      BY <3>1, BegunFit
    <3>3. F \in SUBSET Cards
      BY FirstReadyFact
    <3>4. \A x \in F : LanesBefore(F, x) \in SUBSET Cards
      BY <3>3 DEF LanesBefore
    <3>5. \A x \in F : Cardinality(LanesBefore(F, x)) \in Nat
      BY <3>4, SetsOfCards
    <3>6. begun \in SUBSET Cards
      BY <3>3
    <3> HIDE DEF free
    <3>7. \A x \in begun : Cardinality(LanesBefore(F, x)) <= free
      BY <3>1, <3>5
    <3> QED
      BY <3>2, <3>4, <3>6, <3>7 DEF free
  <2> QED
    BY <2>1, <2>7, <2>8, <2>9
<1> QED
  BY <1>1, <1>2

\* What the steps add to im and rv has its slot.
LEMMA SameSlots ==
    ASSUME NEW o \in Int, NEW n \in Int, ActiveIn(im, rv, o) <= MaxActive,
           TurnsOf(im') \subseteq TurnsOf(im), ReviewsOf(rv') \subseteq ReviewsOf(rv), n <= o
    PROVE  ActiveIn(im', rv', n) <= MaxActive
<1>1. ActiveIn(im', rv', n) <= ActiveIn(im, rv, o)
  BY FewerSlots
<1> QED
  BY <1>1, SlotsUsed, BoundAssumption

LEMMA ClosedTurns ==
    ASSUME NEW i
    PROVE  TurnsOf(CloseIdle(i)) = TurnsOf(i)
BY DEF TurnsOf, CloseIdle

LEMMA ClosedSlots ==
    ASSUME NEW q, NEW o \in Int, ActiveIn(im, rv, o) <= MaxActive, ReviewsOf(q) \subseteq ReviewsOf(rv)
    PROVE  ActiveIn(CloseIdle(im), q, o) <= MaxActive
<1>1. ActiveIn(CloseIdle(im), q, o) <= ActiveIn(im, rv, o)
  BY ClosedTurns, FewerSlots
<1>2. ActiveIn(CloseIdle(im), q, o) \in Int /\ ActiveIn(im, rv, o) \in Int /\ MaxActive \in Int
  BY SlotsUsed, BoundAssumption
<1> QED
  BY <1>1, <1>2

LEMMA CardSlots ==
    ASSUME IInv, SlotLimit, NEW x \in Cards, CardStep(x)
    PROVE  SlotLimit'
<1>1. /\ stale \in Nat /\ others \in Nat /\ MaxActive \in Nat
      /\ NotCards \in Int /\ ActiveIn(im, rv, NotCards) <= MaxActive
      /\ im \in ImTypes /\ rv \in RvTypes
  <2>1. stale \in Nat /\ others \in Nat /\ MaxActive \in Nat
    BY BoundAssumption DEF IInv, OtherTypes
  <2>2. NotCards \in Int
    BY <2>1 DEF NotCards
  <2>3. im \in ImTypes /\ rv \in RvTypes
    BY DEF IInv, Sound
  <2> QED
    BY <2>1, <2>2, <2>3 DEF SlotLimit, Active
<1>2. UNCHANGED <<pl, stale, others>>
  BY DEF CardStep, BlockGoal, TurnEnds, AfterTurn, CheckFinishes, CheckFails, ReviewEnds, ReviewDone,
         ReviewIgnored, ReviewRejected, IntegrationFails, ReviewAccepted, hostVars
<1>3. ActiveIn(im', rv', NotCards) <= MaxActive => SlotLimit'
  BY <1>2 DEF SlotLimit, Active, NotCards, ActiveIn
<1>4. ASSUME NEW j, NEW f, FinishRun(x, f, j), TurnsOf(j) \subseteq TurnsOf(im)
      PROVE  SlotLimit'
  <2>1. ActiveIn(j, rv, NotCards) <= MaxActive
    BY <1>1, <1>4, FewerSlots, SlotsUsed
  <2>2. CASE lstate = "cancelled"
    BY <1>1, <1>3, <1>4, <2>2, SameSlots DEF FinishRun
  <2>3. CASE lstate # "cancelled"
    BY <1>1, <1>3, <1>4, <2>1, <2>3, AdvanceFits DEF FinishRun
  <2> QED
    BY <2>2, <2>3
<1>5. ASSUME TurnsOf(im') \subseteq TurnsOf(im), ReviewsOf(rv') \subseteq ReviewsOf(rv)
      PROVE  SlotLimit'
  BY <1>1, <1>3, <1>5, SameSlots
<1>6. CASE BlockGoal(x)
  <2>1. FinishRun(x, FALSE, [im EXCEPT ![x] = "blocked"])
    BY <1>6 DEF BlockGoal
  <2>2. TurnsOf([im EXCEPT ![x] = "blocked"]) \subseteq TurnsOf(im)
    BY <1>1, <1>6 DEF BlockGoal, TurnsOf
  <2> QED
    BY <1>4, <2>1, <2>2
<1>7. CASE TurnEnds(x)
  <2>1. /\ im' = [im EXCEPT ![x] = "popped"] \/ im' = CloseIdle([im EXCEPT ![x] = "over"])
        /\ rv' = rv
    BY <1>7 DEF TurnEnds
  <2>2. /\ TurnsOf([im EXCEPT ![x] = "popped"]) \subseteq TurnsOf(im)
        /\ TurnsOf([im EXCEPT ![x] = "over"]) \subseteq TurnsOf(im)
    BY <1>1 DEF TurnsOf
  <2> QED
    BY <1>5, <2>1, <2>2, ClosedTurns
<1>8. CASE AfterTurn(x)
  <2>1. CASE im' = [im EXCEPT ![x] = "check"] /\ rv' = rv
    <3>1. TurnsOf(im') \subseteq TurnsOf(im)
      BY <1>1, <2>1 DEF TurnsOf
    <3> QED
      BY <1>5, <2>1, <3>1
  <2>2. CASE FinishRun(x, FALSE, CloseIdle(im))
    BY <1>4, <2>2, ClosedTurns
  <2> QED
    BY <1>8, <2>1, <2>2 DEF AfterTurn
<1>9. CASE CheckFinishes(x)
  <2>1. PICK f \in BOOLEAN : FinishRun(x, f, CloseIdle([im EXCEPT ![x] = "over"]))
    BY <1>9 DEF CheckFinishes
  <2>2. TurnsOf([im EXCEPT ![x] = "over"]) \subseteq TurnsOf(im)
    BY <1>1 DEF TurnsOf
  <2> QED
    BY <1>4, <2>1, <2>2, ClosedTurns
<1>10. CASE CheckFails(x)
  <2>1. CASE Active < MaxActive
    <3>1. im' = CloseIdle([im EXCEPT ![x] = "turn"]) /\ rv' = rv
      BY <1>10, <2>1 DEF CheckFails
    <3>2. TurnsOf(im') \subseteq TurnsOf(im) \cup {x} /\ ReviewsOf(rv') \subseteq ReviewsOf(rv) \cup {}
      <4>1. TurnsOf([im EXCEPT ![x] = "turn"]) \subseteq TurnsOf(im) \cup {x}
        BY <1>1 DEF TurnsOf
      <4> QED
        BY <3>1, <4>1, ClosedTurns
    <3>3. ActiveIn(im', rv', NotCards) <= ActiveIn(im, rv, NotCards) + Cardinality({x}) + Cardinality({})
      BY <1>1, <3>2, MoreSlots
    <3>4. Cardinality({x}) = 1 /\ Cardinality({}) = 0
      BY FS_Singleton, FS_EmptySet
    <3>5. ActiveIn(im', rv', NotCards) \in Int /\ ActiveIn(im, rv, NotCards) \in Int
      BY <1>1, SlotsUsed
    <3> QED
      BY <1>1, <1>3, <2>1, <3>3, <3>4, <3>5 DEF Active
  <2>2. CASE ~(Active < MaxActive)
    <3>1. im' = CloseIdle([im EXCEPT ![x] = "over"]) /\ rv' = rv
      BY <1>10, <2>2 DEF CheckFails
    <3>2. TurnsOf([im EXCEPT ![x] = "over"]) \subseteq TurnsOf(im)
      BY <1>1 DEF TurnsOf
    <3> QED
      BY <1>5, <3>1, <3>2, ClosedTurns
  <2> QED
    BY <2>1, <2>2
<1>11. CASE ReviewEnds(x) \/ ReviewIgnored(x) \/ ReviewRejected(x)
  <2>1. /\ im' \in {im, CloseIdle(im)}
        /\ rv' \in {[rv EXCEPT ![x] = "popped"], [rv EXCEPT ![x] = "over"]}
    BY <1>11 DEF ReviewEnds, ReviewIgnored, ReviewRejected
  <2>2. /\ ReviewsOf([rv EXCEPT ![x] = "popped"]) \subseteq ReviewsOf(rv)
        /\ ReviewsOf([rv EXCEPT ![x] = "over"]) \subseteq ReviewsOf(rv)
    BY <1>1 DEF ReviewsOf
  <2> QED
    BY <1>5, <2>1, <2>2, ClosedTurns
<1>12. CASE IntegrationFails(x)
  <2>1. PICK started \in BOOLEAN :
          /\ started => Active < MaxActive
          /\ \E ls, s : Advance(ls, s, CloseIdle(im),
                     [rv EXCEPT ![x] = IF started THEN "active" ELSE "over"], val, NotCards)
    BY <1>12 DEF IntegrationFails
  <2> DEFINE q == [rv EXCEPT ![x] = IF started THEN "active" ELSE "over"]
  <2>2. ActiveIn(CloseIdle(im), q, NotCards) <= MaxActive
    <3>1. CASE started
      <4>1. ReviewsOf(q) \subseteq ReviewsOf(rv) \cup {x} /\ TurnsOf(CloseIdle(im)) \subseteq TurnsOf(im) \cup {}
        BY <1>1, ClosedTurns DEF ReviewsOf
      <4>2. ActiveIn(CloseIdle(im), q, NotCards)
              <= ActiveIn(im, rv, NotCards) + Cardinality({}) + Cardinality({x})
        BY <1>1, <4>1, MoreSlots
      <4>3. Cardinality({x}) = 1 /\ Cardinality({}) = 0
        BY FS_Singleton, FS_EmptySet
      <4>4. ActiveIn(CloseIdle(im), q, NotCards) \in Int /\ ActiveIn(im, rv, NotCards) \in Int
        BY <1>1, SlotsUsed
      <4> QED
        BY <1>1, <2>1, <3>1, <4>2, <4>3, <4>4 DEF Active
    <3>2. CASE ~started
      <4>1. ReviewsOf(q) \subseteq ReviewsOf(rv)
        BY <1>1, <3>2 DEF ReviewsOf
      <4> HIDE DEF q
      <4> QED
        BY <1>1, <4>1, ClosedSlots
    <3> QED
      BY <3>1, <3>2
  <2> HIDE DEF q
  <2>3. PICK ls, s : Advance(ls, s, CloseIdle(im), q, val, NotCards)
    BY <2>1 DEF q
  <2> QED
    BY <1>1, <1>3, <2>2, <2>3, AdvanceFits
<1>13. CASE ReviewAccepted(x)
  <2> DEFINE q == [rv EXCEPT ![x] = "over"]
  <2>1. \/ \E s : Advance(lstate, s, CloseIdle(im), q, val, NotCards)
        \/ im' = CloseIdle(im) /\ rv' = q
    BY <1>13 DEF ReviewAccepted
  <2>2. ReviewsOf(q) \subseteq ReviewsOf(rv)
    BY <1>1 DEF ReviewsOf
  <2> HIDE DEF q
  <2>3. ActiveIn(CloseIdle(im), q, NotCards) <= MaxActive
    BY <1>1, <2>2, ClosedSlots
  <2> QED
    BY <1>1, <1>3, <2>1, <2>3, AdvanceFits
<1> QED
  BY <1>6, <1>7, <1>8, <1>9, <1>10, <1>11, <1>12, <1>13 DEF CardStep, ReviewDone

LEMMA ResumeSlots ==
    ASSUME IInv, SlotLimit, ResumeCards
    PROVE  SlotLimit'
<1> DEFINE Z == {x \in Cards : st[x] = "failed" /\ ~Has(st, FollowUp(x))}
           given == {x \in Z : rv[x] = "active"}
           j == Reset(im, Z, "none")
           q == Reset(rv, Z, "none")
           o == NotCards - stale + stale'
<1>1. /\ stale' = stale + Cardinality(given)
      /\ \E ls, s : Advance(ls, s, j, q, val, o)
      /\ UNCHANGED <<pl, others>>
  BY DEF ResumeCards
<1>2. stale \in Nat /\ others \in Nat /\ MaxActive \in Nat /\ given \in SUBSET Cards
  BY BoundAssumption DEF IInv, OtherTypes
<1>3. Cardinality(given) \in Nat /\ IsFiniteSet(given)
  BY <1>2, SetsOfCards
<1>4. /\ NotCards \in Int /\ o = NotCards + Cardinality(given) /\ o \in Int
  BY <1>1, <1>2, <1>3 DEF NotCards
<1>5. /\ given \subseteq ReviewsOf(rv) /\ TurnsOf(j) \subseteq TurnsOf(im)
      /\ ReviewsOf(q) = ReviewsOf(rv) \ given
  BY DEF ReviewsOf, TurnsOf, Reset
<1> HIDE DEF Z, given, j, q
<1>6. Cardinality(ReviewsOf(q)) + Cardinality(given) = Cardinality(ReviewsOf(rv))
  <2>1. ReviewsOf(q) \cup given = ReviewsOf(rv) /\ ReviewsOf(q) \cap given = {}
    BY <1>5
  <2>2. ReviewsOf(q) \in SUBSET Cards
    BY DEF ReviewsOf
  <2>3. IsFiniteSet(ReviewsOf(q)) /\ Cardinality(ReviewsOf(q)) \in Nat
    BY <2>2, SetsOfCards
  <2>4. Cardinality(ReviewsOf(rv)) = Cardinality(ReviewsOf(q)) + Cardinality(given) - Cardinality({})
    BY <1>3, <2>1, <2>3, FS_Union
  <2> QED
    BY <1>3, <2>3, <2>4, FS_EmptySet
<1>7. Cardinality(TurnsOf(j)) <= Cardinality(TurnsOf(im))
  BY <1>5, SmallerSet DEF TurnsOf
<1>8. ActiveIn(im, rv, NotCards) <= MaxActive
  BY DEF SlotLimit, Active
<1> HIDE DEF o
<1>9. ActiveIn(j, q, o) <= MaxActive
  BY <1>2, <1>3, <1>4, <1>6, <1>7, <1>8, SlotsUsed
<1>10. ActiveIn(im', rv', o) <= MaxActive
  BY <1>1, <1>4, <1>9, AdvanceFits
<1>11. NotCards' = o
  BY <1>1, <1>2, <1>3 DEF NotCards, o
<1> QED
  BY <1>10, <1>11 DEF SlotLimit, Active, ActiveIn

LEMMA SlotStep ==
    ASSUME IInv, SlotLimit, [Next]_vars
    PROVE  SlotLimit'
<1>1. /\ stale \in Nat /\ others \in Nat /\ MaxActive \in Nat /\ MaxActive > 0
      /\ NotCards \in Int /\ ActiveIn(im, rv, NotCards) <= MaxActive
  <2>1. stale \in Nat /\ others \in Nat /\ MaxActive \in Nat /\ MaxActive > 0
    BY BoundAssumption DEF IInv, OtherTypes
  <2> QED
    BY <2>1 DEF NotCards, SlotLimit, Active
<1>2. ASSUME TurnsOf(im') \subseteq TurnsOf(im), ReviewsOf(rv') \subseteq ReviewsOf(rv),
             NotCards' \in Int, NotCards' <= NotCards
      PROVE  SlotLimit'
  <2>1. ActiveIn(im', rv', NotCards') <= MaxActive
    BY <1>1, <1>2, SameSlots
  <2> QED
    BY <2>1 DEF SlotLimit, Active, ActiveIn
<1>3. CASE \E x \in Cards : CardStep(x)
  BY <1>3, CardSlots
<1>4. CASE ApprovePlan
  <2>1. Advance("running", st, im, rv, val, NotCards) /\ UNCHANGED <<pl, stale, others>>
    BY <1>4 DEF ApprovePlan
  <2>2. ActiveIn(im', rv', NotCards) <= MaxActive
    BY <1>1, <2>1, AdvanceFits
  <2> QED
    BY <2>1, <2>2 DEF SlotLimit, Active, NotCards, ActiveIn
<1>5. CASE RevisePlan \/ ResumePlanning
  <2>1. /\ UNCHANGED <<im, rv, stale, others>>
        /\ pl' = pl \/ (pl' = "active" /\ Active < MaxActive)
    BY <1>5 DEF RevisePlan, ResumePlanning, cardVars
  <2>2. NotCards' \in Int /\ (NotCards' <= NotCards \/ (NotCards' <= NotCards + 1 /\ Active < MaxActive))
    BY <1>1, <2>1 DEF NotCards
  <2>3. CASE NotCards' <= NotCards
    BY <1>2, <2>1, <2>2, <2>3
  <2>4. CASE NotCards' <= NotCards + 1 /\ Active < MaxActive
    <3>1. ActiveIn(im, rv, NotCards') <= ActiveIn(im, rv, NotCards) + 1
      BY <1>1, <2>2, <2>4, SlotsUsed
    <3>2. ActiveIn(im, rv, NotCards') \in Int /\ ActiveIn(im, rv, NotCards) \in Int
      BY <1>1, <2>2, SlotsUsed
    <3>3. ActiveIn(im, rv, NotCards') <= MaxActive
      BY <1>1, <2>4, <3>1, <3>2 DEF Active
    <3> QED
      BY <2>1, <3>3 DEF SlotLimit, Active, ActiveIn
  <2> QED
    BY <2>2, <2>3, <2>4
<1>6. CASE SavePlan
  <2>1. /\ TurnsOf(im') \subseteq TurnsOf(im) /\ ReviewsOf(rv') \subseteq ReviewsOf(rv)
    BY <1>6 DEF SavePlan, TurnsOf, ReviewsOf, cardVars
  <2>2. NotCards' \in Int /\ NotCards' <= NotCards
    BY <1>1, <1>6 DEF SavePlan, NotCards
  <2> QED
    BY <1>2, <2>1, <2>2
<1>7. CASE PlannerEnds \/ LoadPlan
  <2>1. NotCards' \in Int /\ NotCards' <= NotCards /\ UNCHANGED <<im, rv>>
    BY <1>1, <1>7 DEF PlannerEnds, LoadPlan, NotCards, cardVars
  <2> QED
    BY <1>2, <2>1
<1>8. CASE DropCards \/ CancelBegin \/ CommitLoop \/ Cancelling \/ Validation \/ UNCHANGED vars
  <2>1. UNCHANGED <<im, rv, pl, stale, others>>
    BY <1>8 DEF DropCards, CancelBegin, CommitLoop, Cancelling, CancelTearDown, CancelFails,
                CancelFinish, Validation, ValidationDecides, ValidationCancelled, ValidationGone,
                vars, cardVars, hostVars
  <2> QED
    BY <1>1, <1>2, <2>1 DEF NotCards
<1>9. CASE OtherStarts
  <2>1. UNCHANGED <<im, rv, pl, stale>> /\ others' = others + 1 /\ Active < MaxActive
    BY <1>9 DEF OtherStarts, cardVars
  <2>2. NotCards' \in Int /\ NotCards' = NotCards + 1
    BY <1>1, <2>1 DEF NotCards
  <2>3. ActiveIn(im, rv, NotCards') = ActiveIn(im, rv, NotCards) + 1 /\ ActiveIn(im, rv, NotCards) \in Int
    BY <1>1, <2>2, SlotsUsed
  <2>4. ActiveIn(im, rv, NotCards') <= MaxActive
    BY <1>1, <2>1, <2>3 DEF Active
  <2> QED
    BY <2>1, <2>4 DEF SlotLimit, Active, ActiveIn
<1>10. CASE OtherEnds \/ StaleReviewEnds
  <2>1. /\ im' = CloseIdle(im) /\ UNCHANGED <<rv, pl>>
        /\ \/ others' = others - 1 /\ stale' = stale
           \/ others' = others /\ stale' = stale - 1
    BY <1>10 DEF OtherEnds, StaleReviewEnds
  <2>2. NotCards' \in Int /\ NotCards' <= NotCards
    BY <1>1, <2>1 DEF NotCards
  <2> QED
    BY <1>2, <2>1, <2>2, ClosedTurns
<1>11. CASE Restart
  <2>1. PICK Z \in SUBSET Cards :
          /\ \E ls, s : Advance(ls, s, [x \in Cards |-> IF x \in Z \/ im[x] = "none" THEN "none" ELSE "over"],
                     [x \in Cards |-> IF x \in Z \/ rv[x] = "none" THEN "none" ELSE "over"], "none", 0)
          /\ pl' = "none" /\ stale' = 0 /\ others' = 0
    <3>1. (IF lstate = "running" THEN {x \in Cards : st[x] \in {"running", "review"}} ELSE {}) \in SUBSET Cards
      OBVIOUS
    <3> QED
      BY <1>11, <3>1, Zenon DEF Restart
  <2> DEFINE j == [x \in Cards |-> IF x \in Z \/ im[x] = "none" THEN "none" ELSE "over"]
             q == [x \in Cards |-> IF x \in Z \/ rv[x] = "none" THEN "none" ELSE "over"]
  <2>2. TurnsOf(j) = {} /\ ReviewsOf(q) = {}
    BY DEF TurnsOf, ReviewsOf
  <2> HIDE DEF j, q
  <2>3. ActiveIn(j, q, 0) = 0
    <3>1. ActiveIn(j, q, 0) = 0 + Cardinality(TurnsOf(j)) + Cardinality(ReviewsOf(q))
      BY SlotsUsed
    <3> QED
      BY <2>2, <3>1, FS_EmptySet
  <2>4. ActiveIn(j, q, 0) <= MaxActive
    BY <1>1, <2>3
  <2>5. ActiveIn(im', rv', 0) <= MaxActive
    BY <2>1, <2>4, AdvanceFits DEF j, q
  <2>6. NotCards' = 0
    BY <2>1 DEF NotCards
  <2> QED
    BY <2>5, <2>6 DEF SlotLimit, Active, ActiveIn
<1>12. CASE ResumeCards
  BY <1>12, ResumeSlots
<1> QED
  BY <1>3, <1>4, <1>5, <1>6, <1>7, <1>8, <1>9, <1>10, <1>11, <1>12 DEF Next, Planning, Person

LEMMA InitSlots == Init => SlotLimit
<1> SUFFICES ASSUME Init PROVE SlotLimit
  OBVIOUS
<1>1. TurnsOf(im) = {} /\ ReviewsOf(rv) = {}
  BY DEF Init, TurnsOf, ReviewsOf
<1>2. NotCards \in {0, 1}
  BY DEF Init, NotCards
<1>3. ActiveIn(im, rv, NotCards) = NotCards
  <2>1. NotCards \in Int
    BY <1>2
  <2>2. ActiveIn(im, rv, NotCards) = NotCards + Cardinality(TurnsOf(im)) + Cardinality(ReviewsOf(rv))
    BY <2>1, SlotsUsed
  <2> QED
    BY <1>1, <2>1, <2>2, FS_EmptySet
<1> QED
  BY <1>2, <1>3, BoundAssumption DEF SlotLimit, Active

\* However planners, turns, reviews, retries and other conversations compete,
\* no more than MAX_ACTIVE_CONVERSATIONS are active: every way to start one
\* counts those that are, and _advance_loop counts what it has begun itself.
THEOREM SlotsAreLimited == Spec => []SlotLimit
<1>1. IInv /\ SlotLimit /\ [Next]_vars => SlotLimit'
  BY SlotStep
<1> QED
  BY <1>1, InitSlots, Inductive, PTL DEF Spec
-----------------------------------------------------------------------------
(* Dependencies.                                                            *)

Progress == {"running", "review", "done", "failed"}
ConcludedIn(s, d) ==
    \E n \in 0 .. FollowUps : /\ s[<<d, n>>] = "done"
                              /\ \A m \in (n + 1) .. FollowUps : ~Has(s, <<d, m>>)
OrderKept(s) ==
    \A c \in Plan : s[<<c, 0>>] \in Progress => \A d \in After[c] : ConcludedIn(s, d)
Chained(s) == \A x \in Cards : Has(s, FollowUp(x)) => s[x] \in {"done", "failed"}
Moved(s, t) ==
    /\ \A x \in Cards : s[x] = "done" => t[x] = "done"
    /\ \A x \in Cards : Has(t, FollowUp(x)) /\ ~Has(s, FollowUp(x)) => Has(s, x) /\ s[x] # "done"
    /\ \A c \in Plan : t[<<c, 0>>] \in Progress => s[<<c, 0>>] \in Progress \/ Ready(s, <<c, 0>>)

\* A set of numbers between a and b has a last one, and a first one.
LEMMA LastOne ==
    ASSUME NEW a \in Int, NEW b \in Int, NEW L \in SUBSET (a .. b), a \in L
    PROVE  \E n \in L : n + 1 \notin L
<1> SUFFICES ASSUME \A n \in L : n + 1 \in L PROVE FALSE
  OBVIOUS
<1> DEFINE up == [n \in L |-> n + 1]
<1>1. IsFiniteSet(L)
  BY FS_Interval, FS_Subset
<1>2. /\ IsFiniteSet(L \ {a}) /\ Cardinality(L \ {a}) = Cardinality(L) - 1
      /\ Cardinality(L) \in Nat
  BY <1>1, FS_RemoveElement, FS_CardinalityType
<1>3. up \in [L -> L \ {a}] /\ \A n, m \in L : up[n] = up[m] => n = m
  OBVIOUS
<1>4. PICK T : T = L \ {a}
  OBVIOUS
<1>5. IsFiniteSet(T) /\ Cardinality(T) < Cardinality(L)
  BY <1>2, <1>4
<1> HIDE DEF up
<1>6. up \in [L -> T]
  BY <1>3, <1>4
<1>7. \E n, m \in L : n # m /\ up[n] = up[m]
  BY <1>1, <1>5, <1>6, FS_PigeonHole
<1> QED
  BY <1>3, <1>7

LEMMA FirstOne ==
    ASSUME NEW a \in Int, NEW b \in Int, NEW L \in SUBSET (a .. b), b \in L
    PROVE  \E n \in L : n - 1 \notin L
<1> SUFFICES ASSUME \A n \in L : n - 1 \in L PROVE FALSE
  OBVIOUS
<1> DEFINE down == [n \in L |-> n - 1]
<1>1. IsFiniteSet(L)
  BY FS_Interval, FS_Subset
<1>2. /\ IsFiniteSet(L \ {b}) /\ Cardinality(L \ {b}) = Cardinality(L) - 1
      /\ Cardinality(L) \in Nat
  BY <1>1, FS_RemoveElement, FS_CardinalityType
<1>3. down \in [L -> L \ {b}] /\ \A n, m \in L : down[n] = down[m] => n = m
  OBVIOUS
<1>4. PICK T : T = L \ {b}
  OBVIOUS
<1>5. IsFiniteSet(T) /\ Cardinality(T) < Cardinality(L)
  BY <1>2, <1>4
<1> HIDE DEF down
<1>6. down \in [L -> T]
  BY <1>3, <1>4
<1>7. \E n, m \in L : n # m /\ down[n] = down[m]
  BY <1>1, <1>5, <1>6, FS_PigeonHole
<1> QED
  BY <1>3, <1>7

\* The dependencies of a ready card of the plan are concluded: the walk of
\* dependency_done down the chain of follow-ups ends at a done card.
LEMMA ReadyMeansConcluded ==
    ASSUME NEW s \in StTypes, Chained(s), NEW c \in Plan, Ready(s, <<c, 0>>), NEW d \in After[c]
    PROVE  ConcludedIn(s, d)
<1> DEFINE N == {n \in 0 .. FollowUps : \A m \in 1 .. n : Has(s, <<d, m>>)}
<1>1. d \in Plan /\ FollowUps \in Nat
  BY PlanAssumption, BoundAssumption
<1>2. \A n \in N : Settled(s, <<d, n>>)
  <2>1. DependencyDone(s, <<d, 0>>, <<c, 0>>)
    BY DEF Ready, AfterOf
  <2>2. \A n \in 0 .. FollowUps :
           (\A m \in 1 .. n : Has(s, <<d, m>>) /\ <<d, m>> # <<c, 0>>) => Settled(s, <<d, n>>)
    BY <2>1 DEF DependencyDone
  <2>3. \A m \in Nat : m > 0 => <<d, m>> # <<c, 0>>
    OBVIOUS
  <2> QED
    BY <1>1, <2>2, <2>3
<1>3. PICK n \in N : n + 1 \notin N
  <2>1. N \in SUBSET (0 .. FollowUps) /\ 0 \in N
    BY <1>1
  <2>2. 0 \in Int /\ FollowUps \in Int
    BY <1>1
  <2> HIDE DEF N
  <2> QED
    BY <2>1, <2>2, LastOne
<1>4. n \in 0 .. FollowUps /\ ~Has(s, <<d, n + 1>>)
  <2>1. ASSUME Has(s, <<d, n + 1>>) PROVE FALSE
    <3>1. n + 1 \in 0 .. FollowUps
      BY <1>1, <2>1 DEF Has, Cards
    <3>2. \A m \in 1 .. n + 1 : Has(s, <<d, m>>)
      <4>1. \A m \in 1 .. n + 1 : m \in 1 .. n \/ m = n + 1
        BY <1>1
      <4> QED
        BY <2>1, <4>1
    <3> QED
      BY <1>3, <3>1, <3>2
  <2> QED
    BY <2>1
<1>5. s[<<d, n>>] = "done"
  BY <1>2, <1>3, <1>4 DEF Settled, FollowUp
<1>6. ASSUME NEW m \in (n + 1) .. FollowUps, Has(s, <<d, m>>) PROVE FALSE
  <2> DEFINE L == {j \in (n + 1) .. m : Has(s, <<d, j>>)}
  <2>1. n + 1 \in Int /\ m \in Int /\ m \in L
    BY <1>1, <1>6
  <2>2. PICK j \in L : j - 1 \notin L
    <3>1. L \in SUBSET ((n + 1) .. m)
      OBVIOUS
    <3> HIDE DEF L
    <3> QED
      BY <2>1, <3>1, FirstOne
  <2>3. j \in (n + 1) .. m /\ Has(s, <<d, j>>) /\ j # n + 1
    BY <1>4, <2>2
  <2>4. j - 1 \in (n + 1) .. m /\ j - 1 \in 0 .. FollowUps /\ (j - 1) + 1 = j
    BY <1>1, <1>4, <2>3
  <2>5. <<d, j - 1>> \in Cards /\ FollowUp(<<d, j - 1>>) = <<d, j>>
    BY <1>1, <2>4 DEF Cards, FollowUp
  <2>6. s[<<d, j - 1>>] \in {"done", "failed"}
    BY <2>3, <2>5 DEF Chained
  <2>7. Has(s, <<d, j - 1>>)
    BY <2>5, <2>6 DEF Has
  <2> QED
    BY <2>2, <2>4, <2>7
<1> QED
  BY <1>4, <1>5, <1>6 DEF ConcludedIn

\* Cards that stay done, and follow-ups only of cards that were not done, keep
\* what is concluded.
LEMMA OrderMoved ==
    ASSUME NEW s \in StTypes, NEW t \in StTypes, Chained(s), OrderKept(s),
           Moved(s, t)
    PROVE  OrderKept(t)
<1> SUFFICES ASSUME NEW c \in Plan, t[<<c, 0>>] \in Progress, NEW d \in After[c]
             PROVE  ConcludedIn(t, d)
  BY DEF OrderKept
<1>1. d \in Plan /\ FollowUps \in Nat
  BY PlanAssumption, BoundAssumption
<1>2. ConcludedIn(s, d)
  BY ReadyMeansConcluded DEF OrderKept, Moved
<1>3. PICK n \in 0 .. FollowUps : /\ s[<<d, n>>] = "done"
                                  /\ \A m \in (n + 1) .. FollowUps : ~Has(s, <<d, m>>)
  BY <1>2 DEF ConcludedIn
<1>4. t[<<d, n>>] = "done"
  BY <1>1, <1>3 DEF Cards, Moved
<1>5. ASSUME NEW m \in (n + 1) .. FollowUps, Has(t, <<d, m>>) PROVE FALSE
  <2>1. m - 1 \in 0 .. FollowUps /\ (m - 1) + 1 = m /\ (m - 1 = n \/ m - 1 \in (n + 1) .. FollowUps)
    BY <1>1
  <2>2. <<d, m - 1>> \in Cards /\ FollowUp(<<d, m - 1>>) = <<d, m>>
    BY <1>1, <2>1 DEF Cards, FollowUp
  <2>3. Has(s, <<d, m - 1>>) /\ s[<<d, m - 1>>] # "done"
    BY <1>3, <1>5, <2>2 DEF Moved
  <2> QED
    BY <1>3, <2>1, <2>3
<1> QED
  BY <1>4, <1>5 DEF ConcludedIn

\* _advance_loop starts ready cards and fails reviewed ones.
LEMMA AdvanceMoves ==
    ASSUME NEW ls, NEW s \in StTypes, NEW i, NEW r, NEW v, NEW o, Advance(ls, s, i, r, v, o)
    PROVE  /\ st' \in StTypes
           /\ \A x \in Cards : \/ st'[x] = s[x]
                               \/ s[x] = "review" /\ st'[x] = "failed"
                               \/ Ready(s, x) /\ st'[x] \in {"running", "failed"}
<1>1. CASE ls # "running"
  BY <1>1 DEF Advance
<1>2. CASE ls = "running"
  <2>1. PICK R \in FirstReviews(s, i, r, o) :
          \/ \E x \in R : st' = [Running(s, {}) EXCEPT ![x] = "failed"]
          \/ \E F \in FirstReady(s) :
                \/ \E x \in F : st' = [Running(s, LanesBefore(F, x)) EXCEPT ![x] = "failed"]
                \/ \E B \in SUBSET F : st' = Running(s, B)
    BY <1>2 DEF Advance, CannotStart, AllStart
  <2>2. \A x \in R : x \in Cards /\ s[x] = "review"
    BY DEF FirstReviews
  <2>3. \A F \in FirstReady(s) : \A x \in F : x \in Cards /\ Ready(s, x)
    BY DEF FirstReady
  <2>4. \A F : \A x \in F : LanesBefore(F, x) \in SUBSET F
    BY DEF LanesBefore
  <2>5. ASSUME NEW B \in SUBSET Cards, \A x \in B : Ready(s, x)
        PROVE  /\ Running(s, B) \in StTypes
               /\ \A x \in Cards : \/ Running(s, B)[x] = s[x]
                                   \/ Ready(s, x) /\ Running(s, B)[x] = "running"
    BY <2>5 DEF Running, StTypes, CardStates
  <2>6. CASE \E x \in R : st' = [Running(s, {}) EXCEPT ![x] = "failed"]
    BY <2>2, <2>6 DEF Running, StTypes, CardStates
  <2>7. CASE \E F \in FirstReady(s) : \E x \in F :
               st' = [Running(s, LanesBefore(F, x)) EXCEPT ![x] = "failed"]
    <3>0. PICK F \in FirstReady(s) :
             \E x \in F : st' = [Running(s, LanesBefore(F, x)) EXCEPT ![x] = "failed"]
      BY <2>7
    <3>1. PICK x \in F : st' = [Running(s, LanesBefore(F, x)) EXCEPT ![x] = "failed"]
      BY <3>0
    <3>2. LanesBefore(F, x) \in SUBSET Cards /\ \A y \in LanesBefore(F, x) : Ready(s, y)
      BY <2>3, <2>4
    <3>3. PICK t : t = Running(s, LanesBefore(F, x))
      OBVIOUS
    <3>4. t \in StTypes /\ \A y \in Cards : t[y] = s[y] \/ (Ready(s, y) /\ t[y] = "running")
      BY <2>5, <3>2, <3>3
    <3>5. st' = [t EXCEPT ![x] = "failed"] /\ x \in Cards /\ Ready(s, x)
      BY <2>3, <3>1, <3>3
    <3> QED
      BY <3>4, <3>5 DEF StTypes, CardStates
  <2>8. CASE \E F \in FirstReady(s) : \E B \in SUBSET F : st' = Running(s, B)
    <3>0. PICK F \in FirstReady(s) : \E B \in SUBSET F : st' = Running(s, B)
      BY <2>8
    <3>1. PICK B \in SUBSET F : st' = Running(s, B)
      BY <3>0
    <3>2. B \in SUBSET Cards /\ \A y \in B : Ready(s, y)
      BY <2>3
    <3> QED
      BY <2>5, <3>1, <3>2
  <2> QED
    BY <2>1, <2>6, <2>7, <2>8
<1> QED
  BY <1>1, <1>2

LEMMA OrderAdvanced ==
    ASSUME IInv, OrderKept(st),
           NEW ls, NEW s \in StTypes, NEW i, NEW r, NEW v, NEW o,
           Chained(s), Moved(st, s), Advance(ls, s, i, r, v, o)
    PROVE  OrderKept(st')
<1>1. st \in StTypes /\ Chained(st)
  BY DEF IInv, Sound, Types, Replaced, Chained
<1>2. OrderKept(s)
  BY <1>1, OrderMoved
<1>3. /\ st' \in StTypes
      /\ \A x \in Cards : \/ st'[x] = s[x]
                          \/ s[x] = "review" /\ st'[x] = "failed"
                          \/ Ready(s, x) /\ st'[x] \in {"running", "failed"}
  BY AdvanceMoves
<1>4. \A x \in Cards : Has(st', x) => Has(s, x)
  BY <1>3 DEF Has, Ready
<1>5. \A c \in Plan : <<c, 0>> \in Cards
  BY BoundAssumption DEF Cards
<1>6. Moved(s, st')
  <2>1. \A x \in Cards : s[x] = "done" => st'[x] = "done"
    BY <1>3 DEF Ready
  <2>2. \A x : Has(st', x) => Has(s, x)
    BY <1>4 DEF Has
  <2>3. \A c \in Plan : st'[<<c, 0>>] \in Progress => s[<<c, 0>>] \in Progress \/ Ready(s, <<c, 0>>)
    BY <1>3, <1>5 DEF Progress
  <2> QED
    BY <2>1, <2>2, <2>3 DEF Moved
<1> QED
  BY <1>2, <1>3, <1>6, OrderMoved

\* A card in progress moves on, while nothing follows it.
LEMMA OneMoves ==
    ASSUME IInv, NEW x \in Cards, st[x] \in {"running", "review", "failed"},
           ~Has(st, FollowUp(x)), NEW w \in {"review", "failed", "done"},
           NEW s, s = [st EXCEPT ![x] = w]
    PROVE  s \in StTypes /\ Chained(s) /\ Moved(st, s)
<1>1. st \in StTypes /\ Chained(st)
  BY DEF IInv, Sound, Types, Replaced, Chained
<1>2. s \in StTypes /\ \A y \in Cards : s[y] = IF y = x THEN w ELSE st[y]
  BY <1>1 DEF StTypes, CardStates
<1>3. \A y : Has(s, y) <=> Has(st, y)
  BY <1>2 DEF Has
<1>4. \A c \in Plan : <<c, 0>> \in Cards
  BY BoundAssumption DEF Cards
<1>5. Chained(s)
  BY <1>1, <1>2, <1>3 DEF Chained
<1>6. Moved(st, s)
  BY <1>2, <1>3, <1>4 DEF Moved, Progress
<1> QED
  BY <1>2, <1>5, <1>6

\* Cards are planned again.
LEMMA ResetMoves ==
    ASSUME IInv, NEW Z \in SUBSET Cards,
           \A x \in Z : st[x] \in {"running", "review", "failed"} /\ ~Has(st, FollowUp(x))
    PROVE  LET s == Reset(st, Z, "planned") IN s \in StTypes /\ Chained(s) /\ Moved(st, s)
<1>1. st \in StTypes /\ Chained(st)
  BY DEF IInv, Sound, Types, Replaced, Chained
<1>2. PICK s : s = Reset(st, Z, "planned")
  OBVIOUS
<1>3. s \in StTypes /\ \A y \in Cards : s[y] = IF y \in Z THEN "planned" ELSE st[y]
  BY <1>1, <1>2 DEF StTypes, CardStates, Reset
<1>4. \A y : Has(s, y) <=> Has(st, y)
  BY <1>3 DEF Has
<1>5. \A c \in Plan : <<c, 0>> \in Cards
  BY BoundAssumption DEF Cards
<1>6. Chained(s)
  BY <1>1, <1>3, <1>4 DEF Chained
<1>7. Moved(st, s)
  BY <1>3, <1>4, <1>5 DEF Moved, Progress
<1> QED
  BY <1>2, <1>3, <1>6, <1>7

LEMMA SameMoves ==
    ASSUME IInv
    PROVE  st \in StTypes /\ Chained(st) /\ Moved(st, st)
BY DEF IInv, Sound, Types, Replaced, Chained, Moved

LEMMA FreshOrder ==
    ASSUME \A x \in Cards : st'[x] \in {"absent", "planned", "dropped"}
    PROVE  OrderKept(st')
<1>1. \A c \in Plan : <<c, 0>> \in Cards
  BY BoundAssumption DEF Cards
<1> QED
  BY <1>1 DEF OrderKept, Progress

LEMMA CardOrder ==
    ASSUME IInv, OrderKept(st), NEW x \in Cards, CardStep(x)
    PROVE  OrderKept(st')
<1>1. ASSUME NEW j, NEW f, FinishRun(x, f, j), im[x] \in {"turn", "popped", "check"}
      PROVE  OrderKept(st')
  <2>1. CASE lstate = "cancelled"
    BY <1>1, <2>1 DEF FinishRun
  <2>2. CASE lstate # "cancelled"
    <3>1. st[x] = "running" /\ ~Has(st, FollowUp(x))
      BY <1>1 DEF IInv, Sound, Agrees, Replaced
    <3>2. PICK s : s = [st EXCEPT ![x] = "review"]
      OBVIOUS
    <3>3. s \in StTypes /\ Chained(s) /\ Moved(st, s)
      BY <3>1, <3>2, OneMoves
    <3>4. Advance(lstate, s, j, rv, val, NotCards)
      BY <1>1, <2>2, <3>2 DEF FinishRun
    <3> QED
      BY <3>3, <3>4, OrderAdvanced
  <2> QED
    BY <2>1, <2>2
<1>2. CASE BlockGoal(x) \/ AfterTurn(x) \/ CheckFinishes(x)
  <2>1. im[x] \in {"turn", "popped", "check"}
    BY <1>2 DEF BlockGoal, AfterTurn, CheckFinishes
  <2>2. (\E j, f : FinishRun(x, f, j)) \/ st' = st
    BY <1>2 DEF BlockGoal, AfterTurn, CheckFinishes
  <2> QED
    BY <1>1, <2>1, <2>2
<1>3. CASE TurnEnds(x) \/ CheckFails(x) \/ ReviewEnds(x) \/ ReviewIgnored(x)
  <2>1. st' = st
    BY <1>3 DEF TurnEnds, CheckFails, ReviewEnds, ReviewIgnored
  <2> QED
    BY <2>1
<1>4. ASSUME rv[x] = "popped", ~Obsolete(x)
      PROVE  st[x] \in {"review", "failed"} /\ ~Has(st, FollowUp(x))
  BY <1>4 DEF IInv, Sound, Replaced, Reviewed, Obsolete
<1>5. CASE ReviewRejected(x)
  <2>1. st[x] \in {"review", "failed"} /\ ~Has(st, FollowUp(x)) /\ st' = [st EXCEPT ![x] = "failed"]
    BY <1>4, <1>5 DEF ReviewRejected
  <2>2. PICK s : s = [st EXCEPT ![x] = "failed"]
    OBVIOUS
  <2>3. s \in StTypes /\ Chained(s) /\ Moved(st, s) /\ st' = s
    BY <2>1, <2>2, OneMoves
  <2>4. OrderKept(s)
    BY <2>3, SameMoves, OrderMoved
  <2> QED
    BY <2>3, <2>4
<1>6. CASE IntegrationFails(x)
  <2>1. st[x] \in {"review", "failed"} /\ ~Has(st, FollowUp(x))
    BY <1>4, <1>6 DEF IntegrationFails
  <2>2. PICK s : /\ s \in {st, [st EXCEPT ![x] = "failed"]}
                 /\ \E ls, i, r : Advance(ls, s, i, r, val, NotCards)
    <3>1. PICK rolledBack \in BOOLEAN, startFails \in BOOLEAN :
         LET started == Active < MaxActive /\ ~startFails
             failed == rolledBack \/ ~started
         IN  Advance(IF failed THEN Attention(lstate) ELSE lstate,
                     IF failed THEN [st EXCEPT ![x] = "failed"] ELSE st,
                     CloseIdle(im),
                     [rv EXCEPT ![x] = IF started THEN "active" ELSE "over"],
                     val, NotCards)
      BY <1>6 DEF IntegrationFails
    <3>2. \A b : (IF b THEN [st EXCEPT ![x] = "failed"] ELSE st) \in {st, [st EXCEPT ![x] = "failed"]}
      OBVIOUS
    <3> QED
      BY <3>1, <3>2, Zenon
  <2>3. s \in StTypes /\ Chained(s) /\ Moved(st, s)
    BY <2>1, <2>2, OneMoves, SameMoves
  <2> QED
    BY <2>2, <2>3, OrderAdvanced
<1>7. CASE ReviewAccepted(x)
  <2>1. st[x] \in {"review", "failed"} /\ ~Has(st, FollowUp(x))
    BY <1>4, <1>7 DEF ReviewAccepted
  <2>2. PICK s, w : /\ w \in {"failed", "done"} /\ s = [st EXCEPT ![x] = w]
                    /\ \/ \E ls, i, r : Advance(ls, s, i, r, val, NotCards)
                       \/ /\ x[2] < FollowUps
                          /\ \E ls, i, r : Advance(ls, [s EXCEPT ![FollowUp(x)] = "planned"], i, r, val, NotCards)
                       \/ st' = s
    <3>1. PICK w : w = IF cause[x] THEN "failed" ELSE "done"
      OBVIOUS
    <3>2. PICK s : s = [st EXCEPT ![x] = w]
      OBVIOUS
    <3>3. w \in {"failed", "done"}
      BY <3>1
    <3>4. \/ \E ls, i, r : Advance(ls, s, i, r, val, NotCards)
          \/ /\ x[2] < FollowUps
             /\ \E ls, i, r : Advance(ls, [s EXCEPT ![FollowUp(x)] = "planned"], i, r, val, NotCards)
          \/ st' = s
      BY <1>7, <3>1, <3>2 DEF ReviewAccepted
    <3> QED
      BY <3>2, <3>3, <3>4
  <2>3. s \in StTypes /\ Chained(s) /\ Moved(st, s)
    BY <2>1, <2>2, OneMoves
  <2>4. CASE st' = s
    <3>1. OrderKept(s)
      BY <2>3, SameMoves, OrderMoved
    <3> QED
      BY <2>4, <3>1
  <2>5. CASE \E ls, i, r : Advance(ls, s, i, r, val, NotCards)
    BY <2>3, <2>5, OrderAdvanced
  <2>6. CASE /\ x[2] < FollowUps
             /\ \E ls, i, r : Advance(ls, [s EXCEPT ![FollowUp(x)] = "planned"], i, r, val, NotCards)
    <3>1. PICK t : t = [s EXCEPT ![FollowUp(x)] = "planned"]
      OBVIOUS
    <3>2. FollowUp(x) \in Cards /\ FollowUp(x) # x /\ FollowUp(x)[2] # 0
      BY <2>6, BoundAssumption DEF FollowUp, Cards
    <3>3. st \in StTypes /\ Chained(st)
      BY SameMoves
    <3>4. /\ t \in StTypes
          /\ \A y \in Cards : t[y] = IF y = FollowUp(x) THEN "planned" ELSE IF y = x THEN w ELSE st[y]
      BY <2>2, <2>3, <3>1, <3>2, <3>3 DEF StTypes, CardStates
    <3>5. \A y \in Cards : FollowUp(y) = FollowUp(x) => y = x
      BY BoundAssumption DEF FollowUp, Cards
    <3>6. \A y : Has(t, y) <=> Has(st, y) \/ y = FollowUp(x)
      BY <2>1, <2>2, <3>2, <3>4 DEF Has
    <3>7. ~Has(st, FollowUp(FollowUp(x)))
      BY <2>1, <3>2, <3>3 DEF Chained, Has
    <3>8. Chained(t)
      <4> SUFFICES ASSUME NEW y \in Cards, Has(t, FollowUp(y)) PROVE t[y] \in {"done", "failed"}
        BY DEF Chained
      <4>1. CASE y = x
        BY <2>2, <3>2, <3>4, <4>1
      <4>2. CASE y # x
        <5>1. Has(st, FollowUp(y))
          BY <3>5, <3>6, <4>2
        <5>2. y # FollowUp(x)
          BY <3>7, <5>1
        <5> QED
          BY <3>3, <3>4, <4>2, <5>1, <5>2 DEF Chained
      <4> QED
        BY <4>1, <4>2
    <3>9. Moved(st, t)
      <4>1. \A y \in Cards : st[y] = "done" => t[y] = "done"
        BY <2>1, <3>2, <3>4 DEF Has
      <4>2. \A y \in Cards : Has(t, FollowUp(y)) /\ ~Has(st, FollowUp(y)) => Has(st, y) /\ st[y] # "done"
        BY <2>1, <3>5, <3>6 DEF Has
      <4>3. \A c \in Plan : <<c, 0>> \in Cards /\ <<c, 0>> # FollowUp(x)
        BY <3>2, BoundAssumption DEF Cards
      <4>4. \A c \in Plan : t[<<c, 0>>] \in Progress => st[<<c, 0>>] \in Progress
        BY <2>1, <3>4, <4>3 DEF Progress
      <4> QED
        BY <4>1, <4>2, <4>4 DEF Moved
    <3>10. \E ls, i, r : Advance(ls, t, i, r, val, NotCards)
      BY <2>6, <3>1
    <3> QED
      BY <3>4, <3>8, <3>9, <3>10, OrderAdvanced
  <2> QED
    BY <2>2, <2>4, <2>5, <2>6
<1> QED
  BY <1>2, <1>3, <1>5, <1>6, <1>7 DEF CardStep, ReviewDone

LEMMA OrderStep ==
    ASSUME IInv, OrderKept(st), [Next]_vars
    PROVE  OrderKept(st')
<1>1. CASE \E x \in Cards : CardStep(x)
  BY <1>1, CardOrder
<1>2. CASE SavePlan
  <2>1. Fresh
    BY <1>2 DEF SavePlan, IInv, PlannerAlone
  <2>2. st' = NewCards("planned") \/ st' = st
    BY <1>2 DEF SavePlan, cardVars
  <2> QED
    BY <2>1, <2>2, FreshOrder DEF NewCards, Fresh
<1>3. CASE DropCards
  <2>1. Fresh
    BY <1>3 DEF DropCards, IInv, PlanIsFresh
  <2>2. \A x \in Cards : st'[x] \in {st[x], "dropped"}
    BY <1>3 DEF DropCards
  <2> QED
    BY <2>1, <2>2, FreshOrder DEF Fresh
<1>4. CASE ApprovePlan
  BY <1>4, SameMoves, OrderAdvanced DEF ApprovePlan
<1>5. CASE ResumeCards
  <2> DEFINE Z == {x \in Cards : st[x] = "failed" /\ ~Has(st, FollowUp(x))}
  <2>1. \E ls, i, r, o : Advance(ls, Reset(st, Z, "planned"), i, r, val, o)
    BY <1>5 DEF ResumeCards
  <2>2. /\ Z \in SUBSET Cards
        /\ \A x \in Z : st[x] \in {"running", "review", "failed"} /\ ~Has(st, FollowUp(x))
    OBVIOUS
  <2> HIDE DEF Z
  <2> QED
    BY <2>1, <2>2, ResetMoves, OrderAdvanced
<1>6. CASE Restart
  <2> DEFINE Z == IF lstate = "running"
                  THEN {x \in Cards : st[x] \in {"running", "review"}} ELSE {}
  <2>1. \E ls, i, r : Advance(ls, Reset(st, Z, "planned"), i, r, "none", 0)
    BY <1>6 DEF Restart
  <2>2. /\ Z \in SUBSET Cards
        /\ \A x \in Z : st[x] \in {"running", "review", "failed"} /\ ~Has(st, FollowUp(x))
    BY DEF IInv, Sound, Replaced
  <2> HIDE DEF Z
  <2> QED
    BY <2>1, <2>2, ResetMoves, OrderAdvanced
<1>7. CASE \/ PlannerEnds \/ LoadPlan \/ RevisePlan \/ CancelBegin \/ CommitLoop \/ ResumePlanning
           \/ Cancelling \/ Validation \/ StaleReviewEnds \/ OtherStarts \/ OtherEnds \/ UNCHANGED vars
  <2>1. st' = st
    BY <1>7 DEF PlannerEnds, LoadPlan, RevisePlan, CancelBegin, CommitLoop, ResumePlanning,
                Cancelling, CancelTearDown, CancelFails, CancelFinish, Validation, ValidationDecides,
                ValidationCancelled, ValidationGone, StaleReviewEnds, OtherStarts, OtherEnds,
                vars, cardVars, hostVars
  <2> QED
    BY <2>1
<1> QED
  BY <1>1, <1>2, <1>3, <1>4, <1>5, <1>6, <1>7 DEF Next, Planning, Person

\* A card of the plan is started only when the whole chain of follow-ups of
\* everything it comes after is concluded, and stays so while it is worked on
\* or done, through retries, late reviews, follow-ups and restarts.
THEOREM DependenciesComeFirst == Spec => []DependenciesFirst
<1>1. Init => OrderKept(st)
  <2>1. \A c \in Plan : <<c, 0>> \in Cards
    BY BoundAssumption DEF Cards
  <2> QED
    BY <2>1 DEF Init, OrderKept, Progress
<1>2. IInv /\ OrderKept(st) /\ [Next]_vars => OrderKept(st)'
  BY OrderStep
<1>3. OrderKept(st) => DependenciesFirst
  BY DEF OrderKept, DependenciesFirst, ConcludedIn, Concluded, Progress
<1> QED
  BY <1>1, <1>2, <1>3, Inductive, PTL DEF Spec
-----------------------------------------------------------------------------
(* Ended loops.                                                             *)

LEMMA EndedStep ==
    ASSUME Next, lstate \in Terminal, pl # "loaded"
    PROVE  lstate' = lstate
<1>1. \A ls, s, i, r, v, o : ls # "running" /\ Advance(ls, s, i, r, v, o) => lstate' = ls
  BY DEF Advance
<1>2. lstate # "running" /\ lstate \in {"done", "cancelled"}
  BY DEF Terminal
<1>3. ASSUME NEW x \in Cards, CardStep(x) PROVE lstate' = lstate
  <2>1. \A f, j : FinishRun(x, f, j) => lstate' = lstate
    BY <1>1, <1>2 DEF FinishRun
  <2>2. CASE BlockGoal(x) \/ AfterTurn(x) \/ CheckFinishes(x)
    BY <2>1, <2>2 DEF BlockGoal, AfterTurn, CheckFinishes
  <2>3. CASE ReviewDone(x)
    BY <1>1, <1>2, <2>3 DEF ReviewDone, ReviewIgnored, ReviewRejected, IntegrationFails, ReviewAccepted,
                            Attention
  <2>4. CASE TurnEnds(x) \/ CheckFails(x) \/ ReviewEnds(x)
    BY <2>4 DEF TurnEnds, CheckFails, ReviewEnds
  <2> QED
    BY <1>3, <2>2, <2>3, <2>4 DEF CardStep
<1>4. CASE Restart
  BY <1>1, <1>2, <1>4 DEF Restart
<1>5. CASE Planning \/ Person \/ Cancelling \/ Validation
  BY <1>2, <1>5 DEF Planning, PlannerEnds, LoadPlan, SavePlan,
     Person, ApprovePlan, DropCards, RevisePlan, CancelBegin, CommitLoop, ResumePlanning, ResumeCards,
     Cancelling, CancelTearDown, CancelFails, CancelFinish,
     Validation, ValidationDecides, ValidationCancelled, ValidationGone, Terminal
<1>6. CASE StaleReviewEnds \/ OtherStarts \/ OtherEnds
  BY <1>6 DEF StaleReviewEnds, OtherStarts, OtherEnds
<1> QED
  BY <1>3, <1>4, <1>5, <1>6 DEF Next

\* A loop that is done or cancelled stays so: late runs, reviews, validations,
\* resumed cards and restarts leave its state alone.  Only the callback of a
\* planner that had read loop.json before may write it once more.
THEOREM EndedLoopsStay == Spec => EndedUnlessPlanLoaded
<1>1. [Next]_vars => [(lstate \in Terminal /\ pl # "loaded") => UNCHANGED lstate]_vars
  BY EndedStep
<1> QED
  BY <1>1, PTL DEF Spec, EndedUnlessPlanLoaded
=============================================================================
