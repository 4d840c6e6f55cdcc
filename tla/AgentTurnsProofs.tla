-------------------------- MODULE AgentTurnsProofs --------------------------
(***************************************************************************)
(* Proofs about AgentTurns, for any bounds, turns and numbers of calls.    *)
(***************************************************************************)
EXTENDS AgentTurns, FiniteSetTheorems, SequenceTheorems, TLAPS

(* Redirects.                                                               *)

Redirects == {"redirect"} \X Nat
\* Nothing waits for a run that is not there.
RedirectsWait ==
  /\ accepted \in Seq(Redirects) /\ delivered \in Seq(Redirects) /\ queue \in Seq(Redirects)
  /\ delivered \o queue = accepted
  /\ phase # "running" => queue = <<>>
  /\ pc \in {"idle", "down"} => phase # "running"

LEMMA RedirectsInit == Init => RedirectsWait
BY EmptySeq, ConcatEmptySeq DEF Init, RedirectsWait

\* Steps of the thread that leave redirects alone.
LEMMA RedirectsAside ==
  ASSUME RedirectsWait, UNCHANGED <<accepted, delivered, queue, phase>>,
         pc' \in {"idle", "down"} => pc \in {"idle", "down"}
  PROVE  RedirectsWait'
BY DEF RedirectsWait

LEMMA ClosingDelivers ==
  ASSUME RedirectsWait, NEW ms, NEW why, Close(ms, why)
  PROVE  RedirectsWait'
<1>1. /\ delivered' = delivered \o queue /\ queue' = <<>> /\ accepted' = accepted
      /\ phase' # "running"
  BY DEF Close, ClosingRedirects, counts
<1>2. delivered \o queue \in Seq(Redirects) /\ <<>> \in Seq(Redirects)
  BY ConcatProperties, EmptySeq DEF RedirectsWait
<1>3. (delivered \o queue) \o <<>> = delivered \o queue
  BY <1>2, ConcatEmptySeq
<1> QED
  BY <1>1, <1>2, <1>3 DEF RedirectsWait

LEMMA RedirectsStep ==
  ASSUME RedirectsWait, [Next]_vars
  PROVE  RedirectsWait'
<1>1. CASE UNCHANGED vars
  BY <1>1, RedirectsAside DEF vars, counts, control
<1>2. CASE \/ Write \/ Fits \/ CompactForRequest \/ Overflow \/ Refuses \/ RequestFails
           \/ RequestStopped \/ StartBatch \/ AppendResult \/ EndBatch \/ AfterTools
           \/ Settle \/ WaitedTooLong \/ StopHook \/ StopHookRefused \/ NoHook
  <2>1. UNCHANGED <<accepted, delivered, queue, phase>>
    BY <1>2 DEF Write, Fits, CompactForRequest, Compact, Overflow, Refuses, RequestFails, RequestStopped,
       StartBatch, AppendResult, EndBatch, AfterTools, Settle, WaitedTooLong, StopHook,
       StopHookRefused, NoHook, Still, Unmoved, counts, control
  <2>2. pc' \in {"idle", "down"} => pc \in {"idle", "down"}
    BY <1>2 DEF Write, Fits, CompactForRequest, Compact, Overflow, Refuses, RequestFails, RequestStopped,
       StartBatch, AppendResult, EndBatch, AfterTools, Settle, WaitedTooLong, StopHook,
       StopHookRefused, NoHook, Still, At
  <2> QED
    BY <2>1, <2>2, RedirectsAside
<1>3. CASE Responds
  <2>1. PICK k, kinds : Respond(k, kinds)
    BY <1>3 DEF Responds
  <2>2. pc = "ask"
    BY <1>3 DEF Responds, At
  <2> QED
    BY <2>1, <2>2, RedirectsAside DEF Respond, Unmoved, control
<1>4. ASSUME NEW i, NEW how, CallEnds(i, how)
      PROVE  RedirectsWait'
  BY <1>4, RedirectsAside DEF CallEnds, Still, Unmoved, control, counts
<1>5. CASE OutOfTurns \/ Budget \/ Cancelled \/ Failed \/ Finish
  BY <1>5, ClosingDelivers DEF OutOfTurns, Budget, Cancelled, Failed, Finish
<1>6. CASE Turn
  <2>1. accepted' = accepted /\ phase' = phase /\ pc' \notin {"idle", "down"}
    BY <1>6 DEF Turn, counts, control
  <2>2. CASE UNCHANGED <<queue, delivered>>
    BY <2>1, <2>2, RedirectsAside
  <2>3. CASE delivered' = delivered \o queue /\ queue' = <<>>
    <3>1. delivered \o queue \in Seq(Redirects) /\ <<>> \in Seq(Redirects)
      BY ConcatProperties, EmptySeq DEF RedirectsWait
    <3>2. (delivered \o queue) \o <<>> = delivered \o queue
      BY <3>1, ConcatEmptySeq
    <3> QED
      BY <2>1, <2>3, <3>1, <3>2 DEF RedirectsWait
  <2> QED
    BY <1>6, <2>2, <2>3 DEF Turn
<1>7. ASSUME NEW asked, Chat(asked)
      PROVE  RedirectsWait'
  <2>1. pc = "idle" /\ queue' = <<>> /\ phase' = "running" /\ pc' = "turn"
        /\ accepted' = accepted /\ delivered' = delivered
    BY <1>7 DEF Chat, At
  <2> QED
    BY <2>1 DEF RedirectsWait
<1>8. CASE Redirect
  <2>1. PICK r \in Redirects : accepted' = Append(accepted, r) /\ queue' = Append(queue, r)
    <3>1. <<"redirect", Len(accepted) + 1>> \in Redirects
      BY LenProperties DEF RedirectsWait, Redirects
    <3> QED
      BY <1>8, <3>1 DEF Redirect
  <2>2. delivered' = delivered /\ pc' = pc /\ phase' = phase /\ phase = "running"
    BY <1>8 DEF Redirect
  <2>3. <<r>> \in Seq(Redirects)
    OBVIOUS
  <2>4. accepted' = accepted \o <<r>> /\ queue' = queue \o <<r>>
    BY <2>1, AppendIsConcat DEF RedirectsWait
  <2>5. delivered \o queue' = (delivered \o queue) \o <<r>>
    <3>1. delivered \in Seq(Redirects) /\ queue \in Seq(Redirects)
      BY DEF RedirectsWait
    <3>2. (delivered \o queue) \o <<r>> = delivered \o (queue \o <<r>>)
      BY <2>3, <3>1, ConcatAssociative
    <3> QED
      BY <2>4, <3>2
  <2>6. accepted' \in Seq(Redirects) /\ queue' \in Seq(Redirects)
    BY <2>1, AppendProperties DEF RedirectsWait
  <2> QED
    BY <2>2, <2>4, <2>5, <2>6 DEF RedirectsWait
<1>9. CASE Leave
  <2>1. /\ queue' = <<>> /\ delivered' = delivered /\ phase' = "none"
        /\ accepted' = SubSeq(accepted, 1, Len(delivered))
    BY <1>9 DEF Leave
  <2>2. SubSeq(accepted, 1, Len(delivered)) = delivered
    BY DEF RedirectsWait
  <2>3. <<>> \in Seq(Redirects) /\ delivered \o <<>> = delivered
    BY EmptySeq, ConcatEmptySeq DEF RedirectsWait
  <2> QED
    BY <2>1, <2>2, <2>3 DEF RedirectsWait
<1>10. CASE Reopen \/ Stop
  BY <1>10, RedirectsAside DEF Reopen, Stop, control, counts
<1> QED
  BY <1>1, <1>2, <1>3, <1>4, <1>5, <1>6, <1>7, <1>8, <1>9, <1>10
     DEF Next, Thread, StartChat, CompactChat

\* An accepted redirect reaches its run once and in order, however late it
\* comes (AgentRun.close_redirects, agent_run.py).
THEOREM RedirectsAllArrive == Spec => []RedirectsArrive
<1>1. RedirectsWait => RedirectsArrive
  BY DEF RedirectsWait, RedirectsArrive
<1> QED
  BY <1>1, RedirectsInit, RedirectsStep, PTL DEF Spec

(* Sequences of whatever.                                                   *)

IsSeq(s) == \E S : s \in Seq(S)

LEMMA SeqsTogether ==
  ASSUME NEW s, NEW t, NEW u, IsSeq(s), IsSeq(t), IsSeq(u)
  PROVE  \E S : s \in Seq(S) /\ t \in Seq(S) /\ u \in Seq(S)
<1>1. PICK A, B, C : s \in Seq(A) /\ t \in Seq(B) /\ u \in Seq(C)
  BY DEF IsSeq
<1>2. PICK S : S = A \cup B \cup C
  OBVIOUS
<1>3. A \subseteq S /\ B \subseteq S /\ C \subseteq S
  BY <1>2
<1> QED
  BY <1>1, <1>3, SeqMonotonic

LEMMA JoinedSeqs ==
  ASSUME NEW s, NEW t, IsSeq(s), IsSeq(t)
  PROVE  /\ IsSeq(s \o t) /\ IsSeq(<<>>) /\ s \o <<>> = s /\ <<>> \o s = s
         /\ \A u : IsSeq(u) => (s \o t) \o u = s \o (t \o u)
         /\ s # <<>> => IsSeq(Tail(s)) /\ t \o s = Append(t, Head(s)) \o Tail(s)
<1>1. ASSUME NEW u, IsSeq(u)
      PROVE  (s \o t) \o u = s \o (t \o u)
  BY <1>1, SeqsTogether, ConcatAssociative
<1>2. PICK S : s \in Seq(S) /\ t \in Seq(S)
  BY SeqsTogether
<1>3. s \o t \in Seq(S) /\ <<>> \in Seq(S) /\ s \o <<>> = s /\ <<>> \o s = s
  BY <1>2, ConcatProperties, EmptySeq, ConcatEmptySeq
<1>4. ASSUME s # <<>>
      PROVE  Tail(s) \in Seq(S) /\ t \o s = Append(t, Head(s)) \o Tail(s)
  <2>1. PICK h, r : h = Head(s) /\ r = Tail(s)
    OBVIOUS
  <2>2. h \in S /\ r \in Seq(S)
    BY <1>2, <1>4, <2>1, HeadTailProperties
  <2>3. <<h>> \in Seq(S)
    BY <2>2
  <2>4. s = <<h>> \o r
    BY <1>2, <1>4, <2>1, <2>2
  <2>5. Append(t, h) = t \o <<h>>
    BY <1>2, <2>2, AppendIsConcat
  <2>6. (t \o <<h>>) \o r = t \o (<<h>> \o r)
    BY <1>2, <2>2, <2>3, ConcatAssociative
  <2> QED
    BY <2>1, <2>2, <2>4, <2>5, <2>6
<1> QED
  BY <1>1, <1>3, <1>4 DEF IsSeq

LEMMA PartsOfSeqs ==
  ASSUME NEW s, IsSeq(s)
  PROVE  /\ Len(s) \in Nat /\ DOMAIN s = 1 .. Len(s)
         /\ \A k \in 0 .. Len(s) : /\ IsSeq(SubSeq(s, 1, k)) /\ IsSeq(SubSeq(s, k + 1, Len(s)))
                                   /\ SubSeq(s, 1, k) \o SubSeq(s, k + 1, Len(s)) = s
         /\ SubSeq(s, 1, Len(s)) = s
         /\ \A e : IsSeq(Append(s, e))
<1>1. PICK S : s \in Seq(S)
  BY DEF IsSeq
<1>2. Len(s) \in Nat /\ DOMAIN s = 1 .. Len(s) /\ SubSeq(s, 1, Len(s)) = s
  BY <1>1, LenProperties, SubSeqFull
<1>3. ASSUME NEW k \in 0 .. Len(s)
      PROVE  /\ SubSeq(s, 1, k) \in Seq(S) /\ SubSeq(s, k + 1, Len(s)) \in Seq(S)
             /\ SubSeq(s, 1, k) \o SubSeq(s, k + 1, Len(s)) = s
  <2>1. \A i \in 1 .. k : s[i] \in S
    BY <1>1, <1>2
  <2>2. \A i \in k + 1 .. Len(s) : s[i] \in S
    BY <1>1, <1>2
  <2>3. k \in Int /\ k + 1 \in Int /\ Len(s) \in Int /\ 1 \in Int
    BY <1>2
  <2>4. SubSeq(s, 1, k) \in Seq(S) /\ SubSeq(s, k + 1, Len(s)) \in Seq(S)
    BY <2>1, <2>2, <2>3, SubSeqProperties
  <2>5. /\ 1 \in 1 .. Len(s) + 1 /\ k \in 1 - 1 .. Len(s) /\ Len(s) \in k .. Len(s)
    BY <1>2
  <2>6. SubSeq(s, 1, k) \o SubSeq(s, k + 1, Len(s)) = SubSeq(s, 1, Len(s))
    BY <1>1, <2>5, ConcatAdjacentSubSeq
  <2> QED
    BY <1>2, <2>4, <2>6
<1>4. ASSUME NEW e
      PROVE  IsSeq(Append(s, e))
  <2>1. S \subseteq S \cup {e} /\ e \in S \cup {e}
    OBVIOUS
  <2>2. s \in Seq(S \cup {e})
    BY <1>1, <2>1, SeqMonotonic
  <2> QED
    BY <2>1, <2>2, AppendProperties DEF IsSeq
<1> QED
  BY <1>2, <1>3, <1>4 DEF IsSeq

LEMMA FunctionsAreSeqs ==
  ASSUME NEW n \in Nat, NEW f, f = [j \in 1 .. n |-> f[j]]
  PROVE  IsSeq(f)
<1>1. PICK S : S = {f[j] : j \in 1 .. n}
  OBVIOUS
<1>2. f \in [1 .. n -> S]
  BY <1>1
<1>3. f \in Seq(S)
  BY <1>2
<1> QED
  BY <1>3 DEF IsSeq

LEMMA LeastNatural ==
  ASSUME NEW S \in SUBSET Nat, S # {}
  PROVE  \E x \in S : \A y \in S : x <= y
<1>1. IsWellFoundedOn(OpToRel(<, Nat), Nat)
  BY NatLessThanWellFounded
<1>2. PICK x \in S : \A y \in S : ~ (<<y, x>> \in OpToRel(<, Nat))
  BY <1>1, WFMin
<1>3. \A y \in S : ~(y < x)
  BY <1>2 DEF OpToRel
<1> QED
  BY <1>3

\* The last place of a set of places.
LEMMA LatestIs ==
  ASSUME NEW n \in Nat, NEW S \in SUBSET (0 .. n), S # {}
  PROVE  Latest(S) \in S /\ \A j \in S : j <= Latest(S)
<1>1. PICK T : T = {n - i : i \in S}
  OBVIOUS
<1>2. T \in SUBSET Nat /\ T # {}
  <2>1. \A i \in S : n - i \in Nat
    OBVIOUS
  <2> QED
    BY <1>1, <2>1
<1>3. PICK x \in T : \A y \in T : x <= y
  BY <1>2, LeastNatural
<1>4. PICK i \in S : x = n - i
  BY <1>1, <1>3
<1>5. \A j \in S : n - j \in T
  BY <1>1
<1>6. \A j \in S : j <= i
  BY <1>3, <1>4, <1>5
<1> QED
  BY <1>6 DEF Latest

LEMMA KeptIsCommon ==
  ASSUME NEW old, NEW new, IsSeq(old), IsSeq(new)
  PROVE  /\ KeptPrefix(old, new) \in 0 .. Len(old) /\ KeptPrefix(old, new) <= Len(new)
         /\ SubSeq(old, 1, KeptPrefix(old, new)) = SubSeq(new, 1, KeptPrefix(old, new))
<1>1. PICK same : same = {k \in 0 .. Len(old) : k <= Len(new) /\ SubSeq(old, 1, k) = SubSeq(new, 1, k)}
  OBVIOUS
<1>2. Len(old) \in Nat /\ Len(new) \in Nat
  BY PartsOfSeqs
<1>3. SubSeq(old, 1, 0) = <<>> /\ SubSeq(new, 1, 0) = <<>>
  BY SubSeqEmpty
<1>4. 0 \in same
  BY <1>1, <1>2, <1>3
<1>5. Latest(same) \in same
  BY <1>1, <1>2, <1>4, LatestIs
<1> QED
  BY <1>1, <1>5 DEF KeptPrefix

-----------------------------------------------------------------------------
(* The transcript.                                                          *)

\* Everything that is written or held is a sequence, and what is in the file
\* and still to be written of a rewrite is what the agent believes is there.
Sequenced ==
  /\ IsSeq(conv) /\ IsSeq(chat) /\ IsSeq(digests) /\ IsSeq(saved) /\ IsSeq(writing)
  /\ IsSeq(queue)
Transcribed ==
  /\ Sequenced
  /\ pc = "down" => writing = <<>>
  /\ patched = 0 => readable
  /\ patched = 0 /\ pc # "down" => saved \o writing = digests
  /\ pc \notin {"idle", "down"} => digests = conv

\* A conversation was repaired by an opening that took place.
OpenedFirst == patched \in Nat /\ opens \in Nat \ {0} /\ patched <= opens

LEMMA OpenedStep ==
  ASSUME OpenedFirst, [Next]_vars
  PROVE  OpenedFirst'
<1>1. CASE Reopen
  BY <1>1 DEF Reopen, OpenedFirst
<1>2. CASE \/ UNCHANGED vars \/ Responds \/ (\E i, how : CallEnds(i, how))
           \/ OutOfTurns \/ Budget \/ Cancelled \/ Failed \/ Finish \/ StartChat \/ CompactChat
  <2>1. UNCHANGED <<patched, opens>>
    BY <1>2 DEF vars, counts, Responds, Respond, Unmoved, CallEnds, Still, OutOfTurns, Budget,
       Cancelled, Failed, Finish, Close, StartChat, CompactChat, Chat
  <2> QED
    BY <2>1 DEF OpenedFirst
<1>3. CASE \/ Write \/ Turn \/ Fits \/ CompactForRequest \/ Overflow \/ Refuses \/ RequestFails
           \/ RequestStopped \/ StartBatch \/ AppendResult \/ EndBatch \/ AfterTools
           \/ Settle \/ WaitedTooLong \/ StopHook \/ StopHookRefused \/ NoHook
           \/ Redirect \/ Stop \/ Leave
  <2>1. UNCHANGED <<patched, opens>>
    BY <1>3 DEF Write, Turn, Fits, CompactForRequest, Compact, Overflow, Refuses, RequestFails,
       RequestStopped, StartBatch, AppendResult, EndBatch, AfterTools, Settle, WaitedTooLong,
       StopHook, StopHookRefused, NoHook, Still, Unmoved, counts, Redirect, Stop, Leave
  <2> QED
    BY <2>1 DEF OpenedFirst
<1> QED
  BY <1>1, <1>2, <1>3 DEF Next, Thread

LEMMA AnswersAreSeqs ==
  /\ \A q : IsSeq(q) => IsSeq(Texts(q))
  /\ \A ms, how : IsSeq(Repairs(ms, how))
  /\ \A m : IsSeq(<<m>>)
<1>1. ASSUME NEW q, IsSeq(q)
      PROVE  IsSeq(Texts(q))
  <2>1. Len(q) \in Nat /\ DOMAIN q = 1 .. Len(q)
    BY <1>1, PartsOfSeqs
  <2>2. Texts(q) \in Seq({User(q[i]) : i \in 1 .. Len(q)})
    BY <2>1 DEF Texts
  <2> QED
    BY <2>2 DEF IsSeq
<1>2. ASSUME NEW C
      PROVE  \E n \in Nat : DOMAIN InOrder(C) = 1 .. n
  <2>1. PICK places : places = {p \in 1 .. MaxCalls : \E c \in C : c[2] = p}
    OBVIOUS
  <2>2. IsFiniteSet(1 .. MaxCalls)
    BY AgentAssumption, FS_Interval
  <2>3. Cardinality(places) \in Nat
    BY <2>1, <2>2, FS_Subset, FS_CardinalityType
  <2>4. DOMAIN InOrder(C) = 1 .. Cardinality(places)
    BY <2>1 DEF InOrder
  <2> QED
    BY <2>3, <2>4
<1>3. ASSUME NEW ms, NEW how
      PROVE  IsSeq(Repairs(ms, how))
  <2>1. PICK cs : cs = InOrder(Unanswered(ms))
    OBVIOUS
  <2>2. PICK n \in Nat : DOMAIN cs = 1 .. n
    BY <1>2, <2>1
  <2>3. Repairs(ms, how) = [i \in 1 .. n |-> Result(cs[i], how)]
    BY <2>1, <2>2 DEF Repairs
  <2>4. Repairs(ms, how) \in Seq({Result(cs[i], how) : i \in 1 .. n})
    BY <2>3
  <2> QED
    BY <2>4 DEF IsSeq
<1>4. ASSUME NEW m
      PROVE  IsSeq(<<m>>)
  <2>1. <<m>> \in Seq({m})
    OBVIOUS
  <2> QED
    BY <2>1 DEF IsSeq
<1> QED
  BY <1>1, <1>3, <1>4

\* What compaction leaves is a sequence.
LEMMA CompactedAreSeqs ==
  ASSUME NEW ms, IsSeq(ms), NEW n, NEW new \in Compactions(ms, n)
  PROVE  IsSeq(new)
<1>1. Len(ms) \in Nat /\ DOMAIN ms = 1 .. Len(ms) /\ IsFiniteSet(DOMAIN ms)
  BY PartsOfSeqs, FS_Interval
<1>2. ASSUME NEW I \in SUBSET DOMAIN ms
      PROVE  IsSeq(Pick(ms, I))
  <2>1. PICK k \in Nat : k = Cardinality(I)
    BY <1>1, FS_Subset, FS_CardinalityType
  <2>2. Pick(ms, I) = [j \in 1 .. k |-> ms[Nth(I, k + 1 - j)]]
    BY <2>1 DEF Pick
  <2>3. Pick(ms, I) = [j \in 1 .. k |-> Pick(ms, I)[j]]
    BY <2>2
  <2> QED
    BY <2>3, FunctionsAreSeqs
<1>3. ASSUME NEW w \in Windows(ms)
      PROVE  IsSeq(Cut(ms, w, n))
  <2>1. PICK prefix, recent :
          /\ prefix = w.prefix
          /\ recent = {i \in DOMAIN ms : i >= w.start /\ ms[i].role # "system"}
    OBVIOUS
  <2>2. PICK start, byAnswers : w = [start |-> start, prefix |-> Prefix(ms, start, byAnswers)]
    BY DEF Windows, Window
  <2>2a. prefix = Prefix(ms, start, byAnswers)
    BY <2>1, <2>2
  <2>2b. prefix \in SUBSET DOMAIN ms /\ recent \in SUBSET DOMAIN ms
    BY <2>1, <2>2a DEF Prefix, Where
  <2>3. IsSeq(Pick(ms, prefix)) /\ IsSeq(Pick(ms, recent)) /\ IsSeq(<<Summary(n)>>)
    BY <1>2, <2>2b, AnswersAreSeqs
  <2>4. \/ Cut(ms, w, n) = ms
        \/ Cut(ms, w, n) = (Pick(ms, prefix) \o <<Summary(n)>>) \o Pick(ms, recent)
    BY <2>1 DEF Cut
  <2>5. IsSeq((Pick(ms, prefix) \o <<Summary(n)>>) \o Pick(ms, recent))
    BY <2>3, JoinedSeqs
  <2> QED
    BY <2>4, <2>5
<1>4. ASSUME NEW w
      PROVE  IsSeq(Cleared(ms, w))
  <2>2. PICK i, e : \/ Cleared(ms, w) = ms
                    \/ Cleared(ms, w) = [ms EXCEPT ![i] = e]
    BY DEF Cleared
  <2>3. PICK f : f = [ms EXCEPT ![i] = e]
    OBVIOUS
  <2>4. f = [j \in 1 .. Len(ms) |-> f[j]]
    BY <1>1, <2>3
  <2>5. IsSeq(f)
    BY <1>1, <2>4, FunctionsAreSeqs
  <2> QED
    BY <2>2, <2>3, <2>5
<1> QED
  BY <1>3, <1>4 DEF Compactions

LEMMA TranscribedInit == Init => Transcribed
<1>1. IsSeq(<<>>)
  BY EmptySeq DEF IsSeq
<1>2. <<>> \o <<>> = <<>>
  BY <1>1, JoinedSeqs
<1> QED
  BY <1>1, <1>2 DEF Init, Transcribed, Sequenced

\* A rewrite of the file: persist_messages.
LEMMA PersistKeeps ==
  ASSUME IsSeq(digests), IsSeq(saved), NEW ms, IsSeq(ms), NEW rewritten, Persist(ms, rewritten)
  PROVE  /\ IsSeq(saved') /\ IsSeq(writing') /\ digests' = ms
         /\ saved = digests => saved' \o writing' = ms /\ (readable => readable')
<1>1. PICK kept, cut :
        /\ kept = KeptPrefix(digests, ms) /\ cut = (rewritten \/ kept < Len(digests))
        /\ saved' = IF cut /\ kept <= Len(saved) THEN SubSeq(saved, 1, kept) ELSE saved
        /\ readable' = (readable /\ (cut => kept <= Len(saved)))
        /\ writing' = SubSeq(ms, kept + 1, Len(ms)) /\ digests' = ms
  BY DEF Persist
<1>2. /\ kept \in 0 .. Len(digests) /\ kept <= Len(ms)
      /\ SubSeq(digests, 1, kept) = SubSeq(ms, 1, kept)
  BY <1>1, KeptIsCommon
<1>3. Len(ms) \in Nat /\ Len(saved) \in Nat /\ Len(digests) \in Nat
  BY PartsOfSeqs
<1>4. kept \in 0 .. Len(ms) /\ (kept <= Len(saved) => kept \in 0 .. Len(saved))
  BY <1>2, <1>3
<1>5. IsSeq(saved') /\ IsSeq(writing')
  <2>1. IsSeq(SubSeq(ms, kept + 1, Len(ms)))
    BY <1>4, PartsOfSeqs
  <2>2. kept <= Len(saved) => IsSeq(SubSeq(saved, 1, kept))
    BY <1>4, PartsOfSeqs
  <2> QED
    BY <1>1, <2>1, <2>2
<1>6. ASSUME saved = digests
      PROVE  saved' \o writing' = ms /\ (readable => readable')
  <2>1. SubSeq(digests, 1, Len(digests)) = digests
    BY PartsOfSeqs
  <2>2. kept <= Len(saved) /\ (~cut => kept = Len(digests))
    <3>1. ~cut => ~(kept < Len(digests))
      BY <1>1, Zenon
    <3>2. kept <= Len(saved)
      BY <1>2, <1>6
    <3>3. ~(kept < Len(digests)) => kept = Len(digests)
      BY <1>2, <1>3
    <3> QED
      BY <3>1, <3>2, <3>3, Zenon
  <2>3. saved' = SubSeq(ms, 1, kept)
    BY <1>1, <1>2, <1>6, <2>1, <2>2
  <2>4. SubSeq(ms, 1, kept) \o SubSeq(ms, kept + 1, Len(ms)) = ms
    BY <1>4, PartsOfSeqs
  <2> QED
    BY <1>1, <2>2, <2>3, <2>4
<1> QED
  BY <1>1, <1>5, <1>6

LEMMA SayKeeps ==
  ASSUME Transcribed, pc \notin {"idle", "down"}, writing = <<>>, NEW ms, IsSeq(ms), Say(ms)
  PROVE  /\ IsSeq(conv') /\ IsSeq(digests') /\ IsSeq(saved') /\ IsSeq(writing') /\ writing' = <<>>
         /\ patched = 0 => readable' /\ saved' \o writing' = digests'
         /\ digests' = conv'
<1>1. /\ conv' = conv \o ms /\ saved' = saved \o ms /\ digests' = digests \o ms
      /\ UNCHANGED <<readable, writing>>
  BY DEF Say
<1>2. IsSeq(conv) /\ IsSeq(digests) /\ IsSeq(saved)
  BY DEF Transcribed, Sequenced
<1>3. IsSeq(conv \o ms) /\ IsSeq(digests \o ms) /\ IsSeq(saved \o ms) /\ IsSeq(<<>>)
  BY <1>2, JoinedSeqs
<1>4. saved \o <<>> = saved /\ (saved \o ms) \o <<>> = saved \o ms
  BY <1>2, <1>3, JoinedSeqs
<1>5. digests = conv /\ (patched = 0 => readable /\ saved = digests)
  BY <1>4 DEF Transcribed
<1> QED
  BY <1>1, <1>3, <1>4, <1>5

\* Steps that leave what is held and written alone.
LEMMA TranscriptAside ==
  ASSUME Transcribed, UNCHANGED <<conv, chat, digests, saved, readable, writing, patched>>,
         IsSeq(queue'),
         pc' = "down" => pc = "down", pc' # "idle" => pc # "idle", pc = "down" => pc' = "down"
  PROVE  Transcribed'
BY DEF Transcribed, Sequenced, IsSeq

LEMMA TranscribedIsSequenced ==
  ASSUME Transcribed
  PROVE  /\ IsSeq(conv) /\ IsSeq(chat) /\ IsSeq(digests) /\ IsSeq(saved) /\ IsSeq(writing)
         /\ IsSeq(queue) /\ IsSeq(<<>>)
         /\ patched = 0 /\ pc # "down" /\ writing = <<>> => saved = digests
<1>1. saved \o <<>> = saved /\ IsSeq(<<>>)
  BY JoinedSeqs DEF Transcribed, Sequenced
<1> QED
  BY <1>1 DEF Transcribed, Sequenced

LEMMA WritingKeeps ==
  ASSUME Transcribed, Write
  PROVE  Transcribed'
<1>1. /\ pc # "down" /\ writing # <<>>
      /\ saved' = Append(saved, Head(writing)) /\ writing' = Tail(writing)
      /\ UNCHANGED <<pc, conv, chat, digests, readable, queue, patched>>
  BY DEF Write, control
<1>2. IsSeq(saved) /\ IsSeq(writing)
  BY TranscribedIsSequenced
<1>3. /\ IsSeq(Append(saved, Head(writing))) /\ IsSeq(Tail(writing))
      /\ saved \o writing = Append(saved, Head(writing)) \o Tail(writing)
  BY <1>1, <1>2, JoinedSeqs, PartsOfSeqs
<1>4. saved' \o writing' = saved \o writing
  BY <1>1, <1>3
<1>5. Sequenced'
  BY <1>1, <1>3, TranscribedIsSequenced DEF Sequenced, IsSeq
<1> QED
  BY <1>1, <1>4, <1>5 DEF Transcribed

LEMMA ClosingTranscribes ==
  ASSUME Transcribed, NEW ms, IsSeq(ms), NEW why, Close(ms, why),
         pc \notin {"idle", "down"}, writing = <<>>
  PROVE  Transcribed'
<1>1. PICK said : said = ms \o Texts(ClosingRedirects)
  OBVIOUS
<1>2. IsSeq(Texts(ClosingRedirects))
  BY TranscribedIsSequenced, AnswersAreSeqs DEF ClosingRedirects
<1>3. IsSeq(said)
  BY <1>1, <1>2, JoinedSeqs
<1>4. /\ Say(said) /\ queue' = <<>> /\ chat' = (IF why = "failed" THEN chat ELSE conv')
      /\ pc' = "idle" /\ patched' = patched
  BY <1>1 DEF Close
<1>5. /\ IsSeq(conv') /\ IsSeq(digests') /\ IsSeq(saved') /\ IsSeq(writing') /\ writing' = <<>>
      /\ patched = 0 => readable' /\ saved' \o writing' = digests'
  BY <1>3, <1>4, SayKeeps
<1>6. IsSeq(chat') /\ IsSeq(queue')
  BY <1>4, <1>5, TranscribedIsSequenced
<1>7. Sequenced'
  BY <1>5, <1>6 DEF Sequenced, IsSeq
<1> QED
  BY <1>4, <1>5, <1>7 DEF Transcribed

LEMMA ChatTranscribes ==
  ASSUME Transcribed, NEW ms, IsSeq(ms), Chat(ms)
  PROVE  Transcribed'
<1>1. /\ pc = "idle" /\ writing = <<>> /\ chat' = ms /\ conv' = ms /\ Persist(ms, FALSE)
      /\ queue' = <<>> /\ pc' = "turn" /\ patched' = patched
  BY DEF Chat, At
<1>2. /\ IsSeq(saved') /\ IsSeq(writing') /\ digests' = ms
      /\ saved = digests => saved' \o writing' = ms /\ (readable => readable')
  BY <1>1, TranscribedIsSequenced, PersistKeeps
<1>3. patched = 0 => saved = digests /\ readable
  BY <1>1, TranscribedIsSequenced DEF Transcribed
<1>4. Sequenced'
  BY <1>1, <1>2, TranscribedIsSequenced DEF Sequenced, IsSeq
<1> QED
  BY <1>1, <1>2, <1>3, <1>4 DEF Transcribed

LEMMA RewritingTranscribes ==
  ASSUME Transcribed, NEW ms, IsSeq(ms), conv' = ms, Persist(ms, TRUE),
         pc \notin {"idle", "down"}, pc' \notin {"idle", "down"}, writing = <<>>,
         UNCHANGED <<chat, queue, patched>>
  PROVE  Transcribed'
<1>1. /\ IsSeq(saved') /\ IsSeq(writing') /\ digests' = ms
      /\ saved = digests => saved' \o writing' = ms /\ (readable => readable')
  BY TranscribedIsSequenced, PersistKeeps
<1>2. patched = 0 => saved = digests /\ readable
  BY TranscribedIsSequenced DEF Transcribed
<1>3. Sequenced'
  BY <1>1, TranscribedIsSequenced DEF Sequenced, IsSeq
<1> QED
  BY <1>1, <1>2, <1>3 DEF Transcribed

\* A message is said within a run.
LEMMA SayingTranscribes ==
  ASSUME Transcribed, pc \notin {"idle", "down"}, pc' \notin {"idle", "down"}, writing = <<>>,
         NEW ms, IsSeq(ms), UNCHANGED <<chat, patched>>, IsSeq(queue'),
         \/ Say(ms)
         \/ /\ conv' = conv \o ms /\ saved' = saved \o ms /\ digests' = digests \o ms
            /\ UNCHANGED <<readable, writing>>
  PROVE  Transcribed'
<1>1. /\ conv' = conv \o ms /\ saved' = saved \o ms /\ digests' = digests \o ms
      /\ UNCHANGED <<readable, writing>>
  BY DEF Say
<1>2. /\ IsSeq(conv) /\ IsSeq(digests) /\ IsSeq(saved) /\ IsSeq(<<>>) /\ IsSeq(chat)
      /\ patched = 0 => saved = digests
  BY TranscribedIsSequenced
<1>3. IsSeq(conv \o ms) /\ IsSeq(digests \o ms) /\ IsSeq(saved \o ms)
  BY <1>2, JoinedSeqs
<1>4. (saved \o ms) \o <<>> = saved \o ms
  BY <1>3, JoinedSeqs
<1>5. Sequenced'
  BY <1>1, <1>2, <1>3 DEF Sequenced, IsSeq
<1> QED
  BY <1>1, <1>2, <1>4, <1>5 DEF Transcribed

LEMMA TranscribedStep ==
  ASSUME Transcribed, OpenedFirst, [Next]_vars
  PROVE  Transcribed'
<1> USE TranscribedIsSequenced
<1>1. CASE UNCHANGED vars \/ Stop
  BY <1>1, TranscriptAside DEF vars, log, control, Stop
<1>2. CASE \/ Fits \/ Refuses \/ RequestFails \/ RequestStopped \/ StartBatch \/ EndBatch
           \/ AfterTools \/ Settle \/ WaitedTooLong \/ NoHook
  <2>1. UNCHANGED <<conv, chat, digests, saved, readable, writing, patched, queue>>
    BY <1>2 DEF Fits, Refuses, RequestFails, RequestStopped, StartBatch, EndBatch, AfterTools,
       Settle, WaitedTooLong, NoHook, Still, Unmoved, log, control
  <2>2. pc \notin {"idle", "down"} /\ pc' \notin {"idle", "down"}
    BY <1>2 DEF Fits, Refuses, RequestFails, RequestStopped, StartBatch, EndBatch, AfterTools,
       Settle, WaitedTooLong, NoHook, Still, At
  <2> QED
    BY <2>1, <2>2, TranscriptAside
<1>3. ASSUME NEW i, NEW how, CallEnds(i, how)
      PROVE  Transcribed'
  BY <1>3, TranscriptAside DEF CallEnds, Still, Unmoved, log, control
<1>4. CASE Redirect
  <2>1. PICK r : queue' = Append(queue, r)
    BY <1>4 DEF Redirect
  <2>2. IsSeq(queue')
    BY <2>1, PartsOfSeqs
  <2> QED
    BY <1>4, <2>2, TranscriptAside DEF Redirect, log
<1>5. CASE Write
  BY <1>5, WritingKeeps
<1>6. CASE OutOfTurns \/ Budget \/ Cancelled \/ Failed \/ Finish
  <2>1. pc \notin {"idle", "down"} /\ writing = <<>>
    BY <1>6 DEF OutOfTurns, Budget, Cancelled, Failed, Finish, At
  <2>2. PICK ms, why : IsSeq(ms) /\ Close(ms, why)
    BY <1>6, AnswersAreSeqs DEF OutOfTurns, Budget, Cancelled, Failed, Finish
  <2> QED
    BY <2>1, <2>2, ClosingTranscribes
<1>7. CASE StartChat \/ CompactChat
  <2>1. IsSeq(Asked)
    BY PartsOfSeqs DEF Asked
  <2>2. PICK ms : IsSeq(ms) /\ Chat(ms)
    BY <1>7, <2>1, CompactedAreSeqs DEF StartChat, CompactChat
  <2> QED
    BY <2>2, ChatTranscribes
<1>8. CASE CompactForRequest \/ Overflow
  <2>1. PICK from \in {"request", "ask"}, to \in {"request", "ask"} : Compact(from, to)
    BY <1>8 DEF CompactForRequest, Overflow
  <2>2. /\ pc = from /\ pc' = to /\ writing = <<>> /\ UNCHANGED <<chat, queue, patched>>
    BY <2>1 DEF Compact, At, Unmoved, control
  <2>3. PICK ms \in Compactions(conv, rewrites + 1) : conv' = ms /\ Persist(ms, TRUE)
    BY <2>1 DEF Compact
  <2>4. IsSeq(ms)
    BY CompactedAreSeqs
  <2> QED
    BY <2>2, <2>3, <2>4, RewritingTranscribes
<1>9. CASE StopHookRefused
  <2>1. /\ pc = "hook" /\ pc' = "ending" /\ writing = <<>> /\ Persist(conv', TRUE)
        /\ UNCHANGED <<chat, queue, patched>>
    BY <1>9 DEF StopHookRefused, Still, At, Unmoved, control
  <2>2. PICK e : conv' = [conv EXCEPT ![Len(conv)] = e]
    BY <1>9 DEF StopHookRefused
  <2>3. Len(conv) \in Nat /\ DOMAIN conv = 1 .. Len(conv)
    BY PartsOfSeqs
  <2>4. PICK ms : ms = [conv EXCEPT ![Len(conv)] = e]
    OBVIOUS
  <2>5. ms = [j \in 1 .. Len(conv) |-> ms[j]]
    BY <2>3, <2>4
  <2>6. IsSeq(ms)
    BY <2>3, <2>5, FunctionsAreSeqs
  <2> QED
    BY <2>1, <2>2, <2>4, <2>6, RewritingTranscribes
<1>10. CASE Responds
  <2>0. PICK k, kinds : Respond(k, kinds)
    BY <1>10 DEF Responds
  <2>1. pc = "ask" /\ writing = <<>> /\ pc' \in {"cancelled", "final", "tools"}
        /\ UNCHANGED <<chat, queue, patched>>
    BY <1>10, <2>0 DEF Responds, Respond, At, Unmoved, control
  <2>2. PICK m : Say(<<m>>)
    BY <2>0 DEF Respond
  <2> QED
    BY <2>1, <2>2, AnswersAreSeqs, SayingTranscribes
<1>11. CASE AppendResult \/ StopHook
  <2>1. pc \in {"tools", "hook"} /\ writing = <<>> /\ pc' \in {"tools", "turn"}
        /\ UNCHANGED <<chat, queue, patched>>
    BY <1>11 DEF AppendResult, StopHook, Still, At, Unmoved, control
  <2>2. PICK m : Say(<<m>>)
    BY <1>11 DEF AppendResult, StopHook
  <2> QED
    BY <2>1, <2>2, AnswersAreSeqs, SayingTranscribes
<1>12. CASE Turn
  <2>1. /\ pc = "turn" /\ writing = <<>> /\ pc' \in {"cancelled", "budget", "request"}
        /\ UNCHANGED <<chat, readable, writing, patched>>
    BY <1>12 DEF Turn, At
  <2>2. CASE UNCHANGED <<conv, digests, saved, queue>>
    BY <2>1, <2>2, TranscriptAside
  <2>3. CASE /\ conv' = conv \o Texts(queue) /\ saved' = saved \o Texts(queue)
             /\ digests' = digests \o Texts(queue) /\ queue' = <<>>
    <3>1. IsSeq(Texts(queue))
      BY AnswersAreSeqs
    <3> QED
      BY <2>1, <2>3, <3>1, SayingTranscribes
  <2> QED
    BY <1>12, <2>2, <2>3 DEF Turn
<1>13. CASE Leave
  BY <1>13 DEF Leave, Transcribed, Sequenced, IsSeq
<1>14. CASE Reopen
  <2>1. PICK ms : /\ ms = saved \o Repairs(saved, "ended") /\ chat' = ms /\ digests' = ms
                  /\ patched' = IF patched = 0 /\ ms # saved THEN opens + 1 ELSE patched
    BY <1>14 DEF Reopen
  <2>2. pc = "down" /\ readable /\ pc' = "idle" /\ UNCHANGED <<conv, saved, readable, writing, queue>>
    BY <1>14 DEF Reopen, control
  <2>3. IsSeq(ms) /\ saved \o <<>> = saved
    BY <2>1, AnswersAreSeqs, JoinedSeqs
  <2>4. writing = <<>>
    BY <2>2 DEF Transcribed
  <2>5. Sequenced'
    BY <2>1, <2>2, <2>3 DEF Sequenced, IsSeq
  <2>6. patched' = 0 => patched = 0 /\ ms = saved
    BY <2>1 DEF OpenedFirst
  <2>7. patched' = 0 => saved' \o writing' = digests'
    BY <2>1, <2>2, <2>3, <2>4, <2>6
  <2> QED
    BY <2>2, <2>5, <2>7, <2>4 DEF Transcribed
<1> QED
  BY <1>1, <1>2, <1>3, <1>4, <1>5, <1>6, <1>7, <1>8, <1>9, <1>10, <1>11, <1>12, <1>13, <1>14
     DEF Next, Thread

\* The transcript, with what is still to be written of a rewrite, is the
\* conversation the agent holds, through failures, compactions, deaths of the
\* process and reopenings that had nothing to repair (persist_messages,
\* append_message: agent_run.py, session.py).
THEOREM TranscriptsAreConversations == Spec => []TranscriptIsConversation
<1>1. Transcribed => TranscriptIsConversation
  BY DEF Transcribed, TranscriptIsConversation
<1>2. Init => OpenedFirst
  BY DEF Init, OpenedFirst
<1> QED
  BY <1>1, <1>2, TranscribedInit, TranscribedStep, OpenedStep, PTL DEF Spec

-----------------------------------------------------------------------------
(* Numbers in their order, and the messages at some places of a history.    *)

(* The places of a set of numbers.                                          *)

\* How many numbers of a set are not below i.
NotBelow(I, i) == Cardinality({j \in I : j >= i})

LEMMA RanksDiffer ==
  ASSUME NEW I \in SUBSET Nat, IsFiniteSet(I)
  PROVE  /\ \A i \in I : NotBelow(I, i) \in 1 .. Cardinality(I)
         /\ \A i, j \in I : i < j => NotBelow(I, j) < NotBelow(I, i)
<1>1. ASSUME NEW i \in I
      PROVE  NotBelow(I, i) \in 1 .. Cardinality(I)
  <2>1. PICK S : S = {j \in I : j >= i}
    OBVIOUS
  <2>2. S \in SUBSET I /\ S # {}
    BY <2>1
  <2>3. IsFiniteSet(S) /\ Cardinality(S) <= Cardinality(I) /\ Cardinality(S) \in Nat
        /\ Cardinality(I) \in Nat
    BY <2>2, FS_Subset, FS_CardinalityType
  <2>4. Cardinality(S) # 0
    BY <2>2, <2>3, FS_EmptySet
  <2> QED
    BY <2>1, <2>3, <2>4 DEF NotBelow
<1>2. ASSUME NEW i \in I, NEW j \in I, i < j
      PROVE  NotBelow(I, j) < NotBelow(I, i)
  <2>1. PICK S, T : S = {h \in I : h >= i} /\ T = {h \in I : h >= j}
    OBVIOUS
  <2>2. T \in SUBSET S /\ i \in S /\ i \notin T /\ S \in SUBSET I
    <3>1. \A h \in I : h >= j => h >= i
      BY <1>2
    <3>2. ~(i >= j) /\ i >= i
      BY <1>2
    <3> QED
      BY <2>1, <3>1, <3>2
  <2>3. IsFiniteSet(S)
    BY <2>2, FS_Subset
  <2>4. Cardinality(T) <= Cardinality(S) /\ Cardinality(T) # Cardinality(S) /\ IsFiniteSet(T)
    BY <2>2, <2>3, FS_Subset
  <2>5. Cardinality(T) \in Nat /\ Cardinality(S) \in Nat
    BY <2>3, <2>4, FS_CardinalityType
  <2> QED
    BY <2>1, <2>4, <2>5 DEF NotBelow
<1> QED
  BY <1>1, <1>2

\* Nth counts from the end, and finds every number.
LEMMA NthIs ==
  ASSUME NEW I \in SUBSET Nat, IsFiniteSet(I), NEW k \in 1 .. Cardinality(I)
  PROVE  Nth(I, k) \in I /\ NotBelow(I, Nth(I, k)) = k
<1>1. PICK n : n = Cardinality(I)
  OBVIOUS
<1>2. n \in Nat
  BY <1>1, FS_CardinalityType
<1>3. PICK r : r = [i \in I |-> NotBelow(I, i)]
  OBVIOUS
<1>4. r \in [I -> 1 .. n]
  BY <1>1, <1>3, RanksDiffer
<1>5. \A i, j \in I : r[i] = r[j] => i = j
  <2>1. ASSUME NEW i \in I, NEW j \in I, i # j
        PROVE  r[i] # r[j]
    <3>1. i < j \/ j < i
      BY <2>1
    <3>2. NotBelow(I, i) \in Int /\ NotBelow(I, j) \in Int
      BY <1>4, <1>3
    <3> QED
      BY <1>3, <3>1, <3>2, RanksDiffer
  <2> QED
    BY <2>1
<1>6. r \in Injection(I, 1 .. n)
  BY <1>4, <1>5 DEF Injection, IsInjective
<1>7. IsFiniteSet(1 .. n) /\ Cardinality(1 .. n) = n
  BY <1>2, FS_Interval
<1>8. r \in Surjection(I, 1 .. n)
  BY <1>1, <1>6, <1>7, FS_Injection
<1>9. PICK i \in I : r[i] = k
  BY <1>1, <1>8 DEF Surjection
<1>10. NotBelow(I, i) = k
  BY <1>3, <1>9
<1> QED
  BY <1>10 DEF Nth, NotBelow

LEMMA PlacesInOrder ==
  ASSUME NEW I \in SUBSET Nat, IsFiniteSet(I), NEW n, n = Cardinality(I)
  PROVE  /\ n \in Nat
         /\ \A k \in 1 .. n : Nth(I, n + 1 - k) \in I
         /\ \A k, l \in 1 .. n : k < l => Nth(I, n + 1 - k) < Nth(I, n + 1 - l)
         /\ \A i \in I : \E k \in 1 .. n : Nth(I, n + 1 - k) = i
<1>1. n \in Nat
  BY FS_CardinalityType
<1>2. \A k \in 1 .. n : n + 1 - k \in 1 .. n
  BY <1>1
<1>3. \A k \in 1 .. n : Nth(I, k) \in I /\ NotBelow(I, Nth(I, k)) = k
  BY NthIs
<1>4. ASSUME NEW k \in 1 .. n, NEW l \in 1 .. n, k < l
      PROVE  Nth(I, l) < Nth(I, k)
  <2>1. PICK a, b : a = Nth(I, k) /\ b = Nth(I, l)
    OBVIOUS
  <2>2. a \in I /\ b \in I /\ NotBelow(I, a) = k /\ NotBelow(I, b) = l
    BY <1>3, <2>1
  <2>3. a # b
    BY <1>4, <2>2
  <2>4. ~(a < b)
    BY <1>4, <2>2, RanksDiffer
  <2>5. a \in Nat /\ b \in Nat
    BY <2>2
  <2> QED
    BY <2>1, <2>3, <2>4, <2>5
<1>5. ASSUME NEW i \in I
      PROVE  \E k \in 1 .. n : Nth(I, k) = i
  <2>1. PICK k \in 1 .. n : k = NotBelow(I, i)
    BY RanksDiffer
  <2>2. PICK a \in I : a = Nth(I, k) /\ NotBelow(I, a) = k
    BY <1>3
  <2>3. ~(a < i) /\ ~(i < a)
    BY <2>1, <2>2, RanksDiffer
  <2>4. a = i
    BY <2>3
  <2> QED
    BY <2>2, <2>4
<1>6. ASSUME NEW k \in 1 .. n, NEW l \in 1 .. n, k < l
      PROVE  Nth(I, n + 1 - k) < Nth(I, n + 1 - l)
  <2>1. n + 1 - l < n + 1 - k
    BY <1>1, <1>6
  <2> QED
    BY <1>2, <1>4, <2>1
<1>7. ASSUME NEW i \in I
      PROVE  \E k \in 1 .. n : Nth(I, n + 1 - k) = i
  <2>1. PICK k \in 1 .. n : Nth(I, k) = i
    BY <1>5
  <2>2. n + 1 - k \in 1 .. n /\ n + 1 - (n + 1 - k) = k
    BY <1>1
  <2> QED
    BY <2>1, <2>2
<1> QED
  BY <1>1, <1>2, <1>3, <1>6, <1>7

\* What is picked keeps its order, and everything that was asked for is there.
Picks(f, ms, I, new) ==
  /\ f \in [1 .. Len(new) -> I]
  /\ \A k, l \in 1 .. Len(new) : k < l => f[k] < f[l]
  /\ \A i \in I : \E k \in 1 .. Len(new) : f[k] = i
  /\ \A k \in 1 .. Len(new) : new[k] = ms[f[k]]

LEMMA PickIs ==
  ASSUME NEW ms, IsSeq(ms), NEW I \in SUBSET DOMAIN ms
  PROVE  IsSeq(Pick(ms, I)) /\ \E f : Picks(f, ms, I, Pick(ms, I))
<1>1. Len(ms) \in Nat /\ DOMAIN ms = 1 .. Len(ms) /\ IsFiniteSet(DOMAIN ms)
  BY PartsOfSeqs, FS_Interval
<1>2. I \in SUBSET Nat /\ IsFiniteSet(I)
  BY <1>1, FS_Subset
<1>3. PICK n : n = Cardinality(I)
  OBVIOUS
<1>4. /\ n \in Nat
      /\ \A k \in 1 .. n : Nth(I, n + 1 - k) \in I
      /\ \A k, l \in 1 .. n : k < l => Nth(I, n + 1 - k) < Nth(I, n + 1 - l)
      /\ \A i \in I : \E k \in 1 .. n : Nth(I, n + 1 - k) = i
  BY <1>2, <1>3, PlacesInOrder
<1>5. PICK new : new = Pick(ms, I)
  OBVIOUS
<1>6. new = [k \in 1 .. n |-> ms[Nth(I, n + 1 - k)]]
  BY <1>3, <1>5 DEF Pick
<1>7. new = [k \in 1 .. n |-> new[k]] /\ \A k \in 1 .. n : new[k] = ms[Nth(I, n + 1 - k)]
  BY <1>6
<1>8. IsSeq(new)
  BY <1>4, <1>7, FunctionsAreSeqs
<1>9. Len(new) = n
  <2>1. DOMAIN new = 1 .. n /\ DOMAIN new = 1 .. Len(new) /\ Len(new) \in Nat
    BY <1>6, <1>8, PartsOfSeqs
  <2> QED
    BY <1>4, <2>1
<1>10. PICK f : f = [k \in 1 .. n |-> Nth(I, n + 1 - k)]
  OBVIOUS
<1>11. Picks(f, ms, I, new)
  BY <1>4, <1>7, <1>9, <1>10 DEF Picks
<1> QED
  BY <1>5, <1>8, <1>11

-----------------------------------------------------------------------------
(* Messages, and histories whose last calls are answered.                   *)

(* Messages, and the calls of the last answer that nothing answers.         *)

IsMessage(m) ==
  \/ \E u : m = User(u)
  \/ \E x, n, k : k \subseteq {n} \X (1 .. MaxCalls) /\ m = [role |-> "assistant", id |-> x, calls |-> k]
  \/ \E c, how : m = Result(c, how)
  \/ \E n : m = Summary(n)

Typed(ms) == IsSeq(ms) /\ \A i \in 1 .. Len(ms) : IsMessage(ms[i])

LEMMA ConcatIs ==
  ASSUME NEW s, NEW t, IsSeq(s), IsSeq(t)
  PROVE  /\ Len(s) \in Nat /\ Len(t) \in Nat /\ Len(s \o t) = Len(s) + Len(t)
         /\ IsSeq(s \o t)
         /\ \A i \in 1 .. Len(s) : (s \o t)[i] = s[i]
         /\ \A i \in 1 .. Len(t) : (s \o t)[Len(s) + i] = t[i]
         /\ \A i \in Len(s) + 1 .. Len(s \o t) : (s \o t)[i] = t[i - Len(s)] /\ i - Len(s) \in 1 .. Len(t)
<1>1. PICK S : s \in Seq(S) /\ t \in Seq(S)
  BY SeqsTogether
<1>2. /\ s \o t \in Seq(S) /\ Len(s \o t) = Len(s) + Len(t)
      /\ \A i \in 1 .. Len(s) + Len(t) : (s \o t)[i] = IF i <= Len(s) THEN s[i] ELSE t[i - Len(s)]
  BY <1>1, ConcatProperties
<1>3. Len(s) \in Nat /\ Len(t) \in Nat
  BY PartsOfSeqs
<1>4. \A i \in 1 .. Len(s) : (s \o t)[i] = s[i]
  BY <1>2, <1>3
<1>5. \A i \in Len(s) + 1 .. Len(s) + Len(t) : (s \o t)[i] = t[i - Len(s)] /\ i - Len(s) \in 1 .. Len(t)
  BY <1>2, <1>3
<1>6. ASSUME NEW i \in 1 .. Len(t)
      PROVE  (s \o t)[Len(s) + i] = t[i]
  <2>1. Len(s) + i \in Len(s) + 1 .. Len(s) + Len(t) /\ Len(s) + i - Len(s) = i
    BY <1>3
  <2> QED
    BY <1>5, <2>1
<1> QED
  BY <1>2, <1>3, <1>4, <1>5, <1>6 DEF IsSeq

\* Every call of the last answer with calls but those of C has been answered.
Settled(ms, C) ==
  \A a \in Callers(ms) : \A c \in ms[a].calls \ C :
    (\E b \in Callers(ms) : a < b) \/ (\E i \in a + 1 .. Len(ms) : Has(ms[i], c))

LEMMA SettledIs ==
  ASSUME NEW ms, IsSeq(ms), NEW C
  PROVE  Settled(ms, C) <=> Unanswered(ms) \subseteq C
<1>1. Len(ms) \in Nat /\ DOMAIN ms = 1 .. Len(ms)
  BY PartsOfSeqs
<1>2. Callers(ms) \in SUBSET (1 .. Len(ms)) /\ Callers(ms) \in SUBSET (0 .. Len(ms))
  BY <1>1 DEF Callers
<1>3. CASE Callers(ms) = {}
  BY <1>3 DEF Settled, Unanswered
<1>4. CASE Callers(ms) # {}
  <2>1. PICK a : a = Latest(Callers(ms))
    OBVIOUS
  <2>2. a \in Callers(ms) /\ \A j \in Callers(ms) : j <= a
    BY <1>1, <1>2, <1>4, <2>1, LatestIs
  <2>3. Unanswered(ms) = {c \in ms[a].calls : ~\E i \in a+1 .. Len(ms) : Has(ms[i], c)}
    BY <1>4, <2>1 DEF Unanswered
  <2>4. ASSUME Settled(ms, C), NEW c \in Unanswered(ms)
        PROVE  c \in C
    <3>1. ~\E b \in Callers(ms) : a < b
      BY <1>2, <2>2
    <3> QED
      BY <2>2, <2>3, <2>4, <3>1 DEF Settled
  <2>5. ASSUME Unanswered(ms) \subseteq C, NEW b \in Callers(ms), NEW c \in ms[b].calls \ C
        PROVE  (\E d \in Callers(ms) : b < d) \/ (\E i \in b + 1 .. Len(ms) : Has(ms[i], c))
    <3>1. CASE b = a
      BY <2>3, <2>5, <3>1
    <3>2. CASE b # a
      BY <1>2, <2>2, <3>2
    <3> QED
      BY <3>1, <3>2
  <2> QED
    BY <2>4, <2>5 DEF Settled
<1> QED
  BY <1>3, <1>4

LEMMA CallersAre ==
  ASSUME NEW ms, IsSeq(ms)
  PROVE  /\ Len(ms) \in Nat
         /\ \A i : i \in Callers(ms) <=> /\ i \in 1 .. Len(ms)
                                       /\ ms[i].role = "assistant" /\ ms[i].calls # {}
BY PartsOfSeqs DEF Callers

LEMMA SettledTogether ==
  ASSUME NEW s, NEW t, IsSeq(s), IsSeq(t), NEW C, Settled(s, C), Settled(t, C)
  PROVE  Settled(s \o t, C)
<1>1. PICK u, n, m : u = s \o t /\ n = Len(s) /\ m = Len(t)
  OBVIOUS
<1>2. /\ n \in Nat /\ m \in Nat /\ Len(u) = n + m /\ IsSeq(u)
      /\ \A i \in 1 .. n : u[i] = s[i]
      /\ \A i \in 1 .. m : u[n + i] = t[i]
      /\ \A i \in n + 1 .. Len(u) : u[i] = t[i - n] /\ i - n \in 1 .. m
  BY <1>1, ConcatIs
<1>2a. /\ \A i : i \in Callers(u) <=> i \in 1 .. n + m /\ u[i].role = "assistant" /\ u[i].calls # {}
       /\ \A i : i \in Callers(s) <=> i \in 1 .. n /\ s[i].role = "assistant" /\ s[i].calls # {}
       /\ \A i : i \in Callers(t) <=> i \in 1 .. m /\ t[i].role = "assistant" /\ t[i].calls # {}
  <2>1. Len(u) = n + m /\ Len(s) = n /\ Len(t) = m
    BY <1>1, <1>2
  <2>2. \A i : i \in Callers(u) <=> i \in 1 .. Len(u) /\ u[i].role = "assistant" /\ u[i].calls # {}
    BY <1>2, CallersAre
  <2>3. \A i : i \in Callers(s) <=> i \in 1 .. Len(s) /\ s[i].role = "assistant" /\ s[i].calls # {}
    BY CallersAre
  <2>4. \A i : i \in Callers(t) <=> i \in 1 .. Len(t) /\ t[i].role = "assistant" /\ t[i].calls # {}
    BY CallersAre
  <2> QED
    BY <2>1, <2>2, <2>3, <2>4
<1>3. ASSUME NEW a \in Callers(u), NEW c \in u[a].calls \ C
      PROVE  (\E b \in Callers(u) : a < b) \/ (\E i \in a + 1 .. Len(u) : Has(u[i], c))
  <2>1. a \in 1 .. n + m
    BY <1>2, CallersAre
  <2>2. CASE a <= n
    <3>1. a \in Callers(s) /\ c \in s[a].calls \ C
      <4>1. a \in 1 .. n /\ u[a] = s[a]
        BY <1>2, <2>1, <2>2
      <4> QED
        BY <1>2a, <1>3, <4>1
    <3>2. CASE \E b \in Callers(s) : a < b
      <4>1. PICK b \in Callers(s) : a < b
        BY <3>2
      <4>2. b \in Callers(u)
        <5>1. b \in 1 .. n /\ b \in 1 .. n + m /\ u[b] = s[b]
          BY <1>2, <1>2a
        <5> QED
          BY <1>2a, <5>1
      <4> QED
        BY <4>1, <4>2
    <3>3. CASE \E i \in a + 1 .. n : Has(s[i], c)
      <4>1. PICK i \in a + 1 .. n : Has(s[i], c)
        BY <3>3
      <4>2. i \in a + 1 .. Len(u) /\ u[i] = s[i]
        BY <1>2, <2>1
      <4> QED
        BY <4>1, <4>2
    <3> QED
      BY <1>1, <3>1, <3>2, <3>3 DEF Settled
  <2>3. CASE n < a
    <3>1. a - n \in Callers(t) /\ c \in t[a - n].calls \ C
      <4>1. a - n \in 1 .. m /\ u[a] = t[a - n]
        BY <1>2, <2>1, <2>3
      <4> QED
        BY <1>2a, <1>3, <4>1
    <3>2. CASE \E b \in Callers(t) : a - n < b
      <4>1. PICK b \in Callers(t) : a - n < b
        BY <3>2
      <4>2. b \in 1 .. m
        BY <1>1, CallersAre
      <4>3. n + b \in 1 .. n + m /\ a < n + b /\ u[n + b] = t[b]
        BY <1>2, <2>1, <4>1, <4>2
      <4>4. n + b \in Callers(u)
        BY <1>2a, <4>3
      <4> QED
        BY <4>3, <4>4
    <3>3. CASE \E i \in (a - n) + 1 .. m : Has(t[i], c)
      <4>1. PICK i \in (a - n) + 1 .. m : Has(t[i], c)
        BY <3>3
      <4>2. n + i \in a + 1 .. Len(u) /\ u[n + i] = t[i]
        BY <1>2, <2>1, <2>3
      <4> QED
        BY <4>1, <4>2
    <3> QED
      BY <1>1, <3>1, <3>2, <3>3 DEF Settled
  <2> QED
    BY <1>2, <2>1, <2>2, <2>3
<1> QED
  BY <1>1, <1>3 DEF Settled

LEMMA SettledAfter ==
  ASSUME NEW s, IsSeq(s), Settled(s, {}), NEW k \in 0 .. Len(s)
  PROVE  Settled(SubSeq(s, k + 1, Len(s)), {})
<1>1. PICK t, n : t = SubSeq(s, k + 1, Len(s)) /\ n = Len(s)
  OBVIOUS
<1>2. n \in Nat /\ DOMAIN s = 1 .. n
  BY <1>1, PartsOfSeqs
<1>3. Len(t) = n - k /\ IsSeq(t) /\ \A i \in 1 .. n - k : t[i] = s[k + i]
  <2>1. PICK S : s \in Seq(S)
    BY DEF IsSeq
  <2>2. \A i \in k + 1 .. n : s[i] \in S
    BY <1>1, <1>2, <2>1
  <2>3. k + 1 \in Int /\ n \in Int
    BY <1>2
  <2>4. /\ t \in Seq(S) /\ Len(t) = IF k + 1 <= n THEN n - (k + 1) + 1 ELSE 0
        /\ \A i \in 1 .. n - (k + 1) + 1 : t[i] = s[(k + 1) + i - 1]
    BY <1>1, <2>2, <2>3, SubSeqProperties
  <2>5. Len(t) = n - k
    BY <1>1, <1>2, <2>4
  <2>6. \A i \in 1 .. n - k : i \in 1 .. n - (k + 1) + 1 /\ (k + 1) + i - 1 = k + i
    BY <1>2
  <2>7. \A i \in 1 .. n - k : t[i] = s[k + i]
    BY <2>4, <2>6
  <2> QED
    BY <2>4, <2>5, <2>7 DEF IsSeq
<1>3a. /\ \A i : i \in Callers(s) <=> i \in 1 .. n /\ s[i].role = "assistant" /\ s[i].calls # {}
       /\ \A i : i \in Callers(t) <=> i \in 1 .. n - k /\ t[i].role = "assistant" /\ t[i].calls # {}
  BY <1>1, <1>3, CallersAre
<1>4. ASSUME NEW a \in Callers(t), NEW c \in t[a].calls
      PROVE  (\E b \in Callers(t) : a < b) \/ (\E i \in a + 1 .. Len(t) : Has(t[i], c))
  <2>0. a \in 1 .. n - k /\ k + a \in 1 .. n /\ t[a] = s[k + a]
    BY <1>2, <1>3, <1>3a
  <2>1. a \in 1 .. n - k /\ k + a \in Callers(s) /\ c \in s[k + a].calls
    BY <1>3a, <1>4, <2>0
  <2>2. CASE \E b \in Callers(s) : k + a < b
    <3>1. PICK b \in Callers(s) : k + a < b
      BY <2>2
    <3>2. b \in 1 .. n /\ b - k \in 1 .. n - k /\ k + (b - k) = b /\ a < b - k
      BY <1>1, <1>2, <2>1, <3>1, CallersAre
    <3>3. t[b - k] = s[b]
      BY <1>3, <3>2
    <3>4. b - k \in Callers(t)
      BY <1>3a, <3>1, <3>2, <3>3
    <3> QED
      BY <3>2, <3>4
  <2>3. CASE \E i \in (k + a) + 1 .. n : Has(s[i], c)
    <3>1. PICK i \in (k + a) + 1 .. n : Has(s[i], c)
      BY <2>3
    <3>2. i - k \in a + 1 .. Len(t) /\ i - k \in 1 .. n - k /\ k + (i - k) = i
      BY <1>2, <1>3, <2>1
    <3> QED
      BY <1>3, <3>1, <3>2
  <2> QED
    BY <1>1, <2>1, <2>2, <2>3 DEF Settled
<1> QED
  BY <1>1, <1>4 DEF Settled

-----------------------------------------------------------------------------
(* Parts of a history are histories.                                        *)

LEMMA MessagesAre ==
  /\ \A u : IsMessage(User(u)) /\ User(u).role = "user"
  /\ \A n : IsMessage(Summary(n)) /\ Summary(n).role = "system"
  /\ \A c, how : IsMessage(Result(c, how)) /\ Result(c, how).role = "tool" /\ Result(c, how).call = c
  /\ \A n, k : /\ Answer(n, k).role = "assistant" /\ Answer(n, k).calls = k
               /\ k \subseteq {n} \X (1 .. MaxCalls) => IsMessage(Answer(n, k))
<1>1. \A u : IsMessage(User(u)) /\ User(u).role = "user"
  BY DEF IsMessage, User
<1>2. \A n : IsMessage(Summary(n)) /\ Summary(n).role = "system"
  BY DEF IsMessage, Summary
<1>3. \A c, how : IsMessage(Result(c, how)) /\ Result(c, how).role = "tool" /\ Result(c, how).call = c
  BY DEF IsMessage, Result
<1>4. \A n, k : Answer(n, k).role = "assistant" /\ Answer(n, k).calls = k
  BY DEF Answer
<1>5. ASSUME NEW n, NEW k, k \subseteq {n} \X (1 .. MaxCalls)
      PROVE  IsMessage(Answer(n, k))
  <2>1. PICK x : x = <<"answer", n>>
    OBVIOUS
  <2>2. Answer(n, k) = [role |-> "assistant", id |-> x, calls |-> k]
    BY <2>1 DEF Answer
  <2> QED
    BY <1>5, <2>2 DEF IsMessage
<1> QED
  BY <1>1, <1>2, <1>3, <1>4, <1>5

LEMMA OneMessage ==
  ASSUME NEW m
  PROVE  /\ IsSeq(<<m>>) /\ Len(<<m>>) = 1 /\ <<m>>[1] = m
         /\ IsMessage(m) => Typed(<<m>>)
<1>1. IsSeq(<<m>>)
  BY AnswersAreSeqs
<1>2. Len(<<m>>) = 1 /\ <<m>>[1] = m
  OBVIOUS
<1>3. \A i \in 1 .. Len(<<m>>) : i = 1
  BY <1>2
<1>4. IsMessage(m) => \A i \in 1 .. Len(<<m>>) : IsMessage(<<m>>[i])
  BY <1>2, <1>3
<1> QED
  BY <1>1, <1>2, <1>4 DEF Typed

LEMMA TypedTogether ==
  ASSUME NEW s, NEW t, Typed(s), Typed(t)
  PROVE  Typed(s \o t)
<1>1. IsSeq(s) /\ IsSeq(t)
  BY DEF Typed
<1>2. PICK u, n, m : u = s \o t /\ n = Len(s) /\ m = Len(t)
  OBVIOUS
<1>3. /\ n \in Nat /\ m \in Nat /\ Len(u) = n + m /\ IsSeq(u)
      /\ \A i \in 1 .. n : u[i] = s[i]
      /\ \A i \in n + 1 .. Len(u) : u[i] = t[i - n] /\ i - n \in 1 .. m
  BY <1>1, <1>2, ConcatIs
<1>4. ASSUME NEW i \in 1 .. Len(u)
      PROVE  IsMessage(u[i])
  <2>1. i \in 1 .. n \/ i \in n + 1 .. Len(u)
    BY <1>3
  <2>2. CASE i \in 1 .. n
    <3>1. u[i] = s[i] /\ IsMessage(s[i])
      BY <1>2, <1>3, <2>2 DEF Typed
    <3> QED
      BY <3>1
  <2>3. CASE i \in n + 1 .. Len(u)
    <3>1. u[i] = t[i - n] /\ i - n \in 1 .. Len(t)
      BY <1>2, <1>3, <2>3
    <3>2. IsMessage(t[i - n])
      BY <3>1 DEF Typed
    <3> QED
      BY <3>1, <3>2
  <2> QED
    BY <2>1, <2>2, <2>3
<1> QED
  BY <1>2, <1>3, <1>4 DEF Typed

LEMMA PartsAre ==
  ASSUME NEW s, IsSeq(s), NEW k \in 0 .. Len(s)
  PROVE  /\ Len(SubSeq(s, k + 1, Len(s))) = Len(s) - k
         /\ \A i \in 1 .. Len(s) - k : SubSeq(s, k + 1, Len(s))[i] = s[k + i]
         /\ Len(SubSeq(s, 1, k)) = k
         /\ \A i \in 1 .. k : SubSeq(s, 1, k)[i] = s[i]
<1>1. Len(s) \in Nat /\ DOMAIN s = 1 .. Len(s)
  BY PartsOfSeqs
<1>2. PICK S : s \in Seq(S)
  BY DEF IsSeq
<1>3. PICK n : n = Len(s)
  OBVIOUS
<1>4. /\ \A i \in k + 1 .. n : s[i] \in S
      /\ \A i \in 1 .. k : s[i] \in S
  BY <1>1, <1>2, <1>3
<1>5. k + 1 \in Int /\ n \in Int /\ k \in Int /\ 1 \in Int /\ k <= n
  BY <1>1, <1>3
<1>6. PICK t : t = SubSeq(s, k + 1, n)
  OBVIOUS
<1>7. Len(t) = n - k /\ \A i \in 1 .. n - k : t[i] = s[k + i]
  <2>1. /\ Len(t) = IF k + 1 <= n THEN n - (k + 1) + 1 ELSE 0
        /\ \A i \in 1 .. n - (k + 1) + 1 : t[i] = s[(k + 1) + i - 1]
    BY <1>4, <1>5, <1>6, SubSeqProperties
  <2>2. \A i \in 1 .. n - k : i \in 1 .. n - (k + 1) + 1 /\ (k + 1) + i - 1 = k + i
    BY <1>5
  <2>3. \A i \in 1 .. n - k : t[i] = s[k + i]
    BY <2>1, <2>2
  <2> QED
    BY <1>5, <2>1, <2>3
<1>8. PICK h : h = SubSeq(s, 1, k)
  OBVIOUS
<1>9. Len(h) = k /\ \A i \in 1 .. k : h[i] = s[i]
  <2>1. /\ Len(h) = IF 1 <= k THEN k - 1 + 1 ELSE 0
        /\ \A i \in 1 .. k - 1 + 1 : h[i] = s[1 + i - 1]
    BY <1>4, <1>5, <1>8, SubSeqProperties
  <2>2. \A i \in 1 .. k : i \in 1 .. k - 1 + 1 /\ 1 + i - 1 = i
    BY <1>5
  <2>3. \A i \in 1 .. k : h[i] = s[i]
    BY <2>1, <2>2
  <2> QED
    BY <1>5, <2>1, <2>3
<1> QED
  BY <1>3, <1>6, <1>7, <1>8, <1>9

LEMMA TypedParts ==
  ASSUME NEW s, Typed(s), NEW k \in 0 .. Len(s)
  PROVE  Typed(SubSeq(s, 1, k)) /\ Typed(SubSeq(s, k + 1, Len(s)))
<1>1. IsSeq(s) /\ Len(s) \in Nat
  BY PartsOfSeqs DEF Typed
<1>2. IsSeq(SubSeq(s, 1, k)) /\ IsSeq(SubSeq(s, k + 1, Len(s)))
  BY <1>1, PartsOfSeqs
<1>3. \A i \in 1 .. Len(s) - k : k + i \in 1 .. Len(s)
  BY <1>1
<1>4. \A i \in 1 .. k : i \in 1 .. Len(s)
  BY <1>1
<1> QED
  BY <1>1, <1>2, <1>3, <1>4, PartsAre DEF Typed

LEMMA TypedPick ==
  ASSUME NEW ms, Typed(ms), NEW I \in SUBSET DOMAIN ms
  PROVE  Typed(Pick(ms, I))
<1>1. IsSeq(ms) /\ DOMAIN ms = 1 .. Len(ms)
  BY PartsOfSeqs DEF Typed
<1>2. PICK new : new = Pick(ms, I)
  OBVIOUS
<1>3. IsSeq(new) /\ \E f : Picks(f, ms, I, new)
  BY <1>1, <1>2, PickIs
<1>4. PICK f : Picks(f, ms, I, new)
  BY <1>3
<1>5. \A k \in 1 .. Len(new) : f[k] \in 1 .. Len(ms) /\ new[k] = ms[f[k]]
  BY <1>1, <1>4 DEF Picks
<1> QED
  BY <1>2, <1>3, <1>5 DEF Typed

LEMMA TypedTexts ==
  ASSUME NEW q, IsSeq(q)
  PROVE  /\ Typed(Texts(q))
         /\ \A i \in 1 .. Len(Texts(q)) : Texts(q)[i].role = "user"
<1>1. Len(q) \in Nat /\ DOMAIN q = 1 .. Len(q)
  BY PartsOfSeqs
<1>2. PICK t : t = Texts(q)
  OBVIOUS
<1>3. t = [i \in 1 .. Len(q) |-> User(q[i])]
  BY <1>1, <1>2 DEF Texts
<1>4. IsSeq(t) /\ Len(t) \in Nat /\ DOMAIN t = 1 .. Len(t)
  BY <1>2, AnswersAreSeqs, PartsOfSeqs
<1>5. DOMAIN t = 1 .. Len(q)
  BY <1>3
<1>6. \A i \in 1 .. Len(t) : t[i] = User(q[i])
  BY <1>3, <1>4, <1>5
<1>7. \A i \in 1 .. Len(t) : IsMessage(t[i]) /\ t[i].role = "user"
  BY <1>6, MessagesAre
<1> QED
  BY <1>2, <1>4, <1>7 DEF Typed

-----------------------------------------------------------------------------
(* Compaction keeps a settled history settled.                              *)

\* A window begins at the beginning, at an answer or at a prompt; what stays of
\* the messages before it are prompts.
LEMMA WindowsAre ==
  ASSUME NEW ms, IsSeq(ms), NEW w \in Windows(ms)
  PROVE  /\ w.start \in Nat
         /\ w.start = 1 \/ w.start \in Where(ms, "assistant") \/ w.start \in Where(ms, "user")
         /\ w.prefix \subseteq {i \in Where(ms, "user") : i < w.start}
<1>1. Len(ms) \in Nat /\ DOMAIN ms = 1 .. Len(ms) /\ IsFiniteSet(DOMAIN ms)
  <2>1. Len(ms) \in Nat /\ DOMAIN ms = 1 .. Len(ms)
    BY PartsOfSeqs
  <2>2. IsFiniteSet(1 .. Len(ms))
    BY <2>1, FS_Interval
  <2> QED
    BY <2>1, <2>2
<1>2. PICK us, replies : us = Where(ms, "user") /\ replies = Where(ms, "assistant")
  OBVIOUS
<1>3. us \in SUBSET DOMAIN ms /\ replies \in SUBSET DOMAIN ms /\ us \in SUBSET Nat /\ replies \in SUBSET Nat
  BY <1>1, <1>2 DEF Where
<1>4. IsFiniteSet(us) /\ IsFiniteSet(replies) /\ Cardinality(us) \in Nat /\ Cardinality(replies) \in Nat
  BY <1>1, <1>3, FS_Subset, FS_CardinalityType
<1>5. PICK keep \in 1 .. RecentTurns, byAnswers \in BOOLEAN :
        /\ w = Window(ms, keep, byAnswers)
        /\ ~byAnswers => RecentTurns <= Cardinality(us)
  BY <1>2 DEF Windows
<1>6. PICK start : start = RecentStart(ms, keep, byAnswers)
  OBVIOUS
<1>7. w.start = start /\ w.prefix = Prefix(ms, start, byAnswers)
  BY <1>5, <1>6 DEF Window
<1>8. start = 1 \/ start \in replies \/ start \in us
  <2>1. CASE byAnswers /\ Cardinality(replies) <= keep
    BY <1>2, <1>6, <2>1 DEF RecentStart
  <2>2. CASE byAnswers /\ ~(Cardinality(replies) <= keep)
    <3>1. start = Nth(replies, keep)
      BY <1>2, <1>6, <2>2 DEF RecentStart
    <3>2. keep \in 1 .. Cardinality(replies)
      <4>1. keep \in Nat /\ 1 <= keep
        BY AgentAssumption
      <4>2. ~(Cardinality(replies) <= keep)
        BY <2>2, Zenon
      <4> QED
        BY <1>4, <4>1, <4>2
    <3> QED
      BY <1>3, <1>4, <3>1, <3>2, NthIs
  <2>3. CASE ~byAnswers
    <3>1. start = Nth(us, keep)
      BY <1>2, <1>6, <2>3 DEF RecentStart
    <3>2. keep \in 1 .. Cardinality(us)
      BY <1>4, <1>5, <2>3, AgentAssumption
    <3> QED
      BY <1>3, <1>4, <3>1, <3>2, NthIs
  <2> QED
    BY <2>1, <2>2, <2>3
<1>9. w.prefix \subseteq {i \in us : i < start}
  BY <1>2, <1>7 DEF Prefix
<1> QED
  BY <1>2, <1>3, <1>7, <1>8, <1>9

\* The messages of a recent window that are not summaries.
Recent(ms, w) == {i \in DOMAIN ms : i >= w.start /\ ms[i].role # "system"}

LEMMA CutIs ==
  ASSUME NEW ms, NEW w, NEW n
  PROVE  \/ Cut(ms, w, n) = ms
         \/ Cut(ms, w, n) = (Pick(ms, w.prefix) \o <<Summary(n)>>) \o Pick(ms, Recent(ms, w))
BY DEF Cut, Recent

LEMMA ToolsAre ==
  ASSUME NEW m, IsMessage(m), m.role = "tool"
  PROVE  \E c, how : m = Result(c, how)
<1>1. \A u : User(u).role # "tool"
  BY DEF User
<1>2. \A n : Summary(n).role # "tool"
  BY DEF Summary
<1>3. ASSUME NEW x, NEW k, m = [role |-> "assistant", id |-> x, calls |-> k]
      PROVE  FALSE
  BY <1>3
<1> QED
  BY <1>1, <1>2, <1>3 DEF IsMessage

\* Clearing changes the text of one result.
LEMMA ClearedIs ==
  ASSUME NEW ms, Typed(ms), NEW w
  PROVE  \/ Cleared(ms, w) = ms
         \/ \E i \in 1 .. Len(ms) : \E c, how, again :
              ms[i] = Result(c, how) /\ Cleared(ms, w) = [ms EXCEPT ![i] = Result(c, again)]
<1>1. IsSeq(ms) /\ Len(ms) \in Nat /\ DOMAIN ms = 1 .. Len(ms)
  BY PartsOfSeqs DEF Typed
<1>2. PICK full : full = {i \in DOMAIN ms : i < w.start /\ ms[i].role = "tool" /\ ms[i].how = "result"}
  OBVIOUS
<1>3. CASE full = {}
  BY <1>2, <1>3 DEF Cleared
<1>4. CASE full # {}
  <2>1. PICK i : i = CHOOSE x \in full : \A j \in full : x <= j
    OBVIOUS
  <2>2. Cleared(ms, w) = [ms EXCEPT ![i].how = "cleared"]
    BY <1>2, <1>4, <2>1 DEF Cleared
  <2>3. i \in full
    <3>1. full \in SUBSET Nat
      BY <1>1, <1>2
    <3>2. \E x \in full : \A y \in full : x <= y
      BY <1>4, <3>1, LeastNatural
    <3> QED
      BY <2>1, <3>2
  <2>4. i \in 1 .. Len(ms) /\ ms[i].role = "tool"
    BY <1>1, <1>2, <2>3
  <2>5. IsMessage(ms[i])
    BY <2>4 DEF Typed
  <2>6. PICK c, how : ms[i] = Result(c, how)
    BY <2>4, <2>5, ToolsAre
  <2>7. [ms[i] EXCEPT !.how = "cleared"] = Result(c, "cleared")
    BY <2>6 DEF Result
  <2>8. Cleared(ms, w) = [ms EXCEPT ![i] = Result(c, "cleared")]
    BY <2>2, <2>7
  <2>9. PICK again : again = "cleared"
    OBVIOUS
  <2>10. Cleared(ms, w) = [ms EXCEPT ![i] = Result(c, again)]
    BY <2>8, <2>9
  <2>11. \E j \in 1 .. Len(ms) : \E d, h, g :
           ms[j] = Result(d, h) /\ Cleared(ms, w) = [ms EXCEPT ![j] = Result(d, g)]
    BY <2>4, <2>6, <2>10
  <2> QED
    BY <2>11
<1> QED
  BY <1>3, <1>4

LEMMA TypedCompactions ==
  ASSUME NEW ms, Typed(ms), NEW n, NEW new \in Compactions(ms, n)
  PROVE  Typed(new)
<1>1. IsSeq(ms) /\ DOMAIN ms = 1 .. Len(ms) /\ Len(ms) \in Nat
  BY PartsOfSeqs DEF Typed
<1>2. ASSUME NEW w \in Windows(ms)
      PROVE  Typed(Cut(ms, w, n))
  <2>1. w.prefix \in SUBSET DOMAIN ms /\ Recent(ms, w) \in SUBSET DOMAIN ms
    BY <1>1, WindowsAre DEF Where, Recent
  <2>2. Typed(Pick(ms, w.prefix)) /\ Typed(Pick(ms, Recent(ms, w))) /\ Typed(<<Summary(n)>>)
    BY <2>1, TypedPick, OneMessage, MessagesAre
  <2>3. Typed((Pick(ms, w.prefix) \o <<Summary(n)>>) \o Pick(ms, Recent(ms, w)))
    BY <2>2, TypedTogether
  <2> QED
    BY <2>3, CutIs
<1>3. ASSUME NEW w \in Windows(ms)
      PROVE  Typed(Cleared(ms, w))
  <2>1. CASE Cleared(ms, w) = ms
    BY <2>1
  <2>2. ASSUME NEW i \in 1 .. Len(ms), NEW c, NEW again, Cleared(ms, w) = [ms EXCEPT ![i] = Result(c, again)]
        PROVE  Typed(Cleared(ms, w))
    <3>1. PICK m : m = Result(c, again) /\ IsMessage(m)
      BY MessagesAre
    <3>2. PICK new2 : new2 = [ms EXCEPT ![i] = m]
      OBVIOUS
    <3>3. /\ new2 = [j \in 1 .. Len(ms) |-> new2[j]] /\ DOMAIN new2 = 1 .. Len(ms)
          /\ \A j \in 1 .. Len(ms) : new2[j] = IF j = i THEN m ELSE ms[j]
      BY <1>1, <3>2
    <3>4. IsSeq(new2)
      BY <1>1, <3>3, FunctionsAreSeqs
    <3>5. Len(new2) = Len(ms)
      BY <1>1, <3>3, <3>4, PartsOfSeqs
    <3>6. \A j \in 1 .. Len(new2) : IsMessage(new2[j])
      BY <3>1, <3>3, <3>5 DEF Typed
    <3>7. Typed(new2)
      BY <3>4, <3>6 DEF Typed
    <3> QED
      BY <2>2, <3>1, <3>2, <3>7
  <2> QED
    BY <2>1, <2>2, ClearedIs
<1> QED
  BY <1>2, <1>3 DEF Compactions

LEMMA NobodyCalls ==
  ASSUME NEW ms, IsSeq(ms), NEW C, \A i \in 1 .. Len(ms) : ms[i].role # "assistant"
  PROVE  Settled(ms, C)
BY CallersAre DEF Settled

\* Compaction leaves the calls of the last answer answered.
LEMMA CompactedSettle ==
  ASSUME NEW ms, Typed(ms), Settled(ms, {}), NEW n, NEW new \in Compactions(ms, n)
  PROVE  Settled(new, {})
<1>1. IsSeq(ms) /\ DOMAIN ms = 1 .. Len(ms) /\ Len(ms) \in Nat
  BY PartsOfSeqs DEF Typed
<1>2. \A i : i \in Callers(ms) <=> i \in 1 .. Len(ms) /\ ms[i].role = "assistant" /\ ms[i].calls # {}
  BY <1>1, CallersAre
<1>3. ASSUME NEW w \in Windows(ms)
      PROVE  Settled(Pick(ms, Recent(ms, w)), {})
  <2>1. PICK I : I = Recent(ms, w) /\ I \in SUBSET DOMAIN ms
    BY DEF Recent
  <2>2. PICK p : p = Pick(ms, I)
    OBVIOUS
  <2>3. IsSeq(p) /\ \E f : Picks(f, ms, I, p)
    BY <1>1, <2>1, <2>2, PickIs
  <2>4. PICK f : Picks(f, ms, I, p)
    BY <2>3
  <2>5. /\ Len(p) \in Nat
        /\ \A i : i \in Callers(p) <=> i \in 1 .. Len(p) /\ p[i].role = "assistant" /\ p[i].calls # {}
    BY <2>3, CallersAre
  <2>6. /\ \A k \in 1 .. Len(p) : f[k] \in I /\ p[k] = ms[f[k]]
        /\ \A k, l \in 1 .. Len(p) : k < l => f[k] < f[l]
        /\ \A i \in I : \E k \in 1 .. Len(p) : f[k] = i
    BY <2>4 DEF Picks
  <2>7. w.start \in Nat
    BY <1>1, WindowsAre
  <2>8. \A i \in I, j \in 1 .. Len(ms) : i < j /\ ms[j].role # "system" => j \in I
    BY <1>1, <2>1, <2>7 DEF Recent
  <2>9. \A k, l \in 1 .. Len(p) : f[k] < f[l] => k < l
    <3>1. ASSUME NEW k \in 1 .. Len(p), NEW l \in 1 .. Len(p), f[k] < f[l], ~(k < l)
          PROVE  FALSE
      <4>0. k \in Nat /\ l \in Nat
        BY <2>5
      <4>1. k = l \/ l < k
        BY <3>1, <4>0
      <4>2. f[k] \in Nat /\ f[l] \in Nat
        BY <1>1, <2>1, <2>6
      <4>3. CASE l < k
        <5>1. f[l] < f[k]
          BY <2>6, <4>3
        <5> QED
          BY <3>1, <4>2, <5>1
      <4> QED
        BY <3>1, <4>1, <4>2, <4>3
    <3> QED
      BY <3>1
  <2>10. ASSUME NEW a \in Callers(p), NEW c \in p[a].calls
         PROVE  (\E b \in Callers(p) : a < b) \/ (\E i \in a + 1 .. Len(p) : Has(p[i], c))
    <3>1. /\ a \in 1 .. Len(p) /\ f[a] \in I /\ f[a] \in Callers(ms) /\ c \in ms[f[a]].calls
          /\ f[a] \in 1 .. Len(ms)
      <4>1. a \in 1 .. Len(p) /\ p[a].role = "assistant" /\ p[a].calls # {}
        BY <2>5, <2>10
      <4>2. f[a] \in I /\ p[a] = ms[f[a]]
        BY <2>6, <4>1
      <4>3. f[a] \in 1 .. Len(ms)
        BY <1>1, <2>1, <4>2
      <4>4. f[a] \in Callers(ms)
        BY <1>2, <4>1, <4>2, <4>3
      <4> QED
        BY <2>10, <4>1, <4>2, <4>3, <4>4
    <3>2. CASE \E b \in Callers(ms) : f[a] < b
      <4>1. PICK b \in Callers(ms) : f[a] < b
        BY <3>2
      <4>2. b \in 1 .. Len(ms) /\ ms[b].role = "assistant" /\ ms[b].calls # {}
        BY <1>2
      <4>3. b \in I
        BY <2>8, <3>1, <4>1, <4>2
      <4>4. PICK k \in 1 .. Len(p) : f[k] = b
        BY <2>6, <4>3
      <4>5. k \in Callers(p) /\ a < k
        BY <2>5, <2>6, <2>9, <3>1, <4>1, <4>2, <4>4
      <4> QED
        BY <4>5
    <3>3. CASE \E i \in f[a] + 1 .. Len(ms) : Has(ms[i], c)
      <4>1. PICK i \in f[a] + 1 .. Len(ms) : Has(ms[i], c)
        BY <3>3
      <4>2. i \in 1 .. Len(ms) /\ ms[i].role = "tool" /\ f[a] < i
        BY <3>1, <4>1 DEF Has
      <4>3. i \in I
        BY <2>8, <3>1, <4>2
      <4>4. PICK k \in 1 .. Len(p) : f[k] = i
        BY <2>6, <4>3
      <4>5. a < k /\ p[k] = ms[i]
        BY <2>6, <2>9, <3>1, <4>2, <4>4
      <4>6. k \in a + 1 .. Len(p)
        BY <2>5, <3>1, <4>5
      <4> QED
        BY <4>1, <4>5, <4>6
    <3> QED
      BY <3>1, <3>2, <3>3 DEF Settled
  <2> QED
    BY <2>1, <2>2, <2>10 DEF Settled
<1>4. ASSUME NEW w \in Windows(ms)
      PROVE  Settled(Cut(ms, w, n), {})
  <2>1. w.prefix \in SUBSET DOMAIN ms /\ Recent(ms, w) \in SUBSET DOMAIN ms
    BY <1>1, WindowsAre DEF Where, Recent
  <2>2. IsSeq(Pick(ms, w.prefix)) /\ IsSeq(Pick(ms, Recent(ms, w))) /\ IsSeq(<<Summary(n)>>)
    BY <1>1, <2>1, PickIs, OneMessage
  <2>3. Settled(Pick(ms, w.prefix), {})
    <3>1. PICK p : p = Pick(ms, w.prefix)
      OBVIOUS
    <3>2. PICK f : Picks(f, ms, w.prefix, p)
      BY <1>1, <2>1, <3>1, PickIs
    <3>3. \A i \in w.prefix : ms[i].role = "user"
      BY <1>1, WindowsAre DEF Where
    <3>4. \A k \in 1 .. Len(p) : p[k].role = "user"
      BY <3>2, <3>3 DEF Picks
    <3> QED
      BY <2>2, <3>1, <3>4, NobodyCalls
  <2>4. Settled(<<Summary(n)>>, {})
    <3>1. \A i \in 1 .. Len(<<Summary(n)>>) : <<Summary(n)>>[i].role = "system"
      BY OneMessage, MessagesAre
    <3> QED
      BY <2>2, <3>1, NobodyCalls
  <2>5. PICK h : h = Pick(ms, w.prefix) \o <<Summary(n)>>
    OBVIOUS
  <2>6. Settled(h, {}) /\ IsSeq(h)
    BY <2>2, <2>3, <2>4, <2>5, SettledTogether, JoinedSeqs
  <2>7. Settled(h \o Pick(ms, Recent(ms, w)), {})
    BY <1>3, <2>2, <2>6, SettledTogether
  <2> QED
    BY <2>5, <2>7, CutIs
<1>5. ASSUME NEW w \in Windows(ms)
      PROVE  Settled(Cleared(ms, w), {})
  <2>1. CASE Cleared(ms, w) = ms
    BY <2>1
  <2>2. ASSUME NEW i \in 1 .. Len(ms), NEW c, NEW how, NEW again, ms[i] = Result(c, how),
               Cleared(ms, w) = [ms EXCEPT ![i] = Result(c, again)]
        PROVE  Settled(Cleared(ms, w), {})
    <3>1. PICK m : m = Result(c, again) /\ m.role = "tool" /\ m.call = c
      BY MessagesAre
    <3>2. ms[i].role = "tool" /\ ms[i].call = c
      BY <2>2, MessagesAre
    <3>3. PICK new2 : new2 = [ms EXCEPT ![i] = m]
      OBVIOUS
    <3>4. /\ new2 = [j \in 1 .. Len(ms) |-> new2[j]] /\ DOMAIN new2 = 1 .. Len(ms)
          /\ \A j \in 1 .. Len(ms) : new2[j] = IF j = i THEN m ELSE ms[j]
      BY <1>1, <3>3
    <3>5. IsSeq(new2)
      BY <1>1, <3>4, FunctionsAreSeqs
    <3>6. Len(new2) = Len(ms)
      BY <1>1, <3>4, <3>5, PartsOfSeqs
    <3>7. \A j : j \in Callers(new2) <=> j \in 1 .. Len(ms) /\ new2[j].role = "assistant" /\ new2[j].calls # {}
      BY <3>5, <3>6, CallersAre
    <3>8. "tool" # "assistant"
      OBVIOUS
    <3>9. \A j \in 1 .. Len(ms) : j # i => new2[j] = ms[j]
      BY <3>4
    <3>10. new2[i] = m
      BY <3>4
    <3>11. Callers(new2) = Callers(ms) /\ \A j \in Callers(ms) : new2[j] = ms[j]
      <4>1. new2[i].role # "assistant" /\ ms[i].role # "assistant"
        BY <3>1, <3>2, <3>8, <3>10
      <4>2. i \notin Callers(new2) /\ i \notin Callers(ms)
        BY <1>2, <3>7, <4>1
      <4>3. \A j : j \in Callers(new2) <=> j \in Callers(ms)
        BY <1>2, <3>7, <3>9, <4>2
      <4>4. \A j \in Callers(ms) : new2[j] = ms[j]
        BY <1>2, <3>9, <4>2
      <4> QED
        BY <4>3, <4>4
    <3>12. \A j \in 1 .. Len(ms) : \A d : Has(ms[j], d) => Has(new2[j], d)
      BY <3>1, <3>2, <3>9, <3>10 DEF Has
    <3>13. \A a \in Callers(ms) : a \in Nat /\ \A j \in a + 1 .. Len(ms) : j \in 1 .. Len(ms)
      BY <1>1, <1>2
    <3>14. Settled(new2, {})
      BY <3>6, <3>11, <3>12, <3>13 DEF Settled
    <3> QED
      BY <2>2, <3>1, <3>3, <3>14
  <2> QED
    BY <2>1, <2>2, ClearedIs
<1> QED
  BY <1>4, <1>5 DEF Compactions

-----------------------------------------------------------------------------
(* What repair adds, and what a result or an answer settles.                *)

\* A sequence of the members of a set, each of them once.
Enumerates(s, n, C) ==
  /\ DOMAIN s = 1 .. n
  /\ \A k \in 1 .. n : s[k] \in C
  /\ \A c \in C : \E k \in 1 .. n : s[k] = c
  /\ \A k, l \in 1 .. n : s[k] = s[l] => k = l

\* The calls of an answer in their order: every one of them, once.
LEMMA OrderIs ==
  ASSUME NEW x, NEW C \in SUBSET ({x} \X (1 .. MaxCalls))
  PROVE  \E n \in Nat : Enumerates(InOrder(C), n, C)
<1>1. PICK places, n : places = {p \in 1 .. MaxCalls : \E c \in C : c[2] = p} /\ n = Cardinality(places)
  OBVIOUS
<1>2. places \in SUBSET Nat /\ IsFiniteSet(places)
  <2>1. IsFiniteSet(1 .. MaxCalls)
    BY AgentAssumption, FS_Interval
  <2> QED
    BY <1>1, <2>1, AgentAssumption, FS_Subset
<1>3. /\ n \in Nat
      /\ \A k \in 1 .. n : Nth(places, n + 1 - k) \in places
      /\ \A k, l \in 1 .. n : k < l => Nth(places, n + 1 - k) < Nth(places, n + 1 - l)
      /\ \A i \in places : \E k \in 1 .. n : Nth(places, n + 1 - k) = i
  <2>1. n = Cardinality(places)
    BY <1>1
  <2> HIDE <1>1
  <2> QED
    BY <1>2, <2>1, PlacesInOrder
<1>4. PICK s : s = InOrder(C)
  OBVIOUS
<1>5. s = [k \in 1 .. n |-> CHOOSE c \in C : c[2] = Nth(places, n + 1 - k)]
  BY <1>1, <1>4 DEF InOrder
<1>6. \A c, d \in C : c[2] = d[2] => c = d
  OBVIOUS
<1>7. \A k \in 1 .. n : s[k] \in C /\ s[k][2] = Nth(places, n + 1 - k)
  <2>1. ASSUME NEW k \in 1 .. n
        PROVE  s[k] \in C /\ s[k][2] = Nth(places, n + 1 - k)
    <3>1. PICK p \in places : p = Nth(places, n + 1 - k)
      BY <1>3
    <3>2. \E c \in C : c[2] = p
      BY <1>1
    <3>3. s[k] = CHOOSE c \in C : c[2] = p
      BY <1>5, <3>1
    <3> QED
      BY <3>1, <3>2, <3>3
  <2> QED
    BY <2>1
<1>8. ASSUME NEW c \in C
      PROVE  \E k \in 1 .. n : s[k] = c
  <2>1. c[2] \in places
    BY <1>1
  <2>2. PICK k \in 1 .. n : Nth(places, n + 1 - k) = c[2]
    BY <1>3, <2>1
  <2> QED
    BY <1>6, <1>7, <2>2
<1>9. ASSUME NEW k \in 1 .. n, NEW l \in 1 .. n, s[k] = s[l]
      PROVE  k = l
  <2>1. Nth(places, n + 1 - k) = Nth(places, n + 1 - l)
    BY <1>7, <1>9
  <2>2. Nth(places, n + 1 - k) \in Nat
    BY <1>2, <1>3
  <2>3. ~(k < l) /\ ~(l < k)
    BY <1>3, <2>1, <2>2
  <2> QED
    BY <1>3, <2>3
<1> QED
  <2>1. DOMAIN s = 1 .. n
    BY <1>5
  <2>2. Enumerates(s, n, C)
    BY <1>7, <1>8, <1>9, <2>1 DEF Enumerates
  <2> QED
    BY <1>3, <1>4, <2>2

LEMMA CallsAre ==
  ASSUME NEW m, IsMessage(m), m.role = "assistant"
  PROVE  \E x : m.calls \subseteq {x} \X (1 .. MaxCalls)
<1>1. \A u : User(u).role # "assistant"
  BY DEF User
<1>2. \A n : Summary(n).role # "assistant"
  BY DEF Summary
<1>3. \A c, how : Result(c, how).role # "assistant"
  BY DEF Result
<1>4. PICK y, x, k : k \subseteq {x} \X (1 .. MaxCalls) /\ m = [role |-> "assistant", id |-> y, calls |-> k]
  BY <1>1, <1>2, <1>3 DEF IsMessage
<1>5. m.calls = k
  BY <1>4
<1> QED
  BY <1>4, <1>5

\* A repair answers every call that was left, once.
LEMMA RepairsAre ==
  ASSUME NEW ms, Typed(ms), NEW how
  PROVE  /\ Typed(Repairs(ms, how))
         /\ \A i \in 1 .. Len(Repairs(ms, how)) : \E c \in Unanswered(ms) : Repairs(ms, how)[i] = Result(c, how)
         /\ \A c \in Unanswered(ms) : \E i \in 1 .. Len(Repairs(ms, how)) : Repairs(ms, how)[i] = Result(c, how)
         /\ \A i, j \in 1 .. Len(Repairs(ms, how)) :
              Repairs(ms, how)[i].call = Repairs(ms, how)[j].call => i = j
<1>1. IsSeq(ms) /\ Len(ms) \in Nat /\ DOMAIN ms = 1 .. Len(ms)
  BY PartsOfSeqs DEF Typed
<1>2. PICK C : C = Unanswered(ms)
  OBVIOUS
<1>3. PICK x : C \in SUBSET ({x} \X (1 .. MaxCalls))
  <2>1. CASE Callers(ms) = {}
    BY <1>2, <2>1 DEF Unanswered
  <2>2. CASE Callers(ms) # {}
    <3>1. PICK a : a = Latest(Callers(ms))
      OBVIOUS
    <3>2. Callers(ms) \in SUBSET (0 .. Len(ms))
      BY <1>1 DEF Callers
    <3>3. a \in Callers(ms)
      BY <1>1, <2>2, <3>1, <3>2, LatestIs
    <3>4. a \in 1 .. Len(ms) /\ ms[a].role = "assistant"
      BY <1>1, <3>3, CallersAre
    <3>5. IsMessage(ms[a])
      BY <3>4 DEF Typed
    <3>6. C \subseteq ms[a].calls
      BY <1>2, <2>2, <3>1 DEF Unanswered
    <3>7. PICK x : ms[a].calls \subseteq {x} \X (1 .. MaxCalls)
      BY <3>4, <3>5, CallsAre
    <3> QED
      BY <3>6, <3>7
  <2> QED
    BY <2>1, <2>2
<1>4. PICK s : s = InOrder(C)
  OBVIOUS
<1>5a. PICK n \in Nat : Enumerates(s, n, C)
  BY <1>3, <1>4, OrderIs
<1>5. /\ n \in Nat
      /\ DOMAIN s = 1 .. n
      /\ \A k \in 1 .. n : s[k] \in C
      /\ \A c \in C : \E k \in 1 .. n : s[k] = c
      /\ \A k, l \in 1 .. n : s[k] = s[l] => k = l
  BY <1>5a DEF Enumerates
<1>6. PICK r : r = Repairs(ms, how)
  OBVIOUS
<1>7. r = [i \in 1 .. n |-> Result(s[i], how)]
  BY <1>2, <1>4, <1>5, <1>6 DEF Repairs
<1>8. IsSeq(r) /\ DOMAIN r = 1 .. Len(r) /\ Len(r) \in Nat
  BY <1>6, AnswersAreSeqs, PartsOfSeqs
<1>9. DOMAIN r = 1 .. n
  BY <1>7
<1>10. Len(r) = n
  <2>1. PICK m \in Nat : m = Len(r)
    BY <1>8
  <2>2. 1 .. m = 1 .. n
    BY <1>8, <1>9, <2>1
  <2>3. n \in Nat
    BY <1>5
  <2>4. m = n
    BY <2>2, <2>3
  <2> QED
    BY <2>1, <2>4
<1>11. \A i \in 1 .. n : r[i] = Result(s[i], how)
  BY <1>7
<1>12. \A i \in 1 .. n : IsMessage(r[i]) /\ r[i].call = s[i]
  BY <1>11, MessagesAre
<1>13. Typed(r)
  BY <1>8, <1>10, <1>12 DEF Typed
<1>14. \A i \in 1 .. n : \E c \in C : r[i] = Result(c, how)
  BY <1>5, <1>11
<1>15. \A c \in C : \E i \in 1 .. n : r[i] = Result(c, how)
  BY <1>5, <1>11
<1>16. \A i, j \in 1 .. n : r[i].call = r[j].call => i = j
  BY <1>5, <1>12
<1> QED
  BY <1>2, <1>6, <1>10, <1>13, <1>14, <1>15, <1>16

\* What is added at the end settles what it answers, or leaves it open.
LEMMA ResultSettles ==
  ASSUME NEW s, IsSeq(s), NEW C, NEW D, NEW t, IsSeq(t),
         Settled(s, C),
         \A i \in 1 .. Len(t) : t[i].role # "assistant",
         \A c \in C \ D : \E i \in 1 .. Len(t) : Has(t[i], c)
  PROVE  Settled(s \o t, D)
<1>1. PICK u, n, m : u = s \o t /\ n = Len(s) /\ m = Len(t)
  OBVIOUS
<1>2. /\ n \in Nat /\ m \in Nat /\ Len(u) = n + m /\ IsSeq(u)
      /\ \A i \in 1 .. n : u[i] = s[i]
      /\ \A i \in 1 .. m : u[n + i] = t[i]
      /\ \A i \in n + 1 .. Len(u) : u[i] = t[i - n] /\ i - n \in 1 .. m
  BY <1>1, ConcatIs
<1>3. /\ \A i : i \in Callers(u) <=> i \in 1 .. Len(u) /\ u[i].role = "assistant" /\ u[i].calls # {}
      /\ \A i : i \in Callers(s) <=> i \in 1 .. Len(s) /\ s[i].role = "assistant" /\ s[i].calls # {}
  BY <1>2, CallersAre
<1>4. \A i \in n + 1 .. n + m : u[i].role # "assistant"
  <2>1. ASSUME NEW i \in n + 1 .. n + m
        PROVE  u[i].role # "assistant"
    <3>1. u[i] = t[i - n] /\ i - n \in 1 .. Len(t)
      BY <1>1, <1>2
    <3> QED
      BY <3>1
  <2> QED
    BY <2>1
<1>5. ASSUME NEW a \in Callers(u), NEW c \in u[a].calls \ D
      PROVE  (\E b \in Callers(u) : a < b) \/ (\E i \in a + 1 .. Len(u) : Has(u[i], c))
  <2>1. a \in 1 .. n /\ u[a] = s[a] /\ a \in Callers(s) /\ c \in s[a].calls \ D
    <3>1. a \in 1 .. n + m /\ a \notin n + 1 .. n + m
      BY <1>2, <1>3, <1>4
    <3>2. a \in 1 .. n
      BY <1>2, <3>1
    <3> QED
      BY <1>1, <1>2, <1>3, <1>5, <3>2
  <2>2. CASE c \in C
    <3>1. PICK i \in 1 .. m : Has(t[i], c)
      BY <1>1, <2>1, <2>2
    <3>2. n + i \in a + 1 .. Len(u) /\ u[n + i] = t[i]
      BY <1>2, <2>1
    <3> QED
      BY <3>1, <3>2
  <2>3. CASE c \notin C
    <3>1. (\E b \in Callers(s) : a < b) \/ (\E i \in a + 1 .. n : Has(s[i], c))
      BY <1>1, <2>1, <2>3 DEF Settled
    <3>2. CASE \E b \in Callers(s) : a < b
      <4>1. PICK b \in Callers(s) : a < b
        BY <3>2
      <4>2. b \in 1 .. n /\ b \in 1 .. Len(u) /\ u[b] = s[b]
        BY <1>1, <1>2, <1>3
      <4> QED
        BY <1>3, <4>1, <4>2
    <3>3. CASE \E i \in a + 1 .. n : Has(s[i], c)
      <4>1. PICK i \in a + 1 .. n : Has(s[i], c)
        BY <3>3
      <4>2. i \in 1 .. n /\ i \in a + 1 .. Len(u)
        BY <1>2, <2>1
      <4> QED
        BY <1>2, <4>1, <4>2
    <3> QED
      BY <3>1, <3>2, <3>3
  <2> QED
    BY <2>2, <2>3
<1> QED
  BY <1>1, <1>5 DEF Settled

LEMMA RepairsSettle ==
  ASSUME NEW ms, Typed(ms), NEW how
  PROVE  Settled(ms \o Repairs(ms, how), {})
<1>1. PICK r, C : r = Repairs(ms, how) /\ C = Unanswered(ms)
  OBVIOUS
<1>2. /\ Typed(r)
      /\ \A i \in 1 .. Len(r) : \E c \in C : r[i] = Result(c, how)
      /\ \A c \in C : \E i \in 1 .. Len(r) : r[i] = Result(c, how)
  BY <1>1, RepairsAre
<1>3. IsSeq(ms) /\ IsSeq(r)
  BY <1>2 DEF Typed
<1>4. Settled(ms, C)
  BY <1>1, <1>3, SettledIs
<1>5. \A i \in 1 .. Len(r) : r[i].role # "assistant"
  <2>1. "tool" # "assistant"
    OBVIOUS
  <2> QED
    BY <1>2, <2>1, MessagesAre
<1>6. \A c \in C \ {} : \E i \in 1 .. Len(r) : Has(r[i], c)
  BY <1>2, MessagesAre DEF Has
<1> QED
  BY <1>1, <1>3, <1>4, <1>5, <1>6, ResultSettles

LEMMA AnswerSettles ==
  ASSUME NEW s, IsSeq(s), Settled(s, {}), NEW n, NEW K
  PROVE  Settled(s \o <<Answer(n, K)>>, K)
<1>1. PICK t : t = <<Answer(n, K)>>
  OBVIOUS
<1>2. IsSeq(t) /\ Len(t) = 1 /\ t[1].calls = K
  BY <1>1, OneMessage, MessagesAre
<1>3. \A a \in Callers(t) : a = 1
  BY <1>2, CallersAre
<1>4. Settled(t, K)
  BY <1>2, <1>3 DEF Settled
<1>5. Settled(s, K)
  BY DEF Settled
<1> QED
  BY <1>1, <1>2, <1>4, <1>5, SettledTogether

-----------------------------------------------------------------------------
(* What the agent holds are messages.                                       *)

\* What is held, written and recorded are messages, and a leader that settles
\* an answer without calls has just given it.
Messages ==
  /\ Typed(conv) /\ Typed(chat) /\ Typed(saved) /\ Typed(writing) /\ Typed(turnLog)
  /\ pc \in {"final", "hook"} =>
       conv # <<>> /\ conv[Len(conv)].role = "assistant" /\ conv[Len(conv)].calls = {}

LEMMA NothingTyped == Typed(<<>>) /\ \A C : Settled(<<>>, C)
<1>1. IsSeq(<<>>) /\ Len(<<>>) = 0
  BY EmptySeq DEF IsSeq
<1> QED
  BY <1>1, NobodyCalls DEF Typed

LEMMA MessagesInit == Init => Messages
BY NothingTyped DEF Init, Messages

LEMMA MessagesAside ==
  ASSUME Messages, UNCHANGED <<conv, chat, saved, writing, turnLog>>,
         pc' \in {"final", "hook"} => pc \in {"final", "hook"}
  PROVE  Messages'
BY DEF Messages

LEMMA SayTyped ==
  ASSUME Messages, NEW ms, Typed(ms), Say(ms)
  PROVE  Typed(conv)' /\ Typed(saved)' /\ Typed(writing)' /\ Typed(turnLog)'
<1>1. /\ conv' = conv \o ms /\ saved' = saved \o ms /\ turnLog' = turnLog \o ms /\ writing' = writing
  BY DEF Say
<1>2. Typed(conv \o ms) /\ Typed(saved \o ms) /\ Typed(turnLog \o ms) /\ Typed(writing)
  BY TypedTogether DEF Messages
<1> QED
  BY <1>1, <1>2

LEMMA PersistTyped ==
  ASSUME Messages, IsSeq(digests), NEW ms, Typed(ms), NEW rewritten, Persist(ms, rewritten)
  PROVE  Typed(saved)' /\ Typed(writing)'
<1>1. PICK kept : /\ kept = KeptPrefix(digests, ms)
                  /\ saved' = saved \/ (kept <= Len(saved) /\ saved' = SubSeq(saved, 1, kept))
                  /\ writing' = SubSeq(ms, kept + 1, Len(ms))
  BY DEF Persist
<1>2. IsSeq(ms) /\ Len(ms) \in Nat /\ IsSeq(saved) /\ Len(saved) \in Nat /\ Len(digests) \in Nat
  BY PartsOfSeqs DEF Messages, Typed
<1>3. kept \in 0 .. Len(digests) /\ kept <= Len(ms)
  BY <1>1, <1>2, KeptIsCommon
<1>4. kept \in 0 .. Len(ms) /\ (kept <= Len(saved) => kept \in 0 .. Len(saved))
  BY <1>2, <1>3
<1>5. Typed(SubSeq(ms, kept + 1, Len(ms)))
  BY <1>4, TypedParts
<1>6. kept <= Len(saved) => Typed(SubSeq(saved, 1, kept))
  BY <1>4, TypedParts DEF Messages
<1>7. Typed(saved)
  BY DEF Messages
<1> QED
  BY <1>1, <1>5, <1>6, <1>7

LEMMA RespondSays ==
  ASSUME Responds
  PROVE  \E k, kinds : /\ k \in 0 .. MaxCalls /\ Respond(k, kinds)
                       /\ Typed(<<Answer(answers + 1, {<<answers + 1, i>> : i \in 1 .. k})>>)
<1>1. PICK k, kinds : k \in (0 .. IF answers = 0 THEN MaxCalls ELSE 1) /\ Respond(k, kinds)
  BY DEF Responds
<1>2. k \in 0 .. MaxCalls
  BY <1>1, AgentAssumption
<1>3. PICK n : n = answers + 1
  OBVIOUS
<1>4. {<<n, i>> : i \in 1 .. k} \subseteq {n} \X (1 .. MaxCalls)
  BY <1>2, AgentAssumption
<1>5. Typed(<<Answer(n, {<<n, i>> : i \in 1 .. k})>>)
  BY <1>4, OneMessage, MessagesAre
<1> QED
  BY <1>1, <1>2, <1>3, <1>5

\* The note of a stop hook changes the last answer and none of its calls.
LEMMA NotedIs ==
  ASSUME Messages, StopHookRefused
  PROVE  /\ Typed(conv') /\ Len(conv') = Len(conv)
         /\ \A i \in 1 .. Len(conv) : i # Len(conv) => conv'[i] = conv[i]
         /\ Len(conv) \in 1 .. Len(conv)
         /\ conv'[Len(conv)].role = "assistant" /\ conv'[Len(conv)].calls = {}
         /\ conv[Len(conv)].role = "assistant" /\ conv[Len(conv)].calls = {}
<1>1. pc = "hook"
  BY DEF StopHookRefused, Still, At
<1>2. IsSeq(conv) /\ Len(conv) \in Nat /\ DOMAIN conv = 1 .. Len(conv) /\ Typed(conv)
  BY PartsOfSeqs DEF Messages, Typed
<1>3. PICK n : n = Len(conv) /\ n \in Nat
  BY <1>2
<1>4. n # 0
  <2>1. PICK S : conv \in Seq(S)
    BY <1>2 DEF IsSeq
  <2>2. conv # <<>>
    BY <1>1 DEF Messages
  <2> QED
    BY <1>3, <2>1, <2>2, EmptySeq
<1>5. n \in 1 .. n
  BY <1>3, <1>4
<1>6. IsMessage(conv[n]) /\ conv[n].role = "assistant" /\ conv[n].calls = {}
  BY <1>1, <1>2, <1>3, <1>5 DEF Messages, Typed
<1>7. PICK x, k : conv[n] = [role |-> "assistant", id |-> x, calls |-> k]
  <2>1. \A u : User(u).role # "assistant"
    BY DEF User
  <2>2. \A s : Summary(s).role # "assistant"
    BY DEF Summary
  <2>3. \A c, how : Result(c, how).role # "assistant"
    BY DEF Result
  <2> QED
    BY <1>6, <2>1, <2>2, <2>3 DEF IsMessage
<1>8. k = {}
  BY <1>6, <1>7
<1>9. PICK y : y = <<"noted", x[2]>>
  OBVIOUS
<1>10. PICK m : m = [role |-> "assistant", id |-> y, calls |-> k]
  OBVIOUS
<1>11. conv' = [conv EXCEPT ![n] = m]
  <2>1. conv' = [conv EXCEPT ![n] = Noted(@)]
    BY <1>3 DEF StopHookRefused
  <2>2. Noted(conv[n]) = m
    BY <1>7, <1>9, <1>10 DEF Noted
  <2> QED
    BY <2>1, <2>2
<1>12. m.role = "assistant" /\ m.calls = {} /\ IsMessage(m)
  <2>1. m.role = "assistant" /\ m.calls = {}
    BY <1>8, <1>10
  <2>2. k \subseteq {0} \X (1 .. MaxCalls)
    BY <1>8
  <2> QED
    BY <1>10, <2>1, <2>2 DEF IsMessage
<1>13. PICK new : new = [conv EXCEPT ![n] = m]
  OBVIOUS
<1>14. /\ new = [j \in 1 .. n |-> new[j]] /\ DOMAIN new = 1 .. n
       /\ \A j \in 1 .. n : new[j] = IF j = n THEN m ELSE conv[j]
  BY <1>2, <1>3, <1>13
<1>15. IsSeq(new)
  BY <1>3, <1>14, FunctionsAreSeqs
<1>16. Len(new) = n
  <2>1. PICK l \in Nat : l = Len(new) /\ DOMAIN new = 1 .. l
    BY <1>15, PartsOfSeqs
  <2>2. 1 .. l = 1 .. n
    BY <1>14, <2>1
  <2> QED
    BY <1>3, <2>1, <2>2
<1>17. \A j \in 1 .. Len(new) : IsMessage(new[j])
  BY <1>2, <1>3, <1>12, <1>14, <1>16 DEF Typed
<1>18. Typed(new)
  BY <1>15, <1>17 DEF Typed
<1> QED
  BY <1>3, <1>5, <1>6, <1>11, <1>12, <1>13, <1>14, <1>16, <1>18

LEMMA MessagesStep ==
  ASSUME Messages, Transcribed, [Next]_vars
  PROVE  Messages'
<1>0. IsSeq(queue) /\ IsSeq(digests) /\ IsSeq(saved)
  BY DEF Transcribed, Sequenced
<1>1. CASE UNCHANGED vars \/ Stop \/ Redirect
  BY <1>1, MessagesAside DEF vars, log, Stop, Redirect
<1>2. CASE \/ Fits \/ Refuses \/ RequestFails \/ RequestStopped \/ StartBatch \/ EndBatch
           \/ AfterTools \/ WaitedTooLong \/ NoHook
  <2>1. UNCHANGED <<conv, chat, saved, writing, turnLog>>
    BY <1>2 DEF Fits, Refuses, RequestFails, RequestStopped, StartBatch, EndBatch, AfterTools,
       WaitedTooLong, NoHook, Still, Unmoved, log
  <2>2. pc' \notin {"final", "hook"}
    BY <1>2 DEF Fits, Refuses, RequestFails, RequestStopped, StartBatch, EndBatch, AfterTools,
       WaitedTooLong, NoHook, Still, At
  <2> QED
    BY <2>1, <2>2, MessagesAside
<1>3. CASE Settle \/ (\E i, how : CallEnds(i, how))
  BY <1>3, MessagesAside DEF Settle, At, CallEnds, Still, Unmoved, log
<1>4. CASE Write
  <2>1. /\ writing # <<>> /\ saved' = Append(saved, Head(writing)) /\ writing' = Tail(writing)
        /\ turnLog' = <<>> \/ turnLog' = Append(turnLog, Head(writing))
        /\ UNCHANGED <<pc, conv, chat>>
    BY <1>4 DEF Write
  <2>2. PICK S : writing \in Seq(S)
    BY DEF Messages, Typed, IsSeq
  <2>3. /\ Head(writing) = writing[1] /\ 1 \in 1 .. Len(writing)
    BY <2>1, <2>2, EmptySeq
  <2>4. IsMessage(Head(writing))
    BY <2>3 DEF Messages, Typed
  <2>5. /\ Append(saved, Head(writing)) = saved \o <<Head(writing)>>
        /\ Append(turnLog, Head(writing)) = turnLog \o <<Head(writing)>>
    <3>1. PICK A, B, h : saved \in Seq(A) /\ turnLog \in Seq(B) /\ h = Head(writing)
      BY DEF Messages, Typed, IsSeq
    <3> QED
      BY <3>1
  <2>6. Typed(saved \o <<Head(writing)>>) /\ Typed(turnLog \o <<Head(writing)>>)
    BY <2>4, OneMessage, TypedTogether DEF Messages
  <2>7. Typed(Tail(writing))
    <3>1. /\ Tail(writing) \in Seq(S) /\ Len(Tail(writing)) = Len(writing) - 1
          /\ \A i \in 1 .. Len(Tail(writing)) : Tail(writing)[i] = writing[i + 1]
      BY <2>1, <2>2, HeadTailProperties
    <3>2. Len(writing) \in Nat
      BY <2>2
    <3>3. \A i \in 1 .. Len(Tail(writing)) : i + 1 \in 1 .. Len(writing)
      BY <3>1, <3>2
    <3> QED
      BY <3>1, <3>3 DEF Messages, Typed, IsSeq
  <2> QED
    BY <2>1, <2>5, <2>6, <2>7, NothingTyped DEF Messages
<1>5. ASSUME NEW ms, Typed(ms), NEW why, Close(ms, why)
      PROVE  Messages'
  <2>1. Typed(ms \o Texts(ClosingRedirects))
    BY <1>0, <1>5, TypedTexts, TypedTogether DEF ClosingRedirects
  <2>2. Typed(conv)' /\ Typed(saved)' /\ Typed(writing)' /\ Typed(turnLog)'
    BY <1>5, <2>1, SayTyped DEF Close
  <2>3. chat' = chat \/ chat' = conv'
    BY <1>5 DEF Close
  <2>4. pc' = "idle"
    BY <1>5 DEF Close
  <2> QED
    BY <2>2, <2>3, <2>4 DEF Messages
<1>6. CASE OutOfTurns \/ Budget \/ Cancelled \/ Failed \/ Finish
  <2>1. PICK ms, why : Typed(ms) /\ Close(ms, why)
    BY <1>6, NothingTyped, RepairsAre DEF OutOfTurns, Budget, Cancelled, Failed, Finish, Messages
  <2> QED
    BY <1>5, <2>1
<1>7. CASE StartChat \/ CompactChat
  <2>1. Typed(Asked)
    <3>1. PICK m : m = User(<<"prompt", prompts + 1>>) /\ IsMessage(m)
      BY MessagesAre
    <3>2. Asked = chat \o <<m>>
      <4>1. PICK A : chat \in Seq(A)
        BY DEF Messages, Typed, IsSeq
      <4> QED
        BY <3>1, <4>1 DEF Asked
    <3> QED
      BY <3>1, <3>2, OneMessage, TypedTogether DEF Messages
  <2>2. PICK ms : Typed(ms) /\ Chat(ms)
    BY <1>7, <2>1, TypedCompactions DEF StartChat, CompactChat
  <2>3. Typed(saved)' /\ Typed(writing)'
    BY <1>0, <2>2, PersistTyped DEF Chat
  <2>4. conv' = ms /\ chat' = ms /\ turnLog' = <<>> /\ pc' = "turn"
    BY <2>2 DEF Chat
  <2> QED
    BY <2>2, <2>3, <2>4, NothingTyped DEF Messages
<1>8. CASE CompactForRequest \/ Overflow
  <2>1. PICK from, to : Compact(from, to) /\ to \in {"ask", "request"}
    BY <1>8 DEF CompactForRequest, Overflow
  <2>2. PICK ms \in Compactions(conv, rewrites + 1) : conv' = ms /\ Persist(ms, TRUE)
    BY <2>1 DEF Compact
  <2>3. Typed(ms)
    BY TypedCompactions DEF Messages
  <2>4. Typed(saved)' /\ Typed(writing)'
    BY <1>0, <2>2, <2>3, PersistTyped
  <2>5. UNCHANGED <<chat, turnLog>> /\ pc' = to
    BY <2>1 DEF Compact, Unmoved
  <2> QED
    BY <2>1, <2>2, <2>3, <2>4, <2>5 DEF Messages
<1>9. CASE StopHookRefused
  <2>1. PICK ms : ms = conv' /\ Typed(ms)
    BY <1>9, NotedIs
  <2>2. Persist(ms, TRUE) /\ UNCHANGED <<chat, turnLog>> /\ pc' = "ending"
    BY <1>9, <2>1 DEF StopHookRefused, Still, Unmoved
  <2>3. Typed(saved)' /\ Typed(writing)'
    BY <1>0, <2>1, <2>2, PersistTyped
  <2> QED
    BY <2>1, <2>2, <2>3 DEF Messages
<1>10. CASE Responds
  <2>1. PICK k, kinds : /\ k \in 0 .. MaxCalls /\ Respond(k, kinds)
                        /\ Typed(<<Answer(answers + 1, {<<answers + 1, i>> : i \in 1 .. k})>>)
    BY <1>10, RespondSays
  <2>2. PICK C : C = {<<answers + 1, i>> : i \in 1 .. k}
    OBVIOUS
  <2>3. PICK m : m = Answer(answers + 1, C) /\ m.role = "assistant" /\ m.calls = C
    BY MessagesAre
  <2>4. Say(<<m>>) /\ chat' = chat /\ (pc' \in {"final", "hook"} => k = 0)
    BY <2>1, <2>2, <2>3 DEF Respond, Unmoved
  <2>5. Typed(<<m>>)
    BY <2>1, <2>2, <2>3
  <2>6. Typed(conv)' /\ Typed(saved)' /\ Typed(writing)' /\ Typed(turnLog)'
    BY <2>4, <2>5, SayTyped
  <2>7. conv' # <<>> /\ conv'[Len(conv')] = m
    <3>1. conv' = conv \o <<m>>
      BY <2>4 DEF Say
    <3>2. PICK A : conv \in Seq(A)
      BY DEF Messages, Typed, IsSeq
    <3>3. conv' = Append(conv, m)
      BY <3>1, <3>2
    <3>4. PICK B : B = A \cup {m}
      OBVIOUS
    <3>5. conv \in Seq(B) /\ m \in B
      BY <3>2, <3>4, SeqMonotonic
    <3>6. Append(conv, m) # <<>> /\ Len(Append(conv, m)) = Len(conv) + 1
          /\ Append(conv, m)[Len(conv) + 1] = m
      BY <3>5, AppendProperties
    <3> QED
      BY <3>3, <3>6
  <2>8. k = 0 => C = {}
    BY <2>2
  <2> QED
    BY <2>3, <2>4, <2>6, <2>7, <2>8 DEF Messages
<1>11. CASE AppendResult \/ StopHook
  <2>1. PICK m : Say(<<m>>) /\ IsMessage(m)
    BY <1>11, MessagesAre DEF AppendResult, StopHook
  <2>2. pc' \in {"tools", "turn"} /\ chat' = chat
    BY <1>11 DEF AppendResult, StopHook, Still, At, Unmoved
  <2>3. Typed(conv)' /\ Typed(saved)' /\ Typed(writing)' /\ Typed(turnLog)'
    BY <2>1, OneMessage, SayTyped
  <2> QED
    BY <2>2, <2>3 DEF Messages
<1>12. CASE Turn
  <2>1. /\ UNCHANGED <<chat, writing>> /\ pc' \in {"cancelled", "budget", "request"}
    BY <1>12 DEF Turn
  <2>2. CASE UNCHANGED <<conv, saved>> /\ turnLog' = <<>>
    BY <2>1, <2>2, NothingTyped DEF Messages
  <2>3. CASE /\ conv' = conv \o Texts(queue) /\ saved' = saved \o Texts(queue)
             /\ turnLog' = Texts(queue)
    <3>1. Typed(Texts(queue)) /\ Typed(conv \o Texts(queue)) /\ Typed(saved \o Texts(queue))
      BY <1>0, TypedTexts, TypedTogether DEF Messages
    <3> QED
      BY <2>1, <2>3, <3>1 DEF Messages
  <2> QED
    BY <1>12, <2>2, <2>3 DEF Turn
<1>13. CASE Leave
  <2>1. /\ conv' = <<>> /\ chat' = <<>> /\ writing' = <<>> /\ turnLog' = <<>> /\ saved' = saved
        /\ pc' = "down"
    BY <1>13 DEF Leave
  <2> QED
    BY <2>1, NothingTyped DEF Messages
<1>14. CASE Reopen
  <2>1. PICK ms : ms = saved \o Repairs(saved, "ended") /\ chat' = ms
    BY <1>14 DEF Reopen
  <2>2. Typed(ms)
    BY <2>1, RepairsAre, TypedTogether DEF Messages
  <2>3. UNCHANGED <<conv, saved, writing, turnLog>> /\ pc' = "idle"
    BY <1>14 DEF Reopen
  <2> QED
    BY <2>1, <2>2, <2>3 DEF Messages
<1> QED
  BY <1>1, <1>2, <1>3, <1>4, <1>6, <1>7, <1>8, <1>9, <1>10, <1>11, <1>12, <1>13, <1>14
     DEF Next, Thread

-----------------------------------------------------------------------------
(* The turns of a run are settled.                                          *)

\* Where every call has been answered, in what is held and in what the turn
\* has recorded; while calls run, the calls that are left are in hand.
WholeSteps == {"turn", "request", "ask", "after", "final", "hook", "ending", "budget"}

Left == {batch[i].call : i \in {i \in DOMAIN batch : batch[i].state # "appended"}}
        \cup {todo[i].call : i \in DOMAIN todo}

Recorded(C) == (pc = "turn" /\ turn = 0 /\ turnLog = <<>>) \/ Settled(turnLog \o writing, C)

TurnsAreSettled ==
  /\ IsSeq(todo) /\ IsSeq(batch)
  /\ Settled(chat, {})
  /\ pc = "idle" => writing = <<>>
  /\ pc = "down" => reason = "none"
  /\ pc \in WholeSteps => Settled(conv, {}) /\ ~partial /\ Recorded({})
  /\ pc = "tools" => Settled(conv, Left) /\ ~partial /\ Recorded(Left)
  /\ pc = "idle" /\ reason \notin {"none", "failed", "cancelled"} => ~partial /\ Settled(turnLog, {})

LEMMA SettledInit == Init => TurnsAreSettled
<1>1. IsSeq(<<>>)
  BY EmptySeq DEF IsSeq
<1> QED
  BY <1>1, NothingTyped DEF Init, TurnsAreSettled, WholeSteps

LEMMA RecordedIs ==
  ASSUME Messages, writing = <<>>, NEW C
  PROVE  /\ Recorded(C) => Settled(turnLog, C)
         /\ Settled(turnLog, C) => Settled(turnLog \o writing, C)
<1>1. IsSeq(turnLog) /\ turnLog \o <<>> = turnLog
  BY JoinedSeqs DEF Messages, Typed
<1>2. Settled(<<>>, C)
  BY NothingTyped
<1> QED
  BY <1>1, <1>2 DEF Recorded

\* Steps that change neither what is held nor what is recorded.
LEMMA SettledAside ==
  ASSUME TurnsAreSettled, Messages,
         UNCHANGED <<conv, chat, writing, turnLog, turn, partial, reason, todo, batch>>,
         \/ pc' = pc
         \/ writing = <<>> /\ pc \in WholeSteps /\ pc' \in WholeSteps \cup {"cancelled", "failed"}
  PROVE  TurnsAreSettled'
<1>1. CASE pc' = pc
  <2>1. Left' = Left
    BY DEF Left
  <2> QED
    BY <1>1, <2>1 DEF TurnsAreSettled, Recorded
<1>2. CASE pc \in WholeSteps /\ pc' \in {"cancelled", "failed"}
  BY <1>2 DEF TurnsAreSettled, WholeSteps
<1>3. CASE writing = <<>> /\ pc \in WholeSteps /\ pc' \in WholeSteps
  <2>1. Settled(conv, {}) /\ ~partial /\ Recorded({})
    BY <1>3 DEF TurnsAreSettled
  <2>2. pc' \notin {"idle", "tools", "down"}
    BY <1>3 DEF WholeSteps
  <2>3. Settled(turnLog \o writing, {})
    BY <1>3, <2>1, RecordedIs
  <2> QED
    BY <1>3, <2>1, <2>2, <2>3 DEF TurnsAreSettled, Recorded
<1> QED
  BY <1>1, <1>2, <1>3

\* Everything is settled after a step that makes the run whole.
LEMMA BecomesWhole ==
  ASSUME pc' \in WholeSteps, IsSeq(todo'), IsSeq(batch'), Settled(chat', {}),
         Settled(conv', {}), ~partial', Recorded({})'
  PROVE  TurnsAreSettled'
<1>1. pc' \notin {"idle", "tools", "down"}
  BY DEF WholeSteps
<1> QED
  BY <1>1 DEF TurnsAreSettled

LEMMA WriteSettles ==
  ASSUME TurnsAreSettled, Messages, Write
  PROVE  TurnsAreSettled'
<1>1. /\ pc # "down" /\ writing # <<>> /\ writing' = Tail(writing)
      /\ turnLog' = (IF pc = "turn" /\ turn = 0 THEN <<>> ELSE Append(turnLog, Head(writing)))
      /\ UNCHANGED <<pc, conv, chat, turn, partial, reason, todo, batch>>
  BY DEF Write, run
<1>2. pc # "idle" /\ Left' = Left
  BY <1>1 DEF TurnsAreSettled, Left
<1>3. IsSeq(turnLog) /\ IsSeq(writing)
  BY DEF Messages, Typed
<1>4. turnLog \o writing = Append(turnLog, Head(writing)) \o Tail(writing)
  BY <1>1, <1>3, JoinedSeqs
<1>5. ASSUME NEW C, Recorded(C)
      PROVE  \/ pc' = "turn" /\ turn' = 0 /\ turnLog' = <<>>
             \/ Settled(turnLog' \o writing', C)
  BY <1>1, <1>4, <1>5 DEF Recorded
<1>6. CASE pc \in WholeSteps
  <2>1. Settled(conv, {}) /\ ~partial /\ Recorded({}) /\ pc' \notin {"tools", "idle"}
    BY <1>1, <1>6 DEF TurnsAreSettled, WholeSteps
  <2>2. Recorded({})'
    BY <1>5, <2>1 DEF Recorded
  <2> QED
    BY <1>1, <2>1, <2>2 DEF TurnsAreSettled
<1>7. CASE pc = "tools"
  <2>1. Recorded(Left)
    BY <1>7 DEF TurnsAreSettled
  <2>2. Recorded(Left)'
    BY <1>2, <1>5, <2>1 DEF Recorded
  <2> QED
    BY <1>1, <1>2, <1>7, <2>2 DEF TurnsAreSettled, WholeSteps
<1>8. CASE pc \notin WholeSteps \cup {"tools"}
  BY <1>1, <1>2, <1>8 DEF TurnsAreSettled
<1> QED
  BY <1>6, <1>7, <1>8

\* A run that ends.
LEMMA ClosingSettles ==
  ASSUME TurnsAreSettled, Messages, IsSeq(queue), NEW ms, Typed(ms), NEW why, Close(ms, why),
         writing = <<>>, Settled(conv \o ms, {}),
         why \notin {"none", "failed", "cancelled"} => pc \in WholeSteps /\ ms = <<>>
  PROVE  TurnsAreSettled'
<1>1. PICK new : new = ms \o Texts(ClosingRedirects)
  OBVIOUS
<1>2. /\ conv' = conv \o new /\ turnLog' = turnLog \o new /\ writing' = <<>>
      /\ chat' = chat \/ chat' = conv'
      /\ pc' = "idle" /\ reason' = why /\ UNCHANGED <<todo, batch, partial>>
  BY <1>1 DEF Close, Say, run
<1>3. PICK texts : texts = Texts(queue)
  OBVIOUS
<1>4. Typed(texts) /\ \A i \in 1 .. Len(texts) : texts[i].role = "user"
  BY <1>3, TypedTexts
<1>5. IsSeq(texts) /\ Settled(texts, {}) /\ IsSeq(conv) /\ IsSeq(ms) /\ IsSeq(turnLog)
  BY <1>4, NobodyCalls DEF Messages, Typed
<1>6. new = ms \o texts
  BY <1>1, <1>3 DEF ClosingRedirects
<1>7. (conv \o ms) \o texts = conv \o new /\ IsSeq(conv \o ms)
  <2>1. (conv \o ms) \o texts = conv \o (ms \o texts)
    BY <1>5, JoinedSeqs
  <2>2. IsSeq(conv \o ms)
    BY <1>5, JoinedSeqs
  <2> QED
    BY <1>6, <2>1, <2>2
<1>8. Settled(conv \o new, {})
  BY <1>5, <1>7, SettledTogether
<1>9. ASSUME why \notin {"none", "failed", "cancelled"}
      PROVE  ~partial /\ Settled(turnLog', {})
  <2>1. ~partial /\ Recorded({}) /\ ms = <<>>
    BY <1>9 DEF TurnsAreSettled
  <2>2. Settled(turnLog, {})
    BY <2>1, RecordedIs
  <2>3. new = texts
    BY <1>5, <1>6, <2>1, JoinedSeqs
  <2> QED
    BY <1>2, <1>5, <2>1, <2>2, <2>3, SettledTogether
<1>10. Settled(chat', {})
  BY <1>2, <1>8 DEF TurnsAreSettled
<1>11. IsSeq(todo') /\ IsSeq(batch')
  BY <1>2 DEF TurnsAreSettled
<1> QED
  BY <1>2, <1>9, <1>10, <1>11 DEF TurnsAreSettled, WholeSteps

\* What a rewrite still has to write leaves no call of its last answer open.
LEMMA RewriteSettles ==
  ASSUME NEW ms, IsSeq(ms), Settled(ms, {}), IsSeq(digests), NEW rewritten, Persist(ms, rewritten)
  PROVE  Settled(writing', {}) /\ IsSeq(writing')
<1>1. PICK kept : kept = KeptPrefix(digests, ms) /\ writing' = SubSeq(ms, kept + 1, Len(ms))
  BY DEF Persist
<1>2. Len(ms) \in Nat /\ Len(digests) \in Nat
  BY PartsOfSeqs
<1>3. kept \in 0 .. Len(ms)
  BY <1>1, <1>2, KeptIsCommon
<1> QED
  BY <1>1, <1>3, SettledAfter, PartsOfSeqs

\* The conversation of a run is rewritten.
LEMMA RewritingSettles ==
  ASSUME TurnsAreSettled, Messages, IsSeq(digests), writing = <<>>, pc \in WholeSteps,
         pc' \in WholeSteps, NEW ms, IsSeq(ms), Settled(ms, {}), conv' = ms, Persist(ms, TRUE),
         UNCHANGED <<chat, turnLog, partial, todo, batch>>
  PROVE  TurnsAreSettled'
<1>1. ~partial /\ Recorded({})
  BY DEF TurnsAreSettled
<1>2. Settled(turnLog, {}) /\ IsSeq(turnLog)
  BY <1>1, RecordedIs DEF Messages, Typed
<1>3. Settled(writing', {}) /\ IsSeq(writing')
  BY RewriteSettles
<1>4. Settled(turnLog \o writing', {})
  BY <1>2, <1>3, SettledTogether
<1>5. Recorded({})'
  BY <1>4 DEF Recorded
<1> QED
  BY <1>1, <1>5, BecomesWhole DEF TurnsAreSettled

-----------------------------------------------------------------------------
(* Batches.                                                                 *)

\* The first calls of those that are left make a batch.
LEMMA BatchIs ==
  ASSUME StartBatch, IsSeq(todo)
  PROVE  \E k \in 1 .. Len(todo) :
           /\ batch = <<>> /\ DOMAIN batch' = 1 .. k /\ IsSeq(batch') /\ IsSeq(todo')
           /\ \A i \in 1 .. k : batch'[i].call = todo[i].call /\ batch'[i].state \in {"result", "running"}
           /\ DOMAIN todo' = 1 .. Len(todo) - k
           /\ \A i \in 1 .. Len(todo) - k : todo'[i] = todo[k + i]
<1>1. PICK k : /\ k = Together(todo) /\ batch = <<>> /\ todo # <<>>
               /\ batch' = [i \in 1 .. k |-> [call |-> todo[i].call,
                              state |-> IF todo[i].kind = "cut" THEN "result" ELSE "running"]]
               /\ todo' = SubSeq(todo, k + 1, Len(todo))
  BY DEF StartBatch
<1>2. Len(todo) \in Nat \ {0}
  <2>1. PICK S : todo \in Seq(S)
    BY DEF IsSeq
  <2> QED
    BY <1>1, <2>1, EmptySeq
<1>3. k \in 1 .. Len(todo)
  <2>1. PICK K : K = {j \in 1 .. Len(todo) : j = 1 \/ \A i \in 1 .. j : todo[i].kind = "safe"}
    OBVIOUS
  <2>2. K \in SUBSET (0 .. Len(todo)) /\ K # {}
    BY <1>2, <2>1
  <2>3. Latest(K) \in K
    BY <1>2, <2>2, LatestIs
  <2>4. k = Latest(K)
    BY <1>1, <2>1 DEF Together
  <2> QED
    BY <2>1, <2>3, <2>4
<1>4. DOMAIN batch' = 1 .. k /\ batch' = [j \in 1 .. k |-> batch'[j]]
  BY <1>1
<1>5. \A i \in 1 .. k : batch'[i].call = todo[i].call /\ batch'[i].state \in {"result", "running"}
  BY <1>1
<1>6. IsSeq(batch')
  BY <1>3, <1>4, FunctionsAreSeqs
<1>7. k \in 0 .. Len(todo)
  BY <1>2, <1>3
<1>8. /\ Len(todo') = Len(todo) - k /\ IsSeq(todo')
      /\ \A i \in 1 .. Len(todo) - k : todo'[i] = todo[k + i]
  BY <1>1, <1>7, PartsAre, PartsOfSeqs
<1>9. DOMAIN todo' = 1 .. Len(todo')
  BY <1>8, PartsOfSeqs
<1> QED
  BY <1>1, <1>3, <1>4, <1>5, <1>6, <1>8, <1>9

\* Starting a batch leaves the same calls in hand.
LEMMA BatchKeepsLeft ==
  ASSUME StartBatch, IsSeq(todo)
  PROVE  Left' = Left /\ IsSeq(batch') /\ IsSeq(todo')
<1>1. PICK k \in 1 .. Len(todo) :
           /\ batch = <<>> /\ DOMAIN batch' = 1 .. k /\ IsSeq(batch') /\ IsSeq(todo')
           /\ \A i \in 1 .. k : batch'[i].call = todo[i].call /\ batch'[i].state \in {"result", "running"}
           /\ DOMAIN todo' = 1 .. Len(todo) - k
           /\ \A i \in 1 .. Len(todo) - k : todo'[i] = todo[k + i]
  BY BatchIs
<1>2. PICK n \in Nat : n = Len(todo) /\ DOMAIN todo = 1 .. n
  BY PartsOfSeqs
<1>3. Left = {todo[i].call : i \in 1 .. n}
  <2>1. DOMAIN batch = {}
    BY <1>1
  <2> QED
    BY <1>2, <2>1 DEF Left
<1>4. Left' = {batch'[i].call : i \in 1 .. k} \cup {todo'[i].call : i \in 1 .. n - k}
  <2>1. Left' = {batch'[i].call : i \in {i \in DOMAIN batch' : batch'[i].state # "appended"}}
                \cup {todo'[i].call : i \in DOMAIN todo'}
    BY DEF Left
  <2>2. {i \in DOMAIN batch' : batch'[i].state # "appended"} = 1 .. k
    BY <1>1
  <2>3. DOMAIN todo' = 1 .. n - k
    BY <1>1, <1>2
  <2> QED
    BY <2>1, <2>2, <2>3
<1>5. {batch'[i].call : i \in 1 .. k} = {todo[i].call : i \in 1 .. k}
  BY <1>1
<1>6. {todo'[i].call : i \in 1 .. n - k} = {todo[i].call : i \in k + 1 .. n}
  <2>1. \A i \in 1 .. n - k : k + i \in k + 1 .. n /\ todo'[i] = todo[k + i]
    BY <1>1, <1>2
  <2>2. \A j \in k + 1 .. n : j - k \in 1 .. n - k /\ k + (j - k) = j
    BY <1>1, <1>2
  <2>3. \A j \in k + 1 .. n : todo'[j - k] = todo[j]
    BY <2>1, <2>2
  <2> QED
    BY <2>1, <2>2, <2>3
<1>7. \A j : j \in 1 .. n <=> j \in 1 .. k \/ j \in k + 1 .. n
  BY <1>1, <1>2
<1>8. Left' = Left
  BY <1>3, <1>4, <1>5, <1>6, <1>7
<1> QED
  BY <1>1, <1>8

LEMMA CallKeepsLeft ==
  ASSUME NEW i, NEW how \in {"result", "stopped"}, CallEnds(i, how), IsSeq(batch)
  PROVE  Left' = Left /\ IsSeq(batch') /\ todo' = todo
<1>1. PICK b : /\ b = [batch EXCEPT ![i].state = how] /\ batch' = b
               /\ i \in DOMAIN batch /\ batch[i].state = "running" /\ todo' = todo
  BY DEF CallEnds
<1>2. PICK n \in Nat : n = Len(batch) /\ DOMAIN batch = 1 .. n
  BY PartsOfSeqs
<1>3. PICK e : e = [batch[i] EXCEPT !.state = how]
  OBVIOUS
<1>4. b = [batch EXCEPT ![i] = e]
  BY <1>1, <1>3
<1>5. DOMAIN b = 1 .. n /\ b = [j \in 1 .. n |-> b[j]] /\ \A j \in 1 .. n : b[j] = IF j = i THEN e ELSE batch[j]
  BY <1>1, <1>2, <1>4
<1>6. IsSeq(b)
  BY <1>5, FunctionsAreSeqs
<1>7. e.call = batch[i].call /\ (e.state = how \/ e.state = batch[i].state)
  BY <1>3
<1>8. \A j \in 1 .. n : b[j].call = batch[j].call /\ (b[j].state # "appended" <=> batch[j].state # "appended")
  BY <1>1, <1>5, <1>7
<1>9. {j \in DOMAIN b : b[j].state # "appended"} = {j \in DOMAIN batch : batch[j].state # "appended"}
  BY <1>2, <1>5, <1>8
<1>10. {b[j].call : j \in {j \in DOMAIN b : b[j].state # "appended"}}
         = {batch[j].call : j \in {j \in DOMAIN batch : batch[j].state # "appended"}}
  BY <1>2, <1>8, <1>9
<1>11. Left' = {b[j].call : j \in {j \in DOMAIN b : b[j].state # "appended"}} \cup {todo[j].call : j \in DOMAIN todo}
  BY <1>1 DEF Left
<1> QED
  BY <1>1, <1>6, <1>10, <1>11 DEF Left

\* The first call with a result is appended; the others stay in hand.
LEMMA AppendingIs ==
  ASSUME AppendResult, IsSeq(batch)
  PROVE  \E i \in DOMAIN batch :
           /\ batch[i].state = "result" /\ IsSeq(batch') /\ DOMAIN batch' = DOMAIN batch
           /\ Say(<<Result(batch[i].call, "result")>>)
           /\ \A j \in DOMAIN batch : batch'[j].call = batch[j].call
           /\ \A j \in DOMAIN batch : j # i => batch'[j].state = batch[j].state
           /\ batch'[i].state \in {"appended", batch[i].state}
           /\ todo' = todo
<1>1. PICK done : done = {j \in DOMAIN batch : batch[j].state = "result"}
  OBVIOUS
<1>2. PICK i : i = CHOOSE x \in done : \A j \in done : x <= j
  OBVIOUS
<1>3. PICK n \in Nat : n = Len(batch) /\ DOMAIN batch = 1 .. n
  BY PartsOfSeqs
<1>4. /\ done # {} /\ Say(<<Result(batch[i].call, "result")>>)
      /\ batch' = [batch EXCEPT ![i].state = "appended"] /\ todo' = todo
  BY <1>1, <1>2 DEF AppendResult
<1>5. i \in done
  <2>1. done \in SUBSET Nat
    BY <1>1, <1>3
  <2>2. \E x \in done : \A y \in done : x <= y
    BY <1>4, <2>1, LeastNatural
  <2> QED
    BY <1>2, <2>2
<1>6. i \in DOMAIN batch /\ batch[i].state = "result"
  BY <1>1, <1>5
<1>7. PICK e : e = [batch[i] EXCEPT !.state = "appended"]
  OBVIOUS
<1>8. PICK b : b = [batch EXCEPT ![i] = e] /\ batch' = b
  BY <1>4, <1>7
<1>9. DOMAIN b = 1 .. n /\ b = [j \in 1 .. n |-> b[j]] /\ \A j \in 1 .. n : b[j] = IF j = i THEN e ELSE batch[j]
  BY <1>3, <1>8
<1>10. IsSeq(b)
  BY <1>9, FunctionsAreSeqs
<1>11. e.call = batch[i].call /\ (e.state = "appended" \/ e.state = batch[i].state)
  BY <1>7
<1>12. /\ \A j \in 1 .. n : b[j].call = batch[j].call
       /\ \A j \in 1 .. n : j # i => b[j].state = batch[j].state
       /\ b[i].state \in {"appended", batch[i].state}
  BY <1>3, <1>6, <1>9, <1>11
<1> QED
  BY <1>3, <1>4, <1>6, <1>8, <1>9, <1>10, <1>12

LEMMA AppendingLeaves ==
  ASSUME AppendResult, IsSeq(batch)
  PROVE  \E c : /\ Say(<<Result(c, "result")>>) /\ Left \ {c} \subseteq Left'
                /\ IsSeq(batch') /\ todo' = todo
<1>1. PICK i \in DOMAIN batch :
           /\ batch[i].state = "result" /\ IsSeq(batch') /\ DOMAIN batch' = DOMAIN batch
           /\ Say(<<Result(batch[i].call, "result")>>)
           /\ \A j \in DOMAIN batch : batch'[j].call = batch[j].call
           /\ \A j \in DOMAIN batch : j # i => batch'[j].state = batch[j].state
           /\ todo' = todo
  BY AppendingIs
<1>2. PICK c : c = batch[i].call
  OBVIOUS
<1>3. ASSUME NEW d \in Left, d # c
      PROVE  d \in Left'
  <2>1. CASE d \in {todo[j].call : j \in DOMAIN todo}
    BY <1>1, <2>1 DEF Left
  <2>2. CASE \E j \in DOMAIN batch : batch[j].state # "appended" /\ d = batch[j].call
    <3>1. PICK j \in DOMAIN batch : batch[j].state # "appended" /\ d = batch[j].call
      BY <2>2
    <3>2. j # i
      BY <1>2, <1>3, <3>1
    <3>3. j \in DOMAIN batch' /\ batch'[j].state # "appended" /\ batch'[j].call = d
      BY <1>1, <3>1, <3>2
    <3> QED
      BY <3>3 DEF Left
  <2> QED
    BY <1>3, <2>1, <2>2 DEF Left
<1>4. Say(<<Result(c, "result")>>)
  BY <1>1, <1>2
<1> QED
  BY <1>1, <1>3, <1>4

LEMMA AppendingSettles ==
  ASSUME TurnsAreSettled, Messages, AppendResult
  PROVE  TurnsAreSettled'
<1>1. IsSeq(batch) /\ IsSeq(todo) /\ pc = "tools" /\ pc' = "tools" /\ writing = <<>>
      /\ UNCHANGED <<chat, partial>>
  BY DEF TurnsAreSettled, AppendResult, Still, At, Unmoved
<1>2. PICK c : /\ Say(<<Result(c, "result")>>) /\ Left \ {c} \subseteq Left'
               /\ IsSeq(batch') /\ todo' = todo
  BY <1>1, AppendingLeaves
<1>3. Settled(conv, Left) /\ ~partial /\ Recorded(Left) /\ Settled(chat, {})
  BY <1>1 DEF TurnsAreSettled
<1>4. Settled(turnLog, Left)
  BY <1>1, <1>3, RecordedIs
<1>5. PICK m : m = Result(c, "result") /\ m.role = "tool" /\ m.call = c
  BY MessagesAre
<1>6. IsSeq(<<m>>) /\ Len(<<m>>) = 1 /\ <<m>>[1] = m
  BY OneMessage
<1>7. \A i \in 1 .. Len(<<m>>) : i = 1
  BY <1>6
<1>8. \A i \in 1 .. Len(<<m>>) : <<m>>[i].role # "assistant"
  BY <1>5, <1>6, <1>7
<1>9. \A d \in Left \ Left' : \E i \in 1 .. Len(<<m>>) : Has(<<m>>[i], d)
  <2>1. \A d \in Left \ Left' : d = c
    BY <1>2
  <2>2. Has(<<m>>[1], c) /\ 1 \in 1 .. Len(<<m>>)
    BY <1>5, <1>6 DEF Has
  <2> QED
    BY <2>1, <2>2
<1>10. IsSeq(conv) /\ IsSeq(turnLog)
  BY DEF Messages, Typed
<1>11. PICK L : L = Left'
  OBVIOUS
<1>12. Settled(conv \o <<m>>, L) /\ Settled(turnLog \o <<m>>, L) /\ IsSeq(turnLog \o <<m>>)
  <2>1. PICK t : t = <<m>>
    OBVIOUS
  <2>2. \A d \in Left \ L : \E i \in 1 .. Len(t) : Has(t[i], d)
    BY <1>9, <1>11, <2>1
  <2>3. IsSeq(t) /\ \A i \in 1 .. Len(t) : t[i].role # "assistant"
    BY <1>6, <1>8, <2>1
  <2>4. PICK F : F = Left
    OBVIOUS
  <2>5. Settled(conv, F) /\ Settled(turnLog, F) /\ \A d \in F \ L : \E i \in 1 .. Len(t) : Has(t[i], d)
    BY <1>3, <1>4, <2>2, <2>4
  <2>6. Settled(conv \o t, L)
    BY <1>10, <2>3, <2>5, ResultSettles
  <2>7. Settled(turnLog \o t, L)
    BY <1>10, <2>3, <2>5, ResultSettles
  <2>8. IsSeq(turnLog \o t)
    BY <1>10, <2>3, JoinedSeqs
  <2> QED
    BY <2>1, <2>6, <2>7, <2>8
<1>13. conv' = conv \o <<m>> /\ turnLog' = turnLog \o <<m>> /\ writing' = <<>>
  BY <1>1, <1>2, <1>5 DEF Say
<1>14. (turnLog \o <<m>>) \o <<>> = turnLog \o <<m>>
  BY <1>12, JoinedSeqs
<1>15. Settled(conv', Left') /\ Settled(turnLog' \o writing', Left')
  BY <1>11, <1>12, <1>13, <1>14
<1>16. Recorded(Left)'
  BY <1>15 DEF Recorded
<1> QED
  BY <1>1, <1>2, <1>3, <1>15, <1>16 DEF TurnsAreSettled, WholeSteps

LEMMA EndingSettles ==
  ASSUME TurnsAreSettled, Messages, EndBatch
  PROVE  TurnsAreSettled'
<1>1. /\ pc = "tools" /\ writing = <<>>
      /\ \A i \in DOMAIN batch : batch[i].state \in {"appended", "stopped"}
      /\ batch' = <<>>
      /\ UNCHANGED <<conv, chat, writing, turnLog, partial, todo>>
  BY DEF EndBatch, Still, At, Unmoved, log
<1>2. IsSeq(<<>>)
  BY EmptySeq DEF IsSeq
<1>3. Settled(conv, Left) /\ ~partial /\ Recorded(Left) /\ Settled(chat, {}) /\ IsSeq(todo)
  BY <1>1 DEF TurnsAreSettled
<1>4. Settled(turnLog, Left)
  BY <1>1, <1>3, RecordedIs
<1>5. CASE \E i \in DOMAIN batch : batch[i].state = "stopped"
  <2>1. pc' = "cancelled"
    BY <1>5 DEF EndBatch
  <2> QED
    BY <1>1, <1>2, <1>3, <2>1 DEF TurnsAreSettled, WholeSteps
<1>6. CASE ~ \E i \in DOMAIN batch : batch[i].state = "stopped"
  <2>1. Left = {todo[i].call : i \in DOMAIN todo}
    <3>1. {i \in DOMAIN batch : batch[i].state # "appended"} = {}
      BY <1>1, <1>6
    <3> QED
      BY <3>1 DEF Left
  <2>2. pc' = IF todo = <<>> THEN "after" ELSE "tools"
    BY <1>6 DEF EndBatch
  <2>3. CASE todo = <<>>
    <3>1. Left = {}
      BY <2>1, <2>3
    <3>2. Settled(turnLog \o writing, {})
      BY <1>1, <1>4, <3>1, RecordedIs
    <3>3. Recorded({})' /\ Settled(conv', {}) /\ pc' \in WholeSteps
      BY <1>1, <1>3, <2>2, <2>3, <3>1, <3>2 DEF Recorded, WholeSteps
    <3> QED
      BY <1>1, <1>2, <1>3, <3>3, BecomesWhole
  <2>4. CASE todo # <<>>
    <3>1. Left' = Left
      <4>1. Left' = {batch'[i].call : i \in {i \in DOMAIN batch' : batch'[i].state # "appended"}}
                    \cup {todo'[i].call : i \in DOMAIN todo'}
        BY DEF Left
      <4>2. DOMAIN batch' = {} /\ todo' = todo
        BY <1>1
      <4>3. {i \in DOMAIN batch' : batch'[i].state # "appended"} = {}
        BY <4>2
      <4> QED
        BY <2>1, <4>1, <4>2, <4>3
    <3>2. pc' = "tools"
      BY <2>2, <2>4
    <3>3. Settled(turnLog \o writing, Left)
      BY <1>1, <1>4, RecordedIs
    <3>4. Recorded(Left)'
      BY <1>1, <3>1, <3>3 DEF Recorded
    <3> QED
      BY <1>1, <1>2, <1>3, <3>1, <3>2, <3>4 DEF TurnsAreSettled, WholeSteps
  <2> QED
    BY <2>3, <2>4
<1> QED
  BY <1>5, <1>6

LEMMA RespondingSettles ==
  ASSUME TurnsAreSettled, Messages, Responds
  PROVE  TurnsAreSettled'
<1>1. PICK k, kinds : k \in 0 .. MaxCalls /\ Respond(k, kinds)
  BY RespondSays
<1>2. k \in Nat
  BY <1>1, AgentAssumption
<1>3. PICK n, C : n = answers + 1 /\ C = {<<n, i>> : i \in 1 .. k}
  OBVIOUS
<1>4. /\ pc = "ask" /\ writing = <<>> /\ Say(<<Answer(n, C)>>) /\ UNCHANGED <<chat, partial>>
      /\ todo' = [i \in 1 .. k |-> [call |-> <<n, i>>, kind |-> kinds[i]]] /\ batch' = <<>>
      /\ pc' \in {"cancelled", "final", "tools"} /\ (pc' = "final" => k = 0)
  <2>1. pc = "ask" /\ writing = <<>>
    BY DEF Responds, At
  <2>2. Say(<<Answer(n, C)>>)
    BY <1>1, <1>3 DEF Respond
  <2>3. UNCHANGED <<chat, partial>>
    BY <1>1 DEF Respond, Unmoved
  <2>4. todo' = [i \in 1 .. k |-> [call |-> <<n, i>>, kind |-> kinds[i]]] /\ batch' = <<>>
    BY <1>1, <1>3 DEF Respond
  <2>5. pc' = (IF cancelled THEN "cancelled" ELSE IF k = 0 THEN "final" ELSE "tools")
    BY <1>1 DEF Respond
  <2> QED
    BY <2>1, <2>2, <2>3, <2>4, <2>5
<1>5. PICK m : m = Answer(n, C)
  OBVIOUS
<1>6. Settled(conv, {}) /\ ~partial /\ Recorded({}) /\ Settled(chat, {})
  BY <1>4 DEF TurnsAreSettled, WholeSteps
<1>7. IsSeq(conv) /\ IsSeq(turnLog) /\ Settled(turnLog, {}) /\ IsSeq(<<m>>)
  BY <1>4, <1>6, RecordedIs, OneMessage DEF Messages, Typed
<1>8. Settled(conv \o <<m>>, C) /\ Settled(turnLog \o <<m>>, C) /\ IsSeq(turnLog \o <<m>>)
  BY <1>5, <1>6, <1>7, AnswerSettles, JoinedSeqs
<1>9. conv' = conv \o <<m>> /\ turnLog' \o writing' = turnLog \o <<m>>
  <2>1. conv' = conv \o <<m>> /\ turnLog' = turnLog \o <<m>> /\ writing' = <<>>
    BY <1>4, <1>5 DEF Say
  <2> QED
    BY <1>8, <2>1, JoinedSeqs
<1>10. IsSeq(todo') /\ IsSeq(batch')
  <2>1. todo' = [i \in 1 .. k |-> todo'[i]]
    BY <1>4
  <2>2. IsSeq(<<>>)
    BY EmptySeq DEF IsSeq
  <2> QED
    BY <1>2, <1>4, <2>1, <2>2, FunctionsAreSeqs
<1>11. CASE pc' = "cancelled"
  BY <1>4, <1>6, <1>10, <1>11 DEF TurnsAreSettled, WholeSteps
<1>12. CASE pc' = "final"
  <2>1. C = {}
    BY <1>3, <1>4, <1>12
  <2> QED
    BY <1>4, <1>6, <1>8, <1>9, <1>10, <1>12, <2>1, BecomesWhole DEF Recorded, WholeSteps
<1>13. CASE pc' = "tools"
  <2>1. Left' = C
    <3>1. Left' = {batch'[i].call : i \in {i \in DOMAIN batch' : batch'[i].state # "appended"}}
                  \cup {todo'[i].call : i \in DOMAIN todo'}
      BY DEF Left
    <3>2. {i \in DOMAIN batch' : batch'[i].state # "appended"} = {}
      BY <1>4
    <3>3. DOMAIN todo' = 1 .. k /\ \A i \in 1 .. k : todo'[i].call = <<n, i>>
      BY <1>4
    <3> QED
      BY <1>3, <3>1, <3>2, <3>3
  <2> QED
    BY <1>4, <1>6, <1>8, <1>9, <1>10, <1>13, <2>1 DEF TurnsAreSettled, WholeSteps, Recorded
<1> QED
  BY <1>4, <1>11, <1>12, <1>13

LEMMA QuietSettles ==
  ASSUME TurnsAreSettled, Messages,
         \/ UNCHANGED vars \/ Stop \/ Redirect \/ Fits \/ Refuses \/ RequestFails
         \/ RequestStopped \/ AfterTools \/ Settle \/ WaitedTooLong \/ NoHook
  PROVE  TurnsAreSettled'
<1>1. CASE UNCHANGED vars \/ Stop \/ Redirect
  BY <1>1, SettledAside DEF vars, run, log, Stop, Redirect
<1>2. CASE Fits \/ Refuses \/ RequestFails \/ RequestStopped
  <2>1. /\ UNCHANGED <<conv, chat, writing, turnLog, turn, partial, reason, todo, batch>>
        /\ writing = <<>> /\ pc \in {"ask", "request"}
    BY <1>2 DEF Fits, Refuses, RequestFails, RequestStopped, At, Unmoved, run, log
  <2>2. pc' \in {"ask", "cancelled", "ending", "failed"}
    BY <1>2 DEF Fits, Refuses, RequestFails, RequestStopped
  <2> QED
    BY <2>1, <2>2, SettledAside DEF WholeSteps
<1>3. CASE AfterTools \/ WaitedTooLong \/ NoHook
  <2>1. /\ UNCHANGED <<conv, chat, writing, turnLog, turn, partial, reason, todo, batch>>
        /\ writing = <<>> /\ pc \in {"after", "final", "hook"}
    BY <1>3 DEF AfterTools, WaitedTooLong, NoHook, Still, At, Unmoved, log
  <2>2. pc' \in {"cancelled", "turn", "budget", "ending"}
    BY <1>3 DEF AfterTools, WaitedTooLong, NoHook
  <2> QED
    BY <2>1, <2>2, SettledAside DEF WholeSteps
<1>4. CASE Settle
  <2>1. /\ UNCHANGED <<conv, chat, writing, turnLog, turn, partial, reason, todo, batch>>
        /\ writing = <<>> /\ pc = "final"
    BY <1>4 DEF Settle, At, run, log
  <2>2. pc' \in {"turn", "hook"}
    BY <1>4 DEF Settle
  <2> QED
    BY <2>1, <2>2, SettledAside DEF WholeSteps
<1> QED
  BY <1>1, <1>2, <1>3, <1>4

LEMMA CallsSettle ==
  ASSUME TurnsAreSettled, Messages, StartBatch \/ \E i \in 1 .. MaxCalls, how \in {"result", "stopped"} : CallEnds(i, how)
  PROVE  TurnsAreSettled'
<1>1. IsSeq(todo) /\ IsSeq(batch)
  BY DEF TurnsAreSettled
<1>2. /\ Left' = Left /\ IsSeq(todo') /\ IsSeq(batch')
  <2>1. CASE StartBatch
    BY <1>1, <2>1, BatchKeepsLeft
  <2>2. CASE \E i \in 1 .. MaxCalls, how \in {"result", "stopped"} : CallEnds(i, how)
    BY <1>1, <2>2, CallKeepsLeft
  <2> QED
    BY <2>1, <2>2
<1>3. pc = "tools" /\ UNCHANGED <<pc, conv, chat, writing, turnLog, turn, partial, reason>>
  <2>1. CASE StartBatch
    BY <2>1 DEF StartBatch, Still, At, Unmoved, log
  <2>2. CASE \E i \in 1 .. MaxCalls, how \in {"result", "stopped"} : CallEnds(i, how)
    BY <2>2 DEF CallEnds, Still, At, Unmoved, log
  <2> QED
    BY <2>1, <2>2
<1>4. Recorded(Left)'
  BY <1>2, <1>3 DEF TurnsAreSettled, Recorded
<1> QED
  BY <1>2, <1>3, <1>4 DEF TurnsAreSettled, WholeSteps

LEMMA EndsSettle ==
  ASSUME TurnsAreSettled, Messages, IsSeq(queue),
         OutOfTurns \/ Budget \/ Cancelled \/ Failed \/ Finish
  PROVE  TurnsAreSettled'
<1>1. IsSeq(conv) /\ Typed(conv) /\ conv \o <<>> = conv
  BY JoinedSeqs DEF Messages, Typed
<1>2. CASE OutOfTurns \/ Budget \/ Finish
  <2>1. PICK why : Close(<<>>, why)
    BY <1>2 DEF OutOfTurns, Budget, Finish
  <2>2. writing = <<>> /\ pc \in WholeSteps
    BY <1>2 DEF OutOfTurns, Budget, Finish, At, WholeSteps
  <2>3. Settled(conv \o <<>>, {})
    BY <1>1, <2>2 DEF TurnsAreSettled
  <2> QED
    BY <2>1, <2>2, <2>3, NothingTyped, ClosingSettles
<1>3. CASE Cancelled \/ Failed
  <2>1. PICK why : Close(Repairs(conv, why), why) /\ why \in {"cancelled", "failed"}
    BY <1>3 DEF Cancelled, Failed
  <2>2. writing = <<>>
    BY <1>3 DEF Cancelled, Failed, At
  <2>3. PICK ms : ms = Repairs(conv, why)
    OBVIOUS
  <2>4. Typed(ms) /\ Settled(conv \o ms, {})
    BY <1>1, <2>3, RepairsAre, RepairsSettle
  <2> QED
    BY <2>1, <2>2, <2>3, <2>4, ClosingSettles
<1> QED
  BY <1>2, <1>3

LEMMA ChatSettles ==
  ASSUME TurnsAreSettled, Messages, StartChat \/ CompactChat
  PROVE  TurnsAreSettled'
<1>1. Typed(Asked) /\ Settled(Asked, {})
  <2>1. PICK m : m = User(<<"prompt", prompts + 1>>) /\ IsMessage(m) /\ m.role = "user"
    BY MessagesAre
  <2>2. Asked = chat \o <<m>>
    <3>1. PICK A : chat \in Seq(A)
      BY DEF Messages, Typed, IsSeq
    <3> QED
      BY <2>1, <3>1 DEF Asked
  <2>3. Typed(<<m>>) /\ IsSeq(<<m>>) /\ Typed(chat) /\ IsSeq(chat)
    BY <2>1, OneMessage DEF Messages, Typed
  <2>4. \A i \in 1 .. Len(<<m>>) : <<m>>[i].role # "assistant"
    <3>1. <<m>>[1] = m /\ Len(<<m>>) = 1
      BY OneMessage
    <3>2. \A i \in 1 .. 1 : i = 1
      OBVIOUS
    <3> QED
      BY <2>1, <3>1, <3>2
  <2>5. Settled(<<m>>, {}) /\ Settled(chat, {})
    BY <2>3, <2>4, NobodyCalls DEF TurnsAreSettled
  <2> QED
    BY <2>2, <2>3, <2>5, TypedTogether, SettledTogether
<1>2. PICK ms : Chat(ms) /\ Settled(ms, {})
  <2>1. CASE StartChat
    BY <1>1, <2>1 DEF StartChat
  <2>2. CASE CompactChat
    <3>1. PICK ms \in Compactions(Asked, rewrites + 1) : Chat(ms)
      BY <2>2 DEF CompactChat
    <3>2. PICK asked : asked = Asked
      OBVIOUS
    <3>3. Settled(ms, {})
      BY <1>1, <3>1, <3>2, CompactedSettle
    <3> QED
      BY <3>1, <3>3
  <2> QED
    BY <2>1, <2>2
<1>3. /\ conv' = ms /\ chat' = ms /\ turnLog' = <<>> /\ pc' = "turn" /\ turn' = 0
      /\ partial' = FALSE /\ todo' = <<>> /\ batch' = <<>>
  BY <1>2 DEF Chat
<1>4. IsSeq(todo') /\ IsSeq(batch')
  BY <1>3, NothingTyped DEF Typed
<1>5. Settled(conv', {}) /\ Settled(chat', {})
  BY <1>2, <1>3
<1>6. Recorded({})' /\ pc' \in WholeSteps /\ ~partial'
  BY <1>3 DEF Recorded, WholeSteps
<1> QED
  BY <1>4, <1>5, <1>6, BecomesWhole

LEMMA RewritesSettle ==
  ASSUME TurnsAreSettled, Messages, IsSeq(digests),
         CompactForRequest \/ Overflow \/ StopHookRefused
  PROVE  TurnsAreSettled'
<1>1. CASE CompactForRequest \/ Overflow
  <2>1. PICK from, to : Compact(from, to) /\ {from, to} \subseteq {"ask", "request"}
    BY <1>1 DEF CompactForRequest, Overflow
  <2>2. PICK ms \in Compactions(conv, rewrites + 1) : conv' = ms /\ Persist(ms, TRUE)
    BY <2>1 DEF Compact
  <2>3. pc = from /\ pc' = to /\ writing = <<>>
    BY <2>1 DEF Compact, At
  <2>4. UNCHANGED <<chat, turnLog, partial>>
    BY <2>1 DEF Compact, Unmoved
  <2>5. UNCHANGED <<todo, batch>>
    BY <1>1 DEF CompactForRequest, Overflow, run
  <2>6. pc \in WholeSteps /\ pc' \in WholeSteps
    BY <2>1, <2>3 DEF WholeSteps
  <2>7. Settled(conv, {}) /\ Typed(conv)
    BY <2>6 DEF TurnsAreSettled, Messages
  <2>8. Settled(ms, {}) /\ IsSeq(ms)
    BY <2>2, <2>7, CompactedSettle, TypedCompactions DEF Typed
  <2> QED
    BY <2>2, <2>3, <2>4, <2>5, <2>6, <2>8, RewritingSettles
<1>2. CASE StopHookRefused
  <2>1. /\ pc = "hook" /\ pc' = "ending" /\ writing = <<>> /\ Persist(conv', TRUE)
        /\ UNCHANGED <<chat, turnLog, partial, todo, batch>>
    BY <1>2 DEF StopHookRefused, Still, At, Unmoved
  <2>2. /\ Typed(conv') /\ Len(conv') = Len(conv)
        /\ \A i \in 1 .. Len(conv) : i # Len(conv) => conv'[i] = conv[i]
        /\ Len(conv) \in 1 .. Len(conv)
        /\ conv'[Len(conv)].role = "assistant" /\ conv'[Len(conv)].calls = {}
        /\ conv[Len(conv)].role = "assistant" /\ conv[Len(conv)].calls = {}
    BY <1>2, NotedIs
  <2>3. PICK ms, n : ms = conv' /\ n = Len(conv)
    OBVIOUS
  <2>4. /\ Typed(ms) /\ Len(ms) = n /\ n \in 1 .. n /\ \A i \in 1 .. n : i # n => ms[i] = conv[i]
        /\ ms[n].role = "assistant" /\ ms[n].calls = {} /\ conv[n].role = "assistant" /\ conv[n].calls = {}
    BY <2>2, <2>3
  <2>5. IsSeq(ms) /\ IsSeq(conv) /\ Settled(conv, {})
    BY <2>1, <2>4 DEF Typed, Messages, TurnsAreSettled, WholeSteps
  <2>6. \A i : i \in Callers(ms) <=> i \in 1 .. n /\ ms[i].role = "assistant" /\ ms[i].calls # {}
    BY <2>4, <2>5, CallersAre
  <2>7. \A i : i \in Callers(conv) <=> i \in 1 .. n /\ conv[i].role = "assistant" /\ conv[i].calls # {}
    BY <2>3, <2>5, CallersAre
  <2>8. \A i \in Callers(ms) : i \in Callers(conv) /\ i # n /\ ms[i] = conv[i]
    BY <2>4, <2>6, <2>7
  <2>9. \A i \in Callers(conv) : i \in Callers(ms)
    <3>1. \A i \in Callers(conv) : i # n /\ i \in 1 .. n
      BY <2>4, <2>7
    <3> QED
      BY <2>4, <2>6, <2>7, <3>1
  <2>10. Settled(ms, {})
    <3>1. SUFFICES ASSUME NEW a \in Callers(ms), NEW c \in ms[a].calls \ {}
                   PROVE  (\E b \in Callers(ms) : a < b) \/ (\E i \in a + 1 .. Len(ms) : Has(ms[i], c))
      BY DEF Settled
    <3>2. a \in Callers(conv) /\ c \in conv[a].calls \ {}
      BY <2>8, <3>1
    <3>3. CASE \E b \in Callers(conv) : a < b
      BY <2>9, <3>3
    <3>4. CASE \E i \in a + 1 .. n : Has(conv[i], c)
      <4>1. PICK i \in a + 1 .. n : Has(conv[i], c)
        BY <3>4
      <4>2. a \in 1 .. n /\ n \in Nat
        BY <2>4, <2>5, <2>6, <3>1, PartsOfSeqs
      <4>3. i \in 1 .. n /\ i # n
        <5>1. conv[n].role # "tool"
          BY <2>4
        <5>2. i # n
          BY <4>1, <5>1 DEF Has
        <5> QED
          BY <4>1, <4>2, <5>2
      <4>4. Has(ms[i], c)
        BY <2>4, <4>1, <4>3
      <4> QED
        BY <2>4, <4>1, <4>4
    <3> QED
      BY <2>3, <2>5, <3>2, <3>3, <3>4 DEF Settled
  <2>11. pc \in WholeSteps /\ pc' \in WholeSteps
    BY <2>1 DEF WholeSteps
  <2>12. conv' = ms /\ Persist(ms, TRUE)
    BY <2>1, <2>3
  <2> QED
    BY <2>1, <2>5, <2>10, <2>11, <2>12, RewritingSettles
<1> QED
  BY <1>1, <1>2

LEMMA TurnSettles ==
  ASSUME TurnsAreSettled, Messages, IsSeq(queue), Turn
  PROVE  TurnsAreSettled'
<1>1. /\ pc = "turn" /\ writing = <<>> /\ UNCHANGED <<chat, writing, todo, batch>>
      /\ partial' = (partial \/ Unanswered(turnLog) # {})
  BY DEF Turn, At
<1>2. Settled(conv, {}) /\ ~partial /\ Recorded({}) /\ Settled(turnLog, {})
  <2>1. Settled(conv, {}) /\ ~partial /\ Recorded({})
    BY <1>1 DEF TurnsAreSettled, WholeSteps
  <2> QED
    BY <1>1, <2>1, RecordedIs
<1>3. ~partial'
  <2>1. IsSeq(turnLog)
    BY DEF Messages, Typed
  <2>2. Unanswered(turnLog) = {}
    BY <1>2, <2>1, SettledIs
  <2> QED
    BY <1>1, <1>2, <2>2
<1>4. CASE cancelled
  <2>1. pc' = "cancelled"
    BY <1>4 DEF Turn
  <2> QED
    BY <1>1, <2>1 DEF TurnsAreSettled, WholeSteps
<1>5. CASE ~cancelled
  <2>1. PICK ms : ms = Texts(queue) /\ conv' = conv \o ms /\ turnLog' = ms
    BY <1>5 DEF Turn
  <2>2. pc' \in {"request", "budget"}
    BY <1>5 DEF Turn
  <2>3. IsSeq(ms) /\ Settled(ms, {}) /\ IsSeq(conv)
    <3>1. Typed(ms) /\ \A i \in 1 .. Len(ms) : ms[i].role = "user"
      BY <2>1, TypedTexts
    <3> QED
      BY <3>1, NobodyCalls DEF Typed, Messages
  <2>4. Settled(conv', {}) /\ Settled(turnLog' \o writing', {})
    <3>1. ms \o <<>> = ms
      BY <2>3, JoinedSeqs
    <3> QED
      BY <1>1, <1>2, <2>1, <2>3, <3>1, SettledTogether
  <2>5. Recorded({})' /\ pc' \in WholeSteps
    BY <2>2, <2>4 DEF Recorded, WholeSteps
  <2> QED
    BY <1>1, <1>3, <2>4, <2>5, BecomesWhole DEF TurnsAreSettled
<1> QED
  BY <1>4, <1>5

LEMMA HookSettles ==
  ASSUME TurnsAreSettled, Messages, StopHook
  PROVE  TurnsAreSettled'
<1>1. PICK m : m = User(<<"hook", answers>>) /\ m.role = "user"
  BY MessagesAre
<1>2. /\ pc = "hook" /\ pc' = "turn" /\ writing = <<>>
      /\ conv' = conv \o <<m>> /\ turnLog' = turnLog \o <<m>> /\ writing' = writing
      /\ UNCHANGED <<chat, partial, todo, batch>>
  BY <1>1 DEF StopHook, At, Say, Unmoved
<1>3. Settled(conv, {}) /\ ~partial /\ Recorded({})
  BY <1>2 DEF TurnsAreSettled, WholeSteps
<1>4. Settled(turnLog, {}) /\ IsSeq(turnLog) /\ IsSeq(conv)
  BY <1>2, <1>3, RecordedIs DEF Messages, Typed
<1>5. IsSeq(<<m>>) /\ Settled(<<m>>, {})
  <2>1. <<m>>[1] = m /\ Len(<<m>>) = 1 /\ IsSeq(<<m>>)
    BY OneMessage
  <2>2. \A i \in 1 .. 1 : i = 1
    OBVIOUS
  <2>3. \A i \in 1 .. Len(<<m>>) : <<m>>[i].role # "assistant"
    BY <1>1, <2>1, <2>2
  <2> QED
    BY <2>1, <2>3, NobodyCalls
<1>6. Settled(conv \o <<m>>, {}) /\ Settled(turnLog \o <<m>>, {}) /\ IsSeq(turnLog \o <<m>>)
  BY <1>3, <1>4, <1>5, SettledTogether, JoinedSeqs
<1>7. Settled(conv', {}) /\ Settled(turnLog' \o writing', {})
  BY <1>2, <1>6, JoinedSeqs
<1>8. Recorded({})' /\ pc' \in WholeSteps
  BY <1>2, <1>7 DEF Recorded, WholeSteps
<1> QED
  BY <1>2, <1>3, <1>7, <1>8, BecomesWhole DEF TurnsAreSettled

LEMMA SettledStep ==
  ASSUME TurnsAreSettled, Messages, Transcribed, [Next]_vars
  PROVE  TurnsAreSettled'
<1>1. IsSeq(queue) /\ IsSeq(digests)
  BY DEF Transcribed, Sequenced
<1>2. CASE Leave
  <2>1. /\ chat' = <<>> /\ todo' = <<>> /\ batch' = <<>> /\ pc' = "down" /\ reason' = "none"
    BY <1>2 DEF Leave
  <2>2. IsSeq(todo') /\ IsSeq(batch') /\ Settled(chat', {})
    BY <2>1, NothingTyped DEF Typed
  <2> QED
    BY <2>1, <2>2 DEF TurnsAreSettled, WholeSteps
<1>3. CASE Reopen
  <2>1. PICK ms : ms = saved \o Repairs(saved, "ended") /\ chat' = ms
    BY <1>3 DEF Reopen
  <2>2. Settled(ms, {})
    BY <2>1, RepairsSettle DEF Messages
  <2>3. /\ pc = "down" /\ pc' = "idle" /\ UNCHANGED <<writing, reason, todo, batch>>
    BY <1>3 DEF Reopen, run
  <2>4. writing = <<>> /\ reason = "none"
    BY <2>3 DEF Transcribed, TurnsAreSettled
  <2> QED
    BY <2>1, <2>2, <2>3, <2>4 DEF TurnsAreSettled, WholeSteps
<1> QED
  BY <1>1, <1>2, <1>3, QuietSettles, CallsSettle, EndsSettle, ChatSettles, RewritesSettle, TurnSettles,
     HookSettles, WriteSettles, AppendingSettles, EndingSettles, RespondingSettles
     DEF Next, Thread

\* A run that neither failed nor was cancelled answered every call of each of
\* its turns ("a completed run cannot contain a partial turn", session.py),
\* whatever was compacted, continued by a hook or steered in between.
THEOREM CompletedRunsAreWhole == Spec => []CompletedHasNoPartialTurn
<1>1. TurnsAreSettled /\ Messages => CompletedHasNoPartialTurn
  <2>1. SUFFICES ASSUME TurnsAreSettled, Messages, pc = "idle",
                        reason \notin {"none", "failed", "cancelled"}
                 PROVE  ~partial /\ Unanswered(turnLog) = {}
    BY DEF CompletedHasNoPartialTurn
  <2>2. ~partial /\ Settled(turnLog, {}) /\ IsSeq(turnLog)
    BY <2>1 DEF TurnsAreSettled, Messages, Typed
  <2> QED
    BY <2>2, SettledIs
<1>2. Init => TurnsAreSettled /\ Messages /\ Transcribed /\ OpenedFirst
  BY SettledInit, MessagesInit, TranscribedInit DEF Init, OpenedFirst
<1>3. TurnsAreSettled /\ Messages /\ Transcribed /\ OpenedFirst /\ [Next]_vars
        => (TurnsAreSettled /\ Messages /\ Transcribed /\ OpenedFirst)'
  BY SettledStep, MessagesStep, TranscribedStep, OpenedStep
<1> QED
  BY <1>1, <1>2, <1>3, PTL DEF Spec

(* Histories whose results stand where a provider expects them.             *)

Open(ms, a) == \A j \in a + 1 .. Len(ms) : ms[j].role = "tool"

\* Every result follows an answer that asked for it.
Owned(ms) ==
  \A i \in 1 .. Len(ms) : ms[i].role = "tool" =>
    \E a \in 1 .. Len(ms) : Follows(ms, a, i) /\ ms[i].call \in ms[a].calls

\* No call has two results.
Once(ms) ==
  \A a, i, j \in 1 .. Len(ms) :
    Follows(ms, a, i) /\ Follows(ms, a, j) /\ ms[i].call = ms[j].call => i = j

\* Every call has a result, but for those of C at the end.
Given(ms, C) ==
  \A a \in 1 .. Len(ms) : ms[a].role = "assistant" =>
    \A c \in ms[a].calls :
      \/ \E i \in 1 .. Len(ms) : Follows(ms, a, i) /\ ms[i].call = c
      \/ c \in C /\ Open(ms, a)

Answered(ms, C) == Owned(ms) /\ Once(ms) /\ Given(ms, C)

\* The last answer asked for the calls of C, and none has a result.
Awaits(ms, C) ==
  C = {} \/ \E a \in 1 .. Len(ms) :
    /\ ms[a].role = "assistant" /\ Open(ms, a) /\ C \subseteq ms[a].calls
    /\ \A i \in 1 .. Len(ms) : Follows(ms, a, i) => ms[i].call \notin C

LEMMA WholeIs ==
  ASSUME NEW ms, IsSeq(ms)
  PROVE  WellFormed(ms) <=> Answered(ms, {})
<1>1. DOMAIN ms = 1 .. Len(ms)
  BY PartsOfSeqs
<1>2. /\ \A i : i \in Where(ms, "tool") <=> i \in 1 .. Len(ms) /\ ms[i].role = "tool"
      /\ \A i : i \in Where(ms, "assistant") <=> i \in 1 .. Len(ms) /\ ms[i].role = "assistant"
  BY <1>1 DEF Where
<1>3. ASSUME WellFormed(ms) PROVE Answered(ms, {})
  <2>1. Owned(ms)
    BY <1>1, <1>2, <1>3 DEF WellFormed, Owned
  <2>2. Given(ms, {})
    <3>1. SUFFICES ASSUME NEW a \in 1 .. Len(ms), ms[a].role = "assistant", NEW c \in ms[a].calls
                   PROVE  \E i \in 1 .. Len(ms) : Follows(ms, a, i) /\ ms[i].call = c
      BY DEF Given
    <3>2. a \in Where(ms, "assistant")
      BY <1>2, <3>1
    <3> QED
      BY <1>1, <1>3, <3>2 DEF WellFormed
  <2>3. Once(ms)
    <3>1. SUFFICES ASSUME NEW a \in 1 .. Len(ms), NEW i \in 1 .. Len(ms), NEW j \in 1 .. Len(ms),
                          Follows(ms, a, i), Follows(ms, a, j), ms[i].call = ms[j].call
                   PROVE  i = j
      BY DEF Once
    <3>2. ms[i].role = "tool" /\ ms[a].role = "assistant" /\ a < i
      <4>1. Len(ms) \in Nat
        BY PartsOfSeqs
      <4>2. i \in a + 1 .. i
        BY <3>1, <4>1 DEF Follows
      <4> QED
        BY <3>1, <4>2 DEF Follows
    <3>3. PICK b \in 1 .. Len(ms) : Follows(ms, b, i) /\ ms[i].call \in ms[b].calls
      BY <2>1, <3>2 DEF Owned
    <3>4. a = b
      <4>1. Len(ms) \in Nat
        BY PartsOfSeqs
      <4>2. ~ (a < b)
        BY <3>1, <3>3, <4>1 DEF Follows
      <4>3. ~ (b < a)
        BY <3>1, <3>3, <4>1 DEF Follows
      <4> QED
        BY <4>1, <4>2, <4>3
    <3>5. a \in Where(ms, "assistant") /\ ms[i].call \in ms[a].calls
      BY <1>2, <3>2, <3>3, <3>4
    <3>6. PICK k \in DOMAIN ms : \A l \in DOMAIN ms : Follows(ms, a, l) /\ ms[l].call = ms[i].call => l = k
      BY <1>3, <3>5 DEF WellFormed
    <3> QED
      BY <1>1, <3>1, <3>6
  <2> QED
    BY <2>1, <2>2, <2>3 DEF Answered
<1>4. ASSUME Answered(ms, {}) PROVE WellFormed(ms)
  <2>1. \A i \in Where(ms, "tool") : \E a \in DOMAIN ms : Follows(ms, a, i) /\ ms[i].call \in ms[a].calls
    BY <1>1, <1>2, <1>4 DEF Answered, Owned
  <2>2. ASSUME NEW a \in Where(ms, "assistant"), NEW c \in ms[a].calls
        PROVE  \E i \in DOMAIN ms : /\ Follows(ms, a, i) /\ ms[i].call = c
                 /\ \A j \in DOMAIN ms : Follows(ms, a, j) /\ ms[j].call = c => j = i
    <3>1. a \in 1 .. Len(ms) /\ ms[a].role = "assistant"
      BY <1>2
    <3>2. PICK i \in 1 .. Len(ms) : Follows(ms, a, i) /\ ms[i].call = c
      BY <1>4, <3>1 DEF Answered, Given
    <3>3. \A j \in 1 .. Len(ms) : Follows(ms, a, j) /\ ms[j].call = c => j = i
      BY <1>4, <3>1, <3>2 DEF Answered, Once
    <3> QED
      BY <1>1, <3>2, <3>3
  <2> QED
    BY <2>1, <2>2 DEF WellFormed
<1> QED
  BY <1>3, <1>4

\* Where an answer's results stand in a history made of two.
LEMMA FollowsTogether ==
  ASSUME NEW s, NEW t, IsSeq(s), IsSeq(t)
  PROVE  /\ \A a, i \in 1 .. Len(s) : Follows(s \o t, a, i) <=> Follows(s, a, i)
         /\ \A a, i \in 1 .. Len(t) : Follows(s \o t, Len(s) + a, Len(s) + i) <=> Follows(t, a, i)
         /\ \A a \in 1 .. Len(s), i \in 1 .. Len(t) :
              Follows(s \o t, a, Len(s) + i) <=>
                s[a].role = "assistant" /\ Open(s, a) /\ \A j \in 1 .. i : t[j].role = "tool"
         /\ \A a \in 1 .. Len(s) :
              Open(s \o t, a) <=> Open(s, a) /\ \A j \in 1 .. Len(t) : t[j].role = "tool"
         /\ \A a \in 1 .. Len(t) : Open(s \o t, Len(s) + a) <=> Open(t, a)
<1>1. PICK u, m, n : u = s \o t /\ m = Len(s) /\ n = Len(t)
  OBVIOUS
<1>2. /\ m \in Nat /\ n \in Nat /\ Len(u) = m + n
      /\ \A i \in 1 .. m : u[i] = s[i]
      /\ \A i \in 1 .. n : u[m + i] = t[i]
  BY <1>1, ConcatIs
<1>3. ASSUME NEW a \in 1 .. m, NEW i \in 1 .. m
      PROVE  Follows(u, a, i) <=> Follows(s, a, i)
  <2>1. \A j \in a + 1 .. i : u[j] = s[j]
    BY <1>2
  <2> QED
    BY <1>2, <2>1 DEF Follows
<1>4. ASSUME NEW a \in 0 .. n, NEW i \in 0 .. n
      PROVE  (\A j \in m + a + 1 .. m + i : u[j].role = "tool") <=> \A j \in a + 1 .. i : t[j].role = "tool"
  <2>1. ASSUME NEW j \in m + a + 1 .. m + i
        PROVE  j - m \in a + 1 .. i /\ u[j] = t[j - m]
    <3>1. j - m \in a + 1 .. i /\ j - m \in 1 .. n /\ m + (j - m) = j
      BY <1>2, <1>4, <2>1
    <3> QED
      BY <1>2, <3>1
  <2>2. ASSUME NEW j \in a + 1 .. i
        PROVE  m + j \in m + a + 1 .. m + i /\ u[m + j] = t[j]
    BY <1>2, <1>4, <2>2
  <2> QED
    BY <2>1, <2>2
<1>5. ASSUME NEW a \in 1 .. n, NEW i \in 1 .. n
      PROVE  Follows(u, m + a, m + i) <=> Follows(t, a, i)
  <2>1. u[m + a] = t[a] /\ (m + a < m + i <=> a < i)
    BY <1>2
  <2>2. a \in 0 .. n /\ i \in 0 .. n
    OBVIOUS
  <2>3. (\A j \in m + a + 1 .. m + i : u[j].role = "tool") <=> \A j \in a + 1 .. i : t[j].role = "tool"
    BY <1>4, <2>2
  <2> QED
    BY <2>1, <2>3 DEF Follows
<1>6. ASSUME NEW a \in 1 .. m, NEW i \in 0 .. n
      PROVE  (\A j \in a + 1 .. m + i : u[j].role = "tool") <=> Open(s, a) /\ \A j \in 1 .. i : t[j].role = "tool"
  <2>1. 0 \in 0 .. n
    BY <1>2
  <2>2. (\A j \in m + 0 + 1 .. m + i : u[j].role = "tool") <=> \A j \in 0 + 1 .. i : t[j].role = "tool"
    BY <1>4, <1>6, <2>1
  <2>3. (\A j \in a + 1 .. m + i : u[j].role = "tool") <=>
          (\A j \in a + 1 .. m : u[j].role = "tool") /\ (\A j \in m + 1 .. m + i : u[j].role = "tool")
    BY <1>2, <1>6
  <2>4. (\A j \in a + 1 .. m : u[j].role = "tool") <=> Open(s, a)
    <3>1. \A j \in a + 1 .. m : u[j] = s[j]
      BY <1>2, <1>6
    <3> QED
      BY <1>1, <3>1 DEF Open
  <2>5. (\A j \in m + 1 .. m + i : u[j].role = "tool") <=> \A j \in 1 .. i : t[j].role = "tool"
    <3>1. m + 0 + 1 = m + 1 /\ 0 + 1 = 1
      BY <1>2
    <3> QED
      BY <2>2, <3>1
  <2> QED
    BY <2>3, <2>4, <2>5
<1>7. ASSUME NEW a \in 1 .. m, NEW i \in 1 .. n
      PROVE  Follows(u, a, m + i) <=>
               s[a].role = "assistant" /\ Open(s, a) /\ \A j \in 1 .. i : t[j].role = "tool"
  <2>1. u[a] = s[a] /\ a < m + i /\ i \in 0 .. n
    BY <1>2
  <2> QED
    BY <1>6, <2>1 DEF Follows
<1>8. ASSUME NEW a \in 1 .. m
      PROVE  Open(u, a) <=> Open(s, a) /\ \A j \in 1 .. n : t[j].role = "tool"
  <2>1. n \in 0 .. n
    BY <1>2
  <2>2. (\A j \in a + 1 .. m + n : u[j].role = "tool") <=> Open(s, a) /\ \A j \in 1 .. n : t[j].role = "tool"
    BY <1>6, <2>1
  <2> QED
    BY <1>2, <2>2 DEF Open
<1>9. ASSUME NEW a \in 1 .. n
      PROVE  Open(u, m + a) <=> Open(t, a)
  <2>1. n \in 0 .. n /\ a \in 0 .. n
    BY <1>2
  <2>2. (\A j \in m + a + 1 .. m + n : u[j].role = "tool") <=> \A j \in a + 1 .. n : t[j].role = "tool"
    BY <1>4, <2>1
  <2> QED
    BY <1>1, <1>2, <2>2 DEF Open
<1> QED
  BY <1>1, <1>3, <1>5, <1>7, <1>8, <1>9

LEMMA PlainIsAnswered ==
  ASSUME NEW ms, IsSeq(ms), NEW C, \A i \in 1 .. Len(ms) : ms[i].role \notin {"assistant", "tool"}
  PROVE  Answered(ms, C)
<1>1. Owned(ms) /\ Given(ms, C)
  BY DEF Owned, Given
<1>2. Once(ms)
  BY DEF Once, Follows
<1> QED
  BY <1>1, <1>2 DEF Answered

\* One answer waits for all its calls.
LEMMA AnswerAwaits ==
  ASSUME NEW n, NEW K
  PROVE  Answered(<<Answer(n, K)>>, K)
<1>1. PICK m : m = Answer(n, K) /\ m.role = "assistant" /\ m.calls = K
  BY MessagesAre
<1>2. PICK t : t = <<m>> /\ Len(t) = 1 /\ t[1] = m
  BY OneMessage
<1>3. \A i \in 1 .. Len(t) : i = 1
  BY <1>2
<1>4. \A i \in 1 .. Len(t) : t[i].role = "assistant" /\ t[i].calls = K
  BY <1>1, <1>2, <1>3
<1>5. Owned(t)
  BY <1>4 DEF Owned
<1>6. Once(t)
  BY <1>3 DEF Once
<1>7. Given(t, K)
  <2>1. \A a \in 1 .. Len(t) : Open(t, a)
    <3>1. \A a \in 1 .. Len(t) : \A j \in a + 1 .. Len(t) : FALSE
      BY <1>2, <1>3
    <3> QED
      BY <3>1 DEF Open
  <2> QED
    BY <1>4, <2>1 DEF Given
<1> QED
  BY <1>1, <1>2, <1>5, <1>6, <1>7 DEF Answered

\* What is answered stays so when more is added that is answered in itself.
LEMMA AnsweredTogether ==
  ASSUME NEW s, NEW t, IsSeq(s), IsSeq(t), NEW C, Answered(s, {}), Answered(t, C)
  PROVE  Answered(s \o t, C)
<1>1. PICK u, m, n : u = s \o t /\ m = Len(s) /\ n = Len(t)
  OBVIOUS
<1>2. /\ m \in Nat /\ n \in Nat /\ Len(u) = m + n
      /\ \A i \in 1 .. m : u[i] = s[i]
      /\ \A i \in 1 .. n : u[m + i] = t[i]
  BY <1>1, ConcatIs
<1>3. /\ \A a, i \in 1 .. m : Follows(u, a, i) <=> Follows(s, a, i)
      /\ \A a, i \in 1 .. n : Follows(u, m + a, m + i) <=> Follows(t, a, i)
      /\ \A a \in 1 .. m, i \in 1 .. n :
           Follows(u, a, m + i) => \A j \in 1 .. i : t[j].role = "tool"
      /\ \A a \in 1 .. n : Open(u, m + a) <=> Open(t, a)
  <2>1. \A a, i \in 1 .. m : Follows(u, a, i) <=> Follows(s, a, i)
    BY <1>1, FollowsTogether
  <2>2. \A a, i \in 1 .. n : Follows(u, m + a, m + i) <=> Follows(t, a, i)
    BY <1>1, FollowsTogether
  <2>3. \A a \in 1 .. m, i \in 1 .. n : Follows(u, a, m + i) => \A j \in 1 .. i : t[j].role = "tool"
    BY <1>1, FollowsTogether
  <2>4. \A a \in 1 .. n : Open(u, m + a) <=> Open(t, a)
    BY <1>1, FollowsTogether
  <2> QED
    BY <2>1, <2>2, <2>3, <2>4
<1>4. \A i \in 1 .. m + n : i \in 1 .. m \/ \E k \in 1 .. n : i = m + k
  <2>1. SUFFICES ASSUME NEW i \in 1 .. m + n, i \notin 1 .. m PROVE i - m \in 1 .. n /\ i = m + (i - m)
    OBVIOUS
  <2> QED
    BY <1>2, <2>1
<1>5. \A a \in 1 .. m, i \in 1 .. n : ~Follows(u, a, m + i)
  <2>1. SUFFICES ASSUME NEW a \in 1 .. m, NEW i \in 1 .. n, \A j \in 1 .. i : t[j].role = "tool"
                 PROVE  FALSE
    BY <1>3
  <2>2. 1 \in 1 .. n /\ 1 \in 1 .. i
    BY <1>2
  <2>3. PICK b \in 1 .. n : Follows(t, b, 1)
    BY <1>1, <2>1, <2>2 DEF Answered, Owned
  <2> QED
    BY <1>2, <2>3 DEF Follows
<1>6. \A a \in 1 .. n, i \in 1 .. m : ~Follows(u, m + a, i)
  BY <1>2 DEF Follows
<1>7. \A i \in 1 .. m : i \in 1 .. m + n
  BY <1>2
<1>8. \A i \in 1 .. n : m + i \in 1 .. m + n
  BY <1>2
<1>9. Owned(u)
  <2>1. SUFFICES ASSUME NEW i \in 1 .. m + n, u[i].role = "tool"
                 PROVE  \E a \in 1 .. m + n : Follows(u, a, i) /\ u[i].call \in u[a].calls
    BY <1>2 DEF Owned
  <2>2. CASE i \in 1 .. m
    <3>1. PICK a \in 1 .. m : Follows(s, a, i) /\ s[i].call \in s[a].calls
      BY <1>1, <1>2, <2>1, <2>2 DEF Answered, Owned
    <3> QED
      BY <1>2, <1>3, <1>7, <2>2, <3>1
  <2>3. CASE \E k \in 1 .. n : i = m + k
    <3>1. PICK k \in 1 .. n : i = m + k
      BY <2>3
    <3>2. PICK a \in 1 .. n : Follows(t, a, k) /\ t[k].call \in t[a].calls
      BY <1>1, <1>2, <2>1, <3>1 DEF Answered, Owned
    <3>3. Follows(u, m + a, i) /\ u[i].call \in u[m + a].calls
      BY <1>2, <1>3, <3>1, <3>2
    <3> QED
      BY <1>8, <3>3
  <2> QED
    BY <1>4, <2>2, <2>3
<1>10. Once(u)
  <2>1. SUFFICES ASSUME NEW a \in 1 .. m + n, NEW i \in 1 .. m + n, NEW j \in 1 .. m + n,
                        Follows(u, a, i), Follows(u, a, j), u[i].call = u[j].call
                 PROVE  i = j
    BY <1>2 DEF Once
  <2>2. CASE a \in 1 .. m
    <3>1. i \in 1 .. m /\ j \in 1 .. m
      BY <1>4, <1>5, <2>1, <2>2
    <3> QED
      BY <1>1, <1>2, <1>3, <2>1, <2>2, <3>1 DEF Answered, Once
  <2>3. CASE \E k \in 1 .. n : a = m + k
    <3>1. PICK k \in 1 .. n : a = m + k
      BY <2>3
    <3>2. (\E x \in 1 .. n : i = m + x) /\ (\E y \in 1 .. n : j = m + y)
      BY <1>4, <1>6, <2>1, <3>1
    <3>3. PICK x \in 1 .. n, y \in 1 .. n : i = m + x /\ j = m + y
      BY <3>2
    <3>4. Follows(t, k, x) /\ Follows(t, k, y) /\ t[x].call = t[y].call
      BY <1>2, <1>3, <2>1, <3>1, <3>3
    <3>5. x = y
      BY <1>1, <3>4 DEF Answered, Once
    <3> QED
      BY <3>3, <3>5
  <2> QED
    BY <1>4, <2>2, <2>3
<1>11. Given(u, C)
  <2>1. SUFFICES ASSUME NEW a \in 1 .. m + n, u[a].role = "assistant", NEW c \in u[a].calls
                 PROVE  \/ \E i \in 1 .. m + n : Follows(u, a, i) /\ u[i].call = c
                        \/ c \in C /\ Open(u, a)
    BY <1>2 DEF Given
  <2>2. CASE a \in 1 .. m
    <3>1. PICK i \in 1 .. m : Follows(s, a, i) /\ s[i].call = c
      BY <1>1, <1>2, <2>1, <2>2 DEF Answered, Given
    <3> QED
      BY <1>2, <1>3, <1>7, <2>2, <3>1
  <2>3. CASE \E k \in 1 .. n : a = m + k
    <3>1. PICK k \in 1 .. n : a = m + k
      BY <2>3
    <3>2. t[k].role = "assistant" /\ c \in t[k].calls
      BY <1>2, <2>1, <3>1
    <3>3. CASE \E i \in 1 .. n : Follows(t, k, i) /\ t[i].call = c
      BY <1>2, <1>3, <1>8, <3>1, <3>3
    <3>4. CASE c \in C /\ Open(t, k)
      BY <1>3, <3>1, <3>4
    <3> QED
      BY <1>1, <3>2, <3>3, <3>4 DEF Answered, Given
  <2> QED
    BY <1>4, <2>2, <2>3
<1> QED
  BY <1>1, <1>9, <1>10, <1>11 DEF Answered

\* Results for calls that wait are answers to them.
LEMMA ResultsAnswer ==
  ASSUME NEW s, NEW t, IsSeq(s), IsSeq(t), NEW C, NEW D \in SUBSET C,
         Answered(s, C), Awaits(s, C),
         \A i \in 1 .. Len(t) : t[i].role = "tool" /\ t[i].call \in C \ D,
         \A i, j \in 1 .. Len(t) : t[i].call = t[j].call => i = j,
         \A c \in C \ D : \E i \in 1 .. Len(t) : t[i].call = c
  PROVE  Answered(s \o t, D) /\ Awaits(s \o t, D)
<1>1. PICK u, m, n : u = s \o t /\ m = Len(s) /\ n = Len(t)
  OBVIOUS
<1>2. /\ m \in Nat /\ n \in Nat /\ Len(u) = m + n
      /\ \A i \in 1 .. m : u[i] = s[i]
      /\ \A i \in 1 .. n : u[m + i] = t[i]
  BY <1>1, ConcatIs
<1>3. CASE C = {}
  <2>1. \A i \in 1 .. n : FALSE
    BY <1>1, <1>3
  <2>2. n = 0
    <3>1. n >= 1 => 1 \in 1 .. n
      BY <1>2
    <3> QED
      BY <1>2, <2>1, <3>1
  <2>3. t = <<>>
    <3>1. PICK S : t \in Seq(S)
      BY DEF IsSeq
    <3> QED
      BY <1>1, <2>2, <3>1, EmptySeq
  <2>4. s \o t = s /\ D = C
    BY <1>3, <2>3, JoinedSeqs
  <2> QED
    BY <2>4
<1>4. CASE C # {}
  <2>1. PICK a \in 1 .. m :
          /\ s[a].role = "assistant" /\ Open(s, a) /\ C \subseteq s[a].calls
          /\ \A i \in 1 .. m : Follows(s, a, i) => s[i].call \notin C
    BY <1>1, <1>4 DEF Awaits
  <2>2. \A b, i \in 1 .. m : Follows(u, b, i) <=> Follows(s, b, i)
    BY <1>1, FollowsTogether
  <2>3. \A b \in 1 .. m, i \in 1 .. n :
          Follows(u, b, m + i) <=> s[b].role = "assistant" /\ Open(s, b) /\ \A j \in 1 .. i : t[j].role = "tool"
    <3>1. SUFFICES ASSUME NEW b \in 1 .. Len(s), NEW i \in 1 .. Len(t)
                   PROVE  Follows(s \o t, b, Len(s) + i) <=>
                            s[b].role = "assistant" /\ Open(s, b) /\ \A j \in 1 .. i : t[j].role = "tool"
      BY <1>1
    <3> QED
      BY FollowsTogether
  <2>4. \A b \in 1 .. m : Open(u, b) <=> Open(s, b) /\ \A j \in 1 .. n : t[j].role = "tool"
    BY <1>1, FollowsTogether
  <2>5. \A i \in 1 .. n : \A j \in 1 .. i : t[j].role = "tool"
    BY <1>1, <1>2
  <2>6. \A i \in 1 .. n : Follows(u, a, m + i)
    BY <2>1, <2>3, <2>5
  <2>7. Open(u, a)
    BY <1>1, <2>1, <2>4
  <2>8. \A b \in 1 .. m : s[b].role = "assistant" /\ Open(s, b) => b = a
    <3>1. SUFFICES ASSUME NEW b \in 1 .. m, s[b].role = "assistant", Open(s, b), b # a PROVE FALSE
      OBVIOUS
    <3>2. CASE b < a
      <4>1. a \in b + 1 .. m
        BY <1>2, <3>2
      <4> QED
        BY <1>1, <2>1, <3>1, <4>1 DEF Open
    <3>3. CASE a < b
      <4>1. b \in a + 1 .. m
        BY <1>2, <3>3
      <4> QED
        BY <1>1, <2>1, <3>1, <4>1 DEF Open
    <3> QED
      BY <1>2, <3>1, <3>2, <3>3
  <2>9. \A i \in 1 .. m + n : i \in 1 .. m \/ \E k \in 1 .. n : i = m + k
    <3>1. SUFFICES ASSUME NEW i \in 1 .. m + n, i \notin 1 .. m PROVE i - m \in 1 .. n /\ i = m + (i - m)
      OBVIOUS
    <3> QED
      BY <1>2, <3>1
  <2>10. \A i \in 1 .. m : i \in 1 .. m + n
    BY <1>2
  <2>11. \A i \in 1 .. n : m + i \in 1 .. m + n
    BY <1>2
  <2>12. \A b \in 1 .. m + n : u[b].role = "assistant" => b \in 1 .. m /\ s[b].role = "assistant"
    <3>1. SUFFICES ASSUME NEW b \in 1 .. m + n, u[b].role = "assistant", NEW k \in 1 .. n, b = m + k PROVE FALSE
      BY <1>2, <2>9
    <3>2. u[b] = t[k]
      BY <1>2, <3>1
    <3> QED
      BY <1>1, <3>1, <3>2
  <2>13. \A b, i : Follows(u, b, i) => u[b].role = "assistant"
    BY DEF Follows
  <2>14. \A b \in 1 .. m + n, i \in 1 .. n : Follows(u, b, m + i) => b = a
    <3>1. SUFFICES ASSUME NEW b \in 1 .. m + n, NEW i \in 1 .. n, Follows(u, b, m + i) PROVE b = a
      OBVIOUS
    <3>2. b \in 1 .. m /\ s[b].role = "assistant"
      BY <2>12, <2>13, <3>1
    <3>3. Open(s, b)
      BY <2>3, <3>1, <3>2
    <3> QED
      BY <2>8, <3>2, <3>3
  <2>15. Owned(u)
    <3>1. SUFFICES ASSUME NEW i \in 1 .. m + n, u[i].role = "tool"
                   PROVE  \E b \in 1 .. m + n : Follows(u, b, i) /\ u[i].call \in u[b].calls
      BY <1>2 DEF Owned
    <3>2. CASE i \in 1 .. m
      <4>1. PICK b \in 1 .. m : Follows(s, b, i) /\ s[i].call \in s[b].calls
        BY <1>1, <1>2, <3>1, <3>2 DEF Answered, Owned
      <4> QED
        BY <1>2, <2>2, <2>10, <3>2, <4>1
    <3>3. CASE \E k \in 1 .. n : i = m + k
      <4>1. PICK k \in 1 .. n : i = m + k
        BY <3>3
      <4>2. Follows(u, a, i) /\ u[i] = t[k] /\ u[a] = s[a] /\ t[k].call \in C
        BY <1>1, <1>2, <2>6, <4>1
      <4> QED
        BY <2>1, <2>10, <4>2
    <3> QED
      BY <2>9, <3>2, <3>3
  <2>16. \A i \in 1 .. m, k \in 1 .. n : Follows(s, a, i) => s[i].call # t[k].call
    BY <1>1, <2>1
  <2>17. Once(u)
    <3>1. SUFFICES ASSUME NEW b \in 1 .. m + n, NEW i \in 1 .. m + n, NEW j \in 1 .. m + n,
                          Follows(u, b, i), Follows(u, b, j), u[i].call = u[j].call
                   PROVE  i = j
      BY <1>2 DEF Once
    <3>2. b \in 1 .. m
      BY <2>12, <2>13, <3>1
    <3>3. CASE i \in 1 .. m /\ j \in 1 .. m
      BY <1>1, <1>2, <2>2, <3>1, <3>2, <3>3 DEF Answered, Once
    <3>4. ASSUME NEW x \in 1 .. m, NEW k \in 1 .. n, Follows(u, b, x), Follows(u, b, m + k)
          PROVE  u[x].call # u[m + k].call
      <4>1. b = a
        BY <2>14, <3>4
      <4>2. Follows(s, a, x)
        BY <2>2, <3>2, <3>4, <4>1
      <4>3. u[x] = s[x] /\ u[m + k] = t[k]
        BY <1>2
      <4> QED
        BY <2>16, <4>2, <4>3
    <3>5. CASE (\E k \in 1 .. n : i = m + k) /\ (\E l \in 1 .. n : j = m + l)
      <4>1. PICK k \in 1 .. n, l \in 1 .. n : i = m + k /\ j = m + l
        BY <3>5
      <4>2. t[k].call = t[l].call
        BY <1>2, <3>1, <4>1
      <4>3. k = l
        BY <1>1, <4>2
      <4> QED
        BY <4>1, <4>3
    <3> QED
      BY <2>9, <3>1, <3>3, <3>4, <3>5
  <2>18. Given(u, D)
    <3>1. SUFFICES ASSUME NEW b \in 1 .. m + n, u[b].role = "assistant", NEW c \in u[b].calls
                   PROVE  \/ \E i \in 1 .. m + n : Follows(u, b, i) /\ u[i].call = c
                          \/ c \in D /\ Open(u, b)
      BY <1>2 DEF Given
    <3>2. b \in 1 .. m /\ s[b].role = "assistant" /\ c \in s[b].calls
      BY <1>2, <2>12, <3>1
    <3>3. CASE \E i \in 1 .. m : Follows(s, b, i) /\ s[i].call = c
      BY <1>2, <2>2, <2>10, <3>2, <3>3
    <3>4. CASE c \in C /\ Open(s, b)
      <4>1. b = a
        BY <2>8, <3>2, <3>4
      <4>2. CASE c \in D
        BY <2>7, <4>1, <4>2
      <4>3. CASE c \notin D
        <5>1. PICK i \in 1 .. n : t[i].call = c
          BY <1>1, <3>4, <4>3
        <5>2. Follows(u, b, m + i) /\ u[m + i].call = c
          BY <1>2, <2>6, <4>1, <5>1
        <5> QED
          BY <2>11, <5>2
      <4> QED
        BY <4>2, <4>3
    <3> QED
      BY <1>1, <3>2, <3>3, <3>4 DEF Answered, Given
  <2>19. Awaits(u, D)
    <3>1. u[a].role = "assistant" /\ D \subseteq u[a].calls
      BY <1>2, <2>1
    <3>2. ASSUME NEW i \in 1 .. m + n, Follows(u, a, i) PROVE u[i].call \notin D
      <4>1. CASE i \in 1 .. m
        BY <1>2, <2>1, <2>2, <3>2, <4>1
      <4>2. CASE \E k \in 1 .. n : i = m + k
        BY <1>1, <1>2, <4>2
      <4> QED
        BY <2>9, <4>1, <4>2
    <3> QED
      BY <1>2, <2>7, <2>10, <3>1, <3>2 DEF Awaits
  <2> QED
    BY <1>1, <2>15, <2>17, <2>18, <2>19 DEF Answered
<1> QED
  BY <1>3, <1>4

\* Part of a history: the last answer may wait.
LEMMA AnsweredBefore ==
  ASSUME NEW s, NEW t, IsSeq(s), IsSeq(t), NEW C, Answered(s \o t, C)
  PROVE  \E D : Answered(s, D)
<1>1. PICK u, m, n : u = s \o t /\ m = Len(s) /\ n = Len(t)
  OBVIOUS
<1>2. /\ m \in Nat /\ n \in Nat /\ Len(u) = m + n
      /\ \A i \in 1 .. m : u[i] = s[i]
  BY <1>1, ConcatIs
<1>3. /\ \A b, i \in 1 .. m : Follows(u, b, i) <=> Follows(s, b, i)
      /\ \A b \in 1 .. m : Open(u, b) => Open(s, b)
      /\ \A b \in 1 .. m, i \in 1 .. n : Follows(u, b, m + i) => Open(s, b)
  <2>1. \A b, i \in 1 .. m : Follows(u, b, i) <=> Follows(s, b, i)
    BY <1>1, FollowsTogether
  <2>2. \A b \in 1 .. m : Open(u, b) => Open(s, b)
    BY <1>1, FollowsTogether
  <2>3. \A b \in 1 .. m, i \in 1 .. n : Follows(u, b, m + i) => Open(s, b)
    BY <1>1, FollowsTogether
  <2> QED
    BY <2>1, <2>2, <2>3
<1>4. \A i \in 1 .. m + n : i \in 1 .. m \/ \E k \in 1 .. n : i = m + k
  <2>1. SUFFICES ASSUME NEW i \in 1 .. m + n, i \notin 1 .. m PROVE i - m \in 1 .. n /\ i = m + (i - m)
    OBVIOUS
  <2> QED
    BY <1>2, <2>1
<1>5. \A i \in 1 .. m : i \in 1 .. m + n
  BY <1>2
<1>6. PICK D : D = UNION {s[a].calls : a \in {a \in 1 .. m : s[a].role = "assistant"}}
  OBVIOUS
<1>7. Owned(s)
  <2>1. SUFFICES ASSUME NEW i \in 1 .. m, s[i].role = "tool"
                 PROVE  \E a \in 1 .. m : Follows(s, a, i) /\ s[i].call \in s[a].calls
    BY <1>1 DEF Owned
  <2>2. PICK a \in 1 .. m + n : Follows(u, a, i) /\ u[i].call \in u[a].calls
    BY <1>1, <1>2, <1>5, <2>1 DEF Answered, Owned
  <2>3. a \in 1 .. m
    BY <1>2, <2>2 DEF Follows
  <2> QED
    BY <1>2, <1>3, <2>2, <2>3
<1>8. Once(s)
  <2>1. SUFFICES ASSUME NEW b \in 1 .. m, NEW i \in 1 .. m, NEW j \in 1 .. m,
                        Follows(s, b, i), Follows(s, b, j), s[i].call = s[j].call
                 PROVE  i = j
    BY <1>1 DEF Once
  <2> QED
    BY <1>1, <1>2, <1>3, <1>5, <2>1 DEF Answered, Once
<1>9. Given(s, D)
  <2>1. SUFFICES ASSUME NEW a \in 1 .. m, s[a].role = "assistant", NEW c \in s[a].calls
                 PROVE  \/ \E i \in 1 .. m : Follows(s, a, i) /\ s[i].call = c
                        \/ Open(s, a)
    BY <1>1, <1>6 DEF Given
  <2>2. \/ \E i \in 1 .. m + n : Follows(u, a, i) /\ u[i].call = c
        \/ Open(u, a)
    BY <1>1, <1>2, <1>5, <2>1 DEF Answered, Given
  <2>3. CASE \E i \in 1 .. m + n : Follows(u, a, i) /\ u[i].call = c
    <3>1. PICK i \in 1 .. m + n : Follows(u, a, i) /\ u[i].call = c
      BY <2>3
    <3>2. CASE i \in 1 .. m
      BY <1>2, <1>3, <3>1, <3>2
    <3>3. CASE \E k \in 1 .. n : i = m + k
      BY <1>3, <3>1, <3>3
    <3> QED
      BY <1>4, <3>2, <3>3
  <2> QED
    BY <1>3, <2>2, <2>3
<1> QED
  BY <1>7, <1>8, <1>9 DEF Answered

\* The calls that repair finds are the ones that wait.
LEMMA UnansweredAwait ==
  ASSUME NEW ms, IsSeq(ms), NEW C, Answered(ms, C)
  PROVE  Answered(ms, Unanswered(ms)) /\ Awaits(ms, Unanswered(ms))
<1>1. PICK n \in Nat : n = Len(ms)
  BY PartsOfSeqs
<1>2. \A i : i \in Callers(ms) <=> i \in 1 .. n /\ ms[i].role = "assistant" /\ ms[i].calls # {}
  BY <1>1, CallersAre
<1>3. CASE Callers(ms) = {}
  <2>1. Unanswered(ms) = {}
    BY <1>3 DEF Unanswered
  <2>2. Given(ms, {})
    BY <1>1, <1>2, <1>3 DEF Given
  <2> QED
    BY <2>1, <2>2 DEF Answered, Awaits
<1>4. CASE Callers(ms) # {}
  <2>1. PICK a : a = Latest(Callers(ms))
    OBVIOUS
  <2>2. a \in Callers(ms) /\ \A j \in Callers(ms) : j <= a
    <3>1. Callers(ms) \in SUBSET (0 .. n)
      BY <1>1, <1>2
    <3> QED
      BY <1>4, <2>1, <3>1, LatestIs
  <2>3. PICK U : U = Unanswered(ms)
    OBVIOUS
  <2>4. \A c : c \in U <=> c \in ms[a].calls /\ ~\E i \in a + 1 .. n : Has(ms[i], c)
    BY <1>1, <1>4, <2>1, <2>3 DEF Unanswered
  <2>5. a \in 1 .. n /\ ms[a].role = "assistant" /\ ms[a].calls # {}
    BY <1>2, <2>2
  <2>6. ASSUME NEW b \in 1 .. n, ms[b].role = "assistant", Open(ms, b), b < a
        PROVE  FALSE
    <3>1. a \in b + 1 .. n
      BY <2>5, <2>6
    <3> QED
      BY <1>1, <2>5, <2>6, <3>1 DEF Open
  <2>7. ASSUME NEW c \in ms[a].calls, c \notin U, Open(ms, a)
        PROVE  \E i \in 1 .. n : Follows(ms, a, i) /\ ms[i].call = c
    <3>1. PICK i \in a + 1 .. n : Has(ms[i], c)
      BY <2>4, <2>7
    <3>2. i \in 1 .. n /\ a < i
      BY <2>5
    <3>3. \A j \in a + 1 .. i : j \in a + 1 .. n
      BY <2>5, <3>2
    <3>4. Follows(ms, a, i)
      BY <1>1, <2>5, <2>7, <3>2, <3>3 DEF Follows, Open
    <3> QED
      BY <3>1, <3>2, <3>4 DEF Has
  <2>8. Given(ms, U)
    <3>1. SUFFICES ASSUME NEW b \in 1 .. n, ms[b].role = "assistant", NEW c \in ms[b].calls,
                          ~ \E i \in 1 .. n : Follows(ms, b, i) /\ ms[i].call = c
                   PROVE  c \in U /\ Open(ms, b)
      BY <1>1 DEF Given
    <3>2. Open(ms, b)
      BY <1>1, <3>1 DEF Answered, Given
    <3>3. b \in Callers(ms)
      BY <1>2, <3>1
    <3>4. b = a
      BY <2>2, <2>5, <2>6, <3>1, <3>2, <3>3
    <3> QED
      BY <2>7, <3>1, <3>2, <3>4
  <2>9. Awaits(ms, U)
    <3>1. SUFFICES ASSUME NEW c \in U PROVE Awaits(ms, U)
      BY DEF Awaits
    <3>2. c \in ms[a].calls /\ \A i \in a + 1 .. n : ~Has(ms[i], c)
      BY <2>4, <3>1
    <3>3. ASSUME NEW i \in 1 .. n, Follows(ms, a, i)
          PROVE  i \in a + 1 .. n /\ ms[i].role = "tool"
      <4>1. i \in a + 1 .. i
        BY <2>5, <3>3 DEF Follows
      <4> QED
        BY <2>5, <3>3, <4>1 DEF Follows
    <3>4. Open(ms, a)
      <4>1. ~ \E i \in 1 .. n : Follows(ms, a, i) /\ ms[i].call = c
        BY <3>2, <3>3 DEF Has
      <4> QED
        BY <1>1, <2>5, <3>2, <4>1 DEF Answered, Given
    <3>5. \A i \in 1 .. n : Follows(ms, a, i) => ms[i].call \notin U
      BY <2>4, <3>3 DEF Has
    <3>6. U \subseteq ms[a].calls
      BY <2>4
    <3> QED
      BY <1>1, <2>5, <3>4, <3>5, <3>6 DEF Awaits
  <2> QED
    BY <2>3, <2>8, <2>9 DEF Answered
<1> QED
  BY <1>3, <1>4

\* Repair answers what waits.
LEMMA RepairAnswers ==
  ASSUME NEW ms, Typed(ms), NEW C, Answered(ms, C), NEW how
  PROVE  Answered(ms \o Repairs(ms, how), {})
<1>1. PICK t, U : t = Repairs(ms, how) /\ U = Unanswered(ms)
  OBVIOUS
<1>2. IsSeq(ms) /\ IsSeq(t)
  BY <1>1, RepairsAre DEF Typed
<1>3. Answered(ms, U) /\ Awaits(ms, U)
  BY <1>1, <1>2, UnansweredAwait
<1>4. \A i \in 1 .. Len(t) : \E c \in U : t[i] = Result(c, how)
  BY <1>1, RepairsAre
<1>5. \A i \in 1 .. Len(t) : t[i].role = "tool" /\ t[i].call \in U \ {}
  BY <1>4, MessagesAre
<1>6. \A c \in U \ {} : \E i \in 1 .. Len(t) : t[i].call = c
  <2>1. SUFFICES ASSUME NEW c \in U PROVE \E i \in 1 .. Len(t) : t[i].call = c
    OBVIOUS
  <2>2. PICK i \in 1 .. Len(t) : t[i] = Result(c, how)
    BY <1>1, RepairsAre
  <2> QED
    BY <2>2, MessagesAre
<1>7. \A i, j \in 1 .. Len(t) : t[i].call = t[j].call => i = j
  BY <1>1, RepairsAre
<1>8. {} \in SUBSET U
  OBVIOUS
<1>9. Answered(ms \o t, {})
  BY <1>2, <1>3, <1>5, <1>6, <1>7, <1>8, ResultsAnswer
<1> QED
  BY <1>1, <1>9

\* Only roles, calls and the calls of results matter.
LEMMA SameShape ==
  ASSUME NEW ms, NEW new, Len(new) = Len(ms), NEW C, Answered(ms, C),
         \A i \in 1 .. Len(ms) : /\ new[i].role = ms[i].role
                                 /\ ms[i].role = "tool" => new[i].call = ms[i].call
                                 /\ ms[i].role = "assistant" => new[i].calls = ms[i].calls,
         Len(ms) \in Nat
  PROVE  Answered(new, C)
<1>1. PICK n \in Nat : n = Len(ms)
  OBVIOUS
<1>2. \A a, i \in 1 .. n : Follows(new, a, i) <=> Follows(ms, a, i)
  <2>1. SUFFICES ASSUME NEW a \in 1 .. n, NEW i \in 1 .. n PROVE Follows(new, a, i) <=> Follows(ms, a, i)
    OBVIOUS
  <2>2. \A j \in a + 1 .. i : new[j].role = ms[j].role
    BY <1>1
  <2> QED
    BY <1>1, <2>2 DEF Follows
<1>3. \A a \in 1 .. n : Open(ms, a) => Open(new, a)
  <2>1. SUFFICES ASSUME NEW a \in 1 .. n, Open(ms, a) PROVE Open(new, a)
    OBVIOUS
  <2>2. \A j \in a + 1 .. n : new[j].role = ms[j].role
    BY <1>1
  <2> QED
    BY <1>1, <2>1, <2>2 DEF Open
<1>4. \A a, i : Follows(ms, a, i) => ms[a].role = "assistant"
  BY DEF Follows
<1>5. \A a, i \in 1 .. n : Follows(ms, a, i) => ms[i].role = "tool"
  <2>1. SUFFICES ASSUME NEW a \in 1 .. n, NEW i \in 1 .. n, Follows(ms, a, i) PROVE ms[i].role = "tool"
    OBVIOUS
  <2>2. i \in a + 1 .. i
    BY <2>1 DEF Follows
  <2> QED
    BY <2>1, <2>2 DEF Follows
<1>6. \A a, i \in 1 .. n : Follows(ms, a, i) => new[i].call = ms[i].call /\ new[a].calls = ms[a].calls
  BY <1>1, <1>4, <1>5
<1>7. Owned(new)
  <2>1. SUFFICES ASSUME NEW i \in 1 .. n, new[i].role = "tool"
                 PROVE  \E a \in 1 .. n : Follows(new, a, i) /\ new[i].call \in new[a].calls
    BY <1>1 DEF Owned
  <2>2. PICK a \in 1 .. n : Follows(ms, a, i) /\ ms[i].call \in ms[a].calls
    BY <1>1, <2>1 DEF Answered, Owned
  <2> QED
    BY <1>2, <1>6, <2>2
<1>8. Once(new)
  <2>1. SUFFICES ASSUME NEW a \in 1 .. n, NEW i \in 1 .. n, NEW j \in 1 .. n,
                        Follows(new, a, i), Follows(new, a, j), new[i].call = new[j].call
                 PROVE  i = j
    BY <1>1 DEF Once
  <2>2. Follows(ms, a, i) /\ Follows(ms, a, j)
    BY <1>2, <2>1
  <2>3. ms[i].call = ms[j].call
    BY <1>6, <2>1, <2>2
  <2> QED
    BY <1>1, <2>2, <2>3 DEF Answered, Once
<1>9. Given(new, C)
  <2>1. SUFFICES ASSUME NEW a \in 1 .. n, new[a].role = "assistant", NEW c \in new[a].calls
                 PROVE  \/ \E i \in 1 .. n : Follows(new, a, i) /\ new[i].call = c
                        \/ c \in C /\ Open(new, a)
    BY <1>1 DEF Given
  <2>2. ms[a].role = "assistant" /\ c \in ms[a].calls
    BY <1>1, <2>1
  <2>3. CASE \E i \in 1 .. n : Follows(ms, a, i) /\ ms[i].call = c
    BY <1>2, <1>6, <2>3
  <2>4. CASE c \in C /\ Open(ms, a)
    BY <1>3, <2>4
  <2> QED
    BY <1>1, <2>2, <2>3, <2>4 DEF Answered, Given
<1> QED
  BY <1>7, <1>8, <1>9 DEF Answered

\* The recent window begins with an answer or a prompt: what it keeps of
\* answered calls keeps their results.
LEMMA RecentIsAnswered ==
  ASSUME NEW ms, IsSeq(ms), Answered(ms, {}), NEW w \in Windows(ms)
  PROVE  Answered(Pick(ms, Recent(ms, w)), {})
<1>1. PICK n \in Nat : n = Len(ms) /\ DOMAIN ms = 1 .. n
  BY PartsOfSeqs
<1>2. PICK I : I = Recent(ms, w) /\ I \in SUBSET DOMAIN ms
  BY DEF Recent
<1>3. PICK p : p = Pick(ms, I)
  OBVIOUS
<1>4. IsSeq(p) /\ \E f : Picks(f, ms, I, p)
  BY <1>2, <1>3, PickIs
<1>5. PICK f : Picks(f, ms, I, p)
  BY <1>4
<1>6. PICK m \in Nat : m = Len(p)
  BY <1>4, PartsOfSeqs
<1>7. /\ \A k \in 1 .. m : f[k] \in I /\ p[k] = ms[f[k]]
      /\ \A k, l \in 1 .. m : k < l => f[k] < f[l]
      /\ \A i \in I : \E k \in 1 .. m : f[k] = i
  BY <1>5, <1>6 DEF Picks
<1>8. w.start \in Nat /\ (w.start = 1 \/ w.start \in Where(ms, "assistant") \/ w.start \in Where(ms, "user"))
  BY WindowsAre
<1>9. \A i : i \in I <=> i \in 1 .. n /\ i >= w.start /\ ms[i].role # "system"
  BY <1>1, <1>2 DEF Recent
<1>10. \A k \in 1 .. m : f[k] \in 1 .. n /\ f[k] \in Nat
  BY <1>1, <1>2, <1>7
<1>11. \A k, l \in 1 .. m : f[k] < f[l] => k < l
  <2>1. SUFFICES ASSUME NEW k \in 1 .. m, NEW l \in 1 .. m, f[k] < f[l], ~(k < l) PROVE FALSE
    OBVIOUS
  <2>2. k = l \/ l < k
    BY <2>1
  <2>3. f[k] \in Nat /\ f[l] \in Nat
    BY <1>10
  <2>4. ASSUME l < k PROVE FALSE
    <3>1. f[l] < f[k]
      BY <1>7, <2>4
    <3> QED
      BY <2>1, <2>3, <3>1
  <2>5. k # l
    BY <2>1, <2>3
  <2> QED
    BY <2>2, <2>4, <2>5
<1>12. \A k, l \in 1 .. m : f[k] = f[l] => k = l
  <2>1. SUFFICES ASSUME NEW k \in 1 .. m, NEW l \in 1 .. m, f[k] = f[l], k < l \/ l < k PROVE FALSE
    OBVIOUS
  <2>2. f[k] < f[l] \/ f[l] < f[k]
    BY <1>7, <2>1
  <2>3. f[k] \in Nat
    BY <1>10
  <2> QED
    BY <2>1, <2>2, <2>3
\* A result of the window belongs to an answer of the window.
<1>13. ASSUME NEW b \in 1 .. n, NEW i \in I, Follows(ms, b, i)
       PROVE  b \in I
  <2>1. ms[b].role = "assistant" /\ b < i /\ \A j \in b + 1 .. i : ms[j].role = "tool"
    BY <1>13 DEF Follows
  <2>2. i \in 1 .. n /\ w.start <= i
    BY <1>8, <1>9
  <2>3. w.start <= b
    <3>1. CASE w.start = 1
      BY <3>1
    <3>2. CASE w.start # 1
      <4>1. ms[w.start].role # "tool"
        BY <1>8, <3>2 DEF Where
      <4>2. w.start \notin b + 1 .. i
        BY <2>1, <4>1
      <4> QED
        BY <1>8, <2>2, <4>2
    <3> QED
      BY <3>1, <3>2
  <2>4. b >= w.start
    BY <1>8, <2>3
  <2> QED
    BY <1>9, <2>1, <2>4
\* Results stand behind their answers in the window as they did before.
<1>14. ASSUME NEW a \in 1 .. m, NEW i \in 1 .. m, Follows(ms, f[a], f[i])
       PROVE  Follows(p, a, i)
  <2>1. f[a] < f[i] /\ ms[f[a]].role = "assistant" /\ \A j \in f[a] + 1 .. f[i] : ms[j].role = "tool"
    BY <1>14 DEF Follows
  <2>2. a < i /\ p[a].role = "assistant"
    BY <1>7, <1>11, <2>1
  <2>3. ASSUME NEW k \in a + 1 .. i PROVE p[k].role = "tool"
    <3>1. k \in 1 .. m /\ a < k /\ (k < i \/ k = i)
      OBVIOUS
    <3>2. f[a] < f[k] /\ (f[k] < f[i] \/ f[k] = f[i])
      BY <1>7, <3>1
    <3>3. f[a] \in Nat /\ f[k] \in Nat /\ f[i] \in Nat
      BY <1>10, <3>1
    <3>4. f[k] \in f[a] + 1 .. f[i]
      BY <3>2, <3>3
    <3> QED
      BY <1>7, <2>1, <3>1, <3>4
  <2> QED
    BY <2>2, <2>3 DEF Follows
<1>15. ASSUME NEW i \in 1 .. m, p[i].role = "tool"
       PROVE  \E a \in 1 .. m : /\ Follows(p, a, i) /\ Follows(ms, f[a], f[i])
                                /\ p[i].call \in p[a].calls
  <2>1. f[i] \in 1 .. n /\ f[i] \in I /\ p[i] = ms[f[i]]
    BY <1>7, <1>10
  <2>2. PICK b \in 1 .. n : Follows(ms, b, f[i]) /\ ms[f[i]].call \in ms[b].calls
    BY <1>1, <1>15, <2>1 DEF Answered, Owned
  <2>3. b \in I
    BY <1>13, <2>1, <2>2
  <2>4. PICK a \in 1 .. m : f[a] = b
    BY <1>7, <2>3
  <2>5. Follows(p, a, i)
    BY <1>14, <2>2, <2>4
  <2>6. p[a] = ms[b]
    BY <1>7, <2>4
  <2> QED
    BY <2>1, <2>2, <2>4, <2>5, <2>6
<1>16. ASSUME NEW a \in 1 .. m, NEW i \in 1 .. m, Follows(p, a, i)
       PROVE  Follows(ms, f[a], f[i])
  <2>1. a < i /\ p[a].role = "assistant" /\ \A j \in a + 1 .. i : p[j].role = "tool"
    BY <1>16 DEF Follows
  <2>2. p[i].role = "tool"
    BY <2>1
  <2>3. PICK b \in 1 .. m : Follows(p, b, i) /\ Follows(ms, f[b], f[i])
    BY <1>15, <2>2
  <2>4. b < i /\ p[b].role = "assistant" /\ \A j \in b + 1 .. i : p[j].role = "tool"
    BY <2>3 DEF Follows
  <2>5. ~ (a < b) /\ ~ (b < a)
    BY <2>1, <2>4
  <2>6. a = b
    BY <2>5
  <2> QED
    BY <2>3, <2>6
<1>17. Owned(p)
  BY <1>6, <1>15 DEF Owned
<1>18. Once(p)
  <2>1. SUFFICES ASSUME NEW a \in 1 .. m, NEW i \in 1 .. m, NEW j \in 1 .. m,
                        Follows(p, a, i), Follows(p, a, j), p[i].call = p[j].call
                 PROVE  i = j
    BY <1>6 DEF Once
  <2>2. Follows(ms, f[a], f[i]) /\ Follows(ms, f[a], f[j]) /\ ms[f[i]].call = ms[f[j]].call
    BY <1>7, <1>16, <2>1
  <2>3. f[i] = f[j]
    BY <1>1, <1>10, <2>2 DEF Answered, Once
  <2> QED
    BY <1>12, <2>3
<1>19. Given(p, {})
  <2>1. SUFFICES ASSUME NEW a \in 1 .. m, p[a].role = "assistant", NEW c \in p[a].calls
                 PROVE  \E i \in 1 .. m : Follows(p, a, i) /\ p[i].call = c
    BY <1>6 DEF Given
  <2>2. f[a] \in 1 .. n /\ f[a] \in I /\ ms[f[a]] = p[a]
    BY <1>7, <1>10
  <2>3. PICK k \in 1 .. n : Follows(ms, f[a], k) /\ ms[k].call = c
    BY <1>1, <2>1, <2>2 DEF Answered, Given
  <2>4. f[a] < k /\ ms[k].role = "tool"
    <3>1. f[a] < k
      BY <2>3 DEF Follows
    <3>2. k \in f[a] + 1 .. k
      BY <2>2, <3>1
    <3> QED
      BY <2>3, <3>1, <3>2 DEF Follows
  <2>5. k \in I
    <3>1. f[a] >= w.start
      BY <1>9, <2>2
    <3>2. k >= w.start
      BY <1>8, <2>2, <2>4, <3>1
    <3> QED
      BY <1>9, <2>4, <3>2
  <2>6. PICK i \in 1 .. m : f[i] = k
    BY <1>7, <2>5
  <2>7. Follows(p, a, i) /\ p[i] = ms[k]
    BY <1>7, <1>14, <2>3, <2>6
  <2> QED
    BY <2>3, <2>7
<1> QED
  BY <1>2, <1>3, <1>17, <1>18, <1>19 DEF Answered

\* Compaction keeps every call with its results.
LEMMA CompactedIsAnswered ==
  ASSUME NEW ms, Typed(ms), Answered(ms, {}), NEW n, NEW new \in Compactions(ms, n)
  PROVE  Answered(new, {})
<1>1. IsSeq(ms) /\ DOMAIN ms = 1 .. Len(ms) /\ Len(ms) \in Nat
  BY PartsOfSeqs DEF Typed
<1>2. PICK w \in Windows(ms) : new \in {Cut(ms, w, n), Cleared(ms, w)}
  BY DEF Compactions
<1>3. CASE new = Cut(ms, w, n)
  <2>1. PICK P, m, R : /\ P = Pick(ms, w.prefix) /\ m = Summary(n) /\ R = Pick(ms, Recent(ms, w))
                       /\ m.role = "system"
    BY MessagesAre
  <2>2. new = ms \/ new = (P \o <<m>>) \o R
    BY <1>3, <2>1, CutIs
  <2>3. w.prefix \in SUBSET DOMAIN ms /\ \A i \in w.prefix : ms[i].role = "user"
    BY <1>1, WindowsAre DEF Where
  <2>4. IsSeq(P) /\ \E f : Picks(f, ms, w.prefix, P)
    BY <1>1, <2>1, <2>3, PickIs
  <2>5. \A k \in 1 .. Len(P) : P[k].role = "user"
    BY <2>3, <2>4 DEF Picks
  <2>6. Answered(P, {})
    BY <2>4, <2>5, PlainIsAnswered
  <2>7. IsSeq(<<m>>) /\ Answered(<<m>>, {})
    <3>1. <<m>>[1] = m /\ Len(<<m>>) = 1 /\ IsSeq(<<m>>)
      BY OneMessage
    <3>2. \A i \in 1 .. 1 : i = 1
      OBVIOUS
    <3>3. \A i \in 1 .. Len(<<m>>) : <<m>>[i].role \notin {"assistant", "tool"}
      BY <2>1, <3>1, <3>2
    <3> QED
      BY <3>1, <3>3, PlainIsAnswered
  <2>8. IsSeq(R) /\ Answered(R, {})
    <3>1. Recent(ms, w) \in SUBSET DOMAIN ms
      BY DEF Recent
    <3> QED
      BY <1>1, <2>1, <3>1, PickIs, RecentIsAnswered
  <2>9. IsSeq(P \o <<m>>) /\ Answered(P \o <<m>>, {})
    BY <2>4, <2>6, <2>7, JoinedSeqs, AnsweredTogether
  <2>10. Answered((P \o <<m>>) \o R, {})
    BY <2>8, <2>9, AnsweredTogether
  <2> QED
    BY <2>2, <2>10
<1>4. CASE new = Cleared(ms, w)
  <2>1. CASE new = ms
    BY <2>1
  <2>2. CASE new # ms
    <3>1. PICK i \in 1 .. Len(ms) : \E c, how, again :
              ms[i] = Result(c, how) /\ new = [ms EXCEPT ![i] = Result(c, again)]
      BY <1>4, <2>2, ClearedIs
    <3>2. PICK c, how, again : ms[i] = Result(c, how) /\ new = [ms EXCEPT ![i] = Result(c, again)]
      BY <3>1
    <3>3. PICK r : r = Result(c, again) /\ r.role = "tool" /\ r.call = c
      BY MessagesAre
    <3>4. ms[i].role = "tool" /\ ms[i].call = c
      BY <3>2, MessagesAre
    <3>5. new = [ms EXCEPT ![i] = r]
      BY <3>2, <3>3
    <3>6. PICK N : N = Len(ms) /\ N \in Nat /\ DOMAIN ms = 1 .. N
      BY <1>1
    <3>7. /\ new = [j \in 1 .. N |-> new[j]] /\ DOMAIN new = 1 .. N
          /\ \A j \in 1 .. N : new[j] = IF j = i THEN r ELSE ms[j]
      BY <3>5, <3>6
    <3>8. IsSeq(new)
      BY <3>6, <3>7, FunctionsAreSeqs
    <3>9. Len(new) = N
      <4>1. PICK l \in Nat : l = Len(new) /\ DOMAIN new = 1 .. l
        BY <3>8, PartsOfSeqs
      <4>2. 1 .. l = 1 .. N
        BY <3>7, <4>1
      <4> QED
        BY <3>6, <4>1, <4>2
    <3>10. \A j \in 1 .. N : /\ new[j].role = ms[j].role
                             /\ ms[j].role = "tool" => new[j].call = ms[j].call
                             /\ ms[j].role = "assistant" => new[j].calls = ms[j].calls
      BY <3>3, <3>4, <3>7
    <3> QED
      BY <3>6, <3>9, <3>10, SameShape
  <2> QED
    BY <2>1, <2>2
<1> QED
  BY <1>2, <1>3, <1>4

(* What a provider is shown.                                                *)

\* The calls in hand are different ones.
Apart ==
  /\ \A i \in DOMAIN batch : \E c, s : batch[i] = [call |-> c, state |-> s]
  /\ \A i, j \in DOMAIN batch : batch[i].call = batch[j].call => i = j
  /\ \A i, j \in DOMAIN todo : todo[i].call = todo[j].call => i = j
  /\ \A i \in DOMAIN batch, j \in DOMAIN todo : batch[i].call # todo[j].call

\* Outside a batch every call has its result; in it the calls that wait are
\* those in hand, and what was left by a stop, a failure or a death waits for
\* repair at the end.
AnswersKept ==
  /\ pc \in Steps
  /\ patched \in {0, opens} =>
       /\ pc # "down" => Answered(chat, {})
       /\ pc \in WholeSteps => Answered(conv, {})
       /\ pc = "tools" => Answered(conv, Left) /\ Awaits(conv, Left)
       /\ pc \in {"cancelled", "failed"} => \E C : Answered(conv, C)
  /\ pc = "tools" => Apart
  /\ patched = 0 /\ pc = "idle" => Answered(digests, {})
  /\ patched = 0 /\ pc = "down" => \E C : Answered(saved, C)

LEMMA KeptInit == Init => AnswersKept
<1>1. \A C : Answered(<<>>, C)
  <2>1. IsSeq(<<>>) /\ Len(<<>>) = 0
    BY EmptySeq DEF IsSeq
  <2> QED
    BY <2>1, PlainIsAnswered
<1> QED
  BY <1>1 DEF Init, AnswersKept, Steps, WholeSteps

LEMMA KeptAside ==
  ASSUME AnswersKept, UNCHANGED <<conv, chat, digests, patched, opens, todo, batch>>,
         pc = "down" => saved' = saved,
         \/ pc' = pc
         \/ pc \in WholeSteps /\ pc' \in WholeSteps \cup {"cancelled", "failed"}
  PROVE  AnswersKept'
<1>1. CASE pc' = pc
  <2>1. Left' = Left /\ (Apart => Apart')
    BY DEF Left, Apart
  <2>2. CASE pc = "tools"
    BY <1>1, <2>1, <2>2 DEF AnswersKept, Steps, WholeSteps
  <2>3. CASE pc # "tools"
    BY <1>1, <2>3 DEF AnswersKept
  <2> QED
    BY <2>2, <2>3
<1>2. CASE pc \in WholeSteps /\ pc' \in WholeSteps \cup {"cancelled", "failed"}
  BY <1>2 DEF AnswersKept, WholeSteps, Steps
<1> QED
  BY <1>1, <1>2

LEMMA QuietKeeps ==
  ASSUME AnswersKept,
         \/ UNCHANGED vars \/ Stop \/ Redirect \/ Write \/ Fits \/ Refuses \/ RequestFails
         \/ RequestStopped \/ AfterTools \/ Settle \/ WaitedTooLong \/ NoHook
  PROVE  AnswersKept'
<1>1. CASE UNCHANGED vars \/ Stop \/ Redirect \/ Write
  BY <1>1, KeptAside DEF vars, run, log, counts, Stop, Redirect, Write
<1>2. CASE Fits \/ Refuses \/ RequestFails \/ RequestStopped
  <2>1. /\ UNCHANGED <<conv, chat, digests, patched, opens, todo, batch>>
        /\ pc \in {"ask", "request"}
    BY <1>2 DEF Fits, Refuses, RequestFails, RequestStopped, At, Unmoved, run, log, counts
  <2>2. pc' \in {"ask", "cancelled", "ending", "failed"}
    BY <1>2 DEF Fits, Refuses, RequestFails, RequestStopped
  <2> QED
    BY <2>1, <2>2, KeptAside DEF WholeSteps
<1>3. CASE AfterTools \/ WaitedTooLong \/ NoHook
  <2>1. /\ UNCHANGED <<conv, chat, digests, patched, opens, todo, batch>>
        /\ pc \in {"after", "final", "hook"}
    BY <1>3 DEF AfterTools, WaitedTooLong, NoHook, Still, At, Unmoved, log, counts
  <2>2. pc' \in {"cancelled", "turn", "budget", "ending"}
    BY <1>3 DEF AfterTools, WaitedTooLong, NoHook
  <2> QED
    BY <2>1, <2>2, KeptAside DEF WholeSteps
<1>4. CASE Settle
  <2>1. UNCHANGED <<conv, chat, digests, patched, opens, todo, batch>> /\ pc = "final"
    BY <1>4 DEF Settle, At, run, log, counts
  <2>2. pc' \in {"turn", "hook"}
    BY <1>4 DEF Settle
  <2> QED
    BY <2>1, <2>2, KeptAside DEF WholeSteps
<1> QED
  BY <1>1, <1>2, <1>3, <1>4

\* One call of a batch gets another state.
LEMMA EntryIs ==
  ASSUME NEW b, IsSeq(b), NEW i \in DOMAIN b, NEW c, NEW s, b[i] = [call |-> c, state |-> s],
         NEW how, NEW new, new = [b EXCEPT ![i].state = how]
  PROVE  /\ DOMAIN new = DOMAIN b /\ new[i] = [call |-> c, state |-> how]
         /\ \A j \in DOMAIN b : j # i => new[j] = b[j]
<1>1. PICK e : e = [call |-> c, state |-> how]
  OBVIOUS
<1>2. [b[i] EXCEPT !.state = how] = e
  BY <1>1
<1>3. new = [b EXCEPT ![i] = e]
  BY <1>2
<1> QED
  BY <1>1, <1>3

LEMMA CallsStayApart ==
  ASSUME Apart, IsSeq(batch), NEW i \in DOMAIN batch, NEW how,
         batch' = [batch EXCEPT ![i].state = how], todo' = todo
  PROVE  /\ Apart' /\ DOMAIN batch' = DOMAIN batch /\ batch'[i].state = how
         /\ \A j \in DOMAIN batch : batch'[j].call = batch[j].call /\ (j # i => batch'[j] = batch[j])
<1>1. PICK c, s : batch[i] = [call |-> c, state |-> s]
  BY DEF Apart
<1>2. PICK new : new = batch'
  OBVIOUS
<1>3. /\ DOMAIN new = DOMAIN batch /\ new[i] = [call |-> c, state |-> how]
      /\ \A j \in DOMAIN batch : j # i => new[j] = batch[j]
  BY <1>1, <1>2, EntryIs
<1>4. /\ new[i].state = how
      /\ \A j \in DOMAIN batch : new[j].call = batch[j].call /\ (j # i => new[j] = batch[j])
  BY <1>1, <1>3
<1>5. \A j \in DOMAIN new : \E x, y : new[j] = [call |-> x, state |-> y]
  BY <1>3 DEF Apart
<1>6. \A j, k \in DOMAIN new : new[j].call = new[k].call => j = k
  BY <1>3, <1>4 DEF Apart
<1>7. \A j \in DOMAIN new, k \in DOMAIN todo : new[j].call # todo[k].call
  BY <1>3, <1>4 DEF Apart
<1>8. Apart'
  <2>1. \A j, k \in DOMAIN todo : todo[j].call = todo[k].call => j = k
    BY DEF Apart
  <2>2. \A j \in DOMAIN batch' : \E x, y : batch'[j] = [call |-> x, state |-> y]
    BY <1>2, <1>5
  <2>3. \A j, k \in DOMAIN batch' : batch'[j].call = batch'[k].call => j = k
    BY <1>2, <1>6
  <2>4. \A j \in DOMAIN batch', k \in DOMAIN todo' : batch'[j].call # todo'[k].call
    BY <1>2, <1>7
  <2> QED
    BY <2>1, <2>2, <2>3, <2>4 DEF Apart
<1> QED
  BY <1>2, <1>3, <1>4, <1>8

LEMMA CallsKeep ==
  ASSUME AnswersKept, TurnsAreSettled,
         StartBatch \/ \E i \in 1 .. MaxCalls, how \in {"result", "stopped"} : CallEnds(i, how)
  PROVE  AnswersKept'
<1>1. IsSeq(todo) /\ IsSeq(batch)
  BY DEF TurnsAreSettled
<1>2. /\ UNCHANGED <<pc, conv, chat, patched, opens>> /\ pc = "tools"
  <2>1. CASE StartBatch
    BY <2>1 DEF StartBatch, Still, At, Unmoved, counts
  <2>2. CASE \E i \in 1 .. MaxCalls, how \in {"result", "stopped"} : CallEnds(i, how)
    BY <2>2 DEF CallEnds, Still, At, Unmoved, counts
  <2> QED
    BY <2>1, <2>2
<1>3. Apart
  BY <1>2 DEF AnswersKept
<1>4. Left' = Left /\ Apart'
  <2>1. CASE StartBatch
    <3>1. PICK k \in 1 .. Len(todo) :
           /\ batch = <<>> /\ DOMAIN batch' = 1 .. k /\ IsSeq(batch') /\ IsSeq(todo')
           /\ \A i \in 1 .. k : batch'[i].call = todo[i].call /\ batch'[i].state \in {"result", "running"}
           /\ DOMAIN todo' = 1 .. Len(todo) - k
           /\ \A i \in 1 .. Len(todo) - k : todo'[i] = todo[k + i]
      BY <1>1, <2>1, BatchIs
    <3>2. PICK n \in Nat : n = Len(todo) /\ DOMAIN todo = 1 .. n
      BY <1>1, PartsOfSeqs
    <3>3. \A i \in 1 .. k : i \in 1 .. n
      BY <3>2
    <3>4. \A i \in 1 .. n - k : k + i \in 1 .. n /\ \A j \in 1 .. k : j # k + i
      BY <3>2
    <3>5. \A i, j \in DOMAIN batch' : batch'[i].call = batch'[j].call => i = j
      BY <1>3, <3>1, <3>2, <3>3 DEF Apart
    <3>6. \A i, j \in DOMAIN todo' : todo'[i].call = todo'[j].call => i = j
      <4>1. SUFFICES ASSUME NEW i \in 1 .. n - k, NEW j \in 1 .. n - k, todo'[i].call = todo'[j].call
                     PROVE  i = j
        BY <3>1, <3>2
      <4>2. k + i = k + j
        BY <1>3, <3>1, <3>2, <3>4, <4>1 DEF Apart
      <4> QED
        BY <4>2
    <3>7. \A i \in DOMAIN batch', j \in DOMAIN todo' : batch'[i].call # todo'[j].call
      <4>1. SUFFICES ASSUME NEW i \in 1 .. k, NEW j \in 1 .. n - k, batch'[i].call = todo'[j].call
                     PROVE  FALSE
        BY <3>1, <3>2
      <4>2. todo[i].call = todo[k + j].call
        BY <3>1, <3>2, <4>1
      <4>3. i = k + j
        BY <1>3, <3>2, <3>3, <3>4, <4>2 DEF Apart
      <4> QED
        BY <3>4, <4>3
    <3>8. \A i \in DOMAIN batch' : \E c, s : batch'[i] = [call |-> c, state |-> s]
      <4>1. PICK l : batch' = [i \in 1 .. l |-> [call |-> todo[i].call,
                       state |-> IF todo[i].kind = "cut" THEN "result" ELSE "running"]]
        BY <2>1 DEF StartBatch
      <4> QED
        BY <4>1
    <3>9. Apart'
      BY <3>5, <3>6, <3>7, <3>8 DEF Apart
    <3> QED
      BY <1>1, <2>1, <3>9, BatchKeepsLeft
  <2>2. CASE \E i \in 1 .. MaxCalls, how \in {"result", "stopped"} : CallEnds(i, how)
    <3>1. PICK i \in 1 .. MaxCalls, how \in {"result", "stopped"} : CallEnds(i, how)
      BY <2>2
    <3>2. i \in DOMAIN batch /\ batch' = [batch EXCEPT ![i].state = how] /\ todo' = todo
      BY <3>1 DEF CallEnds
    <3>3. Apart'
      BY <1>1, <1>3, <3>2, CallsStayApart
    <3>4. Left' = Left
      BY <1>1, <3>1, CallKeepsLeft
    <3> QED
      BY <3>3, <3>4
  <2> QED
    BY <2>1, <2>2
<1>5. patched \in {0, opens} => Answered(chat, {}) /\ Answered(conv, Left) /\ Awaits(conv, Left)
  BY <1>2 DEF AnswersKept
<1> QED
  BY <1>2, <1>4, <1>5 DEF AnswersKept, Steps, WholeSteps

LEMMA AppendingKeeps ==
  ASSUME AnswersKept, TurnsAreSettled, Messages, AppendResult
  PROVE  AnswersKept'
<1>1. IsSeq(todo) /\ IsSeq(batch) /\ IsSeq(conv)
  BY DEF TurnsAreSettled, Messages, Typed
<1>2. pc = "tools" /\ UNCHANGED <<pc, chat, patched, opens, todo>>
  BY DEF AppendResult, Still, At, Unmoved, counts
<1>3. Apart
  BY <1>2 DEF AnswersKept
<1>4. PICK done : done = {j \in DOMAIN batch : batch[j].state = "result"}
  OBVIOUS
<1>5. PICK i : i = CHOOSE x \in done : \A j \in done : x <= j
  OBVIOUS
<1>6. /\ done # {} /\ Say(<<Result(batch[i].call, "result")>>)
      /\ batch' = [batch EXCEPT ![i].state = "appended"]
  BY <1>4, <1>5 DEF AppendResult
<1>7. i \in DOMAIN batch /\ batch[i].state = "result"
  <2>1. done \in SUBSET Nat
    <3>1. PICK n \in Nat : n = Len(batch) /\ DOMAIN batch = 1 .. n
      BY <1>1, PartsOfSeqs
    <3> QED
      BY <1>4, <3>1
  <2>2. \E x \in done : \A y \in done : x <= y
    BY <1>6, <2>1, LeastNatural
  <2> QED
    BY <1>4, <1>5, <2>2
<1>8. /\ Apart' /\ DOMAIN batch' = DOMAIN batch /\ batch'[i].state = "appended"
      /\ \A j \in DOMAIN batch : batch'[j].call = batch[j].call /\ (j # i => batch'[j] = batch[j])
  BY <1>1, <1>2, <1>3, <1>6, <1>7, CallsStayApart
<1>9. PICK c : c = batch[i].call
  OBVIOUS
<1>10. c \in Left
  BY <1>7, <1>9 DEF Left
<1>11. Left' = Left \ {c}
  <2>1. ASSUME NEW d \in Left' PROVE d \in Left \ {c}
    <3>1. CASE \E j \in DOMAIN batch' : batch'[j].state # "appended" /\ d = batch'[j].call
      <4>1. PICK j \in DOMAIN batch' : batch'[j].state # "appended" /\ d = batch'[j].call
        BY <3>1
      <4>2. j \in DOMAIN batch /\ j # i /\ batch[j].state # "appended" /\ d = batch[j].call
        BY <1>8, <4>1
      <4>3. d # c
        BY <1>3, <1>7, <1>9, <4>2 DEF Apart
      <4> QED
        BY <4>2, <4>3 DEF Left
    <3>2. CASE \E j \in DOMAIN todo : d = todo[j].call
      <4>1. d # c
        BY <1>3, <1>7, <1>9, <3>2 DEF Apart
      <4> QED
        BY <3>2, <4>1 DEF Left
    <3>3. Left' = {batch'[j].call : j \in {j \in DOMAIN batch' : batch'[j].state # "appended"}}
                  \cup {todo[j].call : j \in DOMAIN todo}
      BY <1>2 DEF Left
    <3> QED
      BY <2>1, <3>1, <3>2, <3>3
  <2>2. ASSUME NEW d \in Left, d # c PROVE d \in Left'
    <3>1. Left' = {batch'[j].call : j \in {j \in DOMAIN batch' : batch'[j].state # "appended"}}
                  \cup {todo[j].call : j \in DOMAIN todo}
      BY <1>2 DEF Left
    <3>2. CASE \E j \in DOMAIN batch : batch[j].state # "appended" /\ d = batch[j].call
      <4>1. PICK j \in DOMAIN batch : batch[j].state # "appended" /\ d = batch[j].call
        BY <3>2
      <4>2. j \in DOMAIN batch' /\ batch'[j].state # "appended" /\ d = batch'[j].call
        BY <1>8, <1>9, <2>2, <4>1
      <4> QED
        BY <3>1, <4>2
    <3>3. CASE \E j \in DOMAIN todo : d = todo[j].call
      BY <3>1, <3>3
    <3> QED
      BY <2>2, <3>2, <3>3 DEF Left
  <2> QED
    BY <2>1, <2>2
<1>12. PICK m : m = Result(c, "result") /\ m.role = "tool" /\ m.call = c
  BY MessagesAre
<1>13. PICK t : t = <<m>> /\ IsSeq(t) /\ Len(t) = 1 /\ t[1] = m
  BY OneMessage
<1>14. conv' = conv \o t
  BY <1>6, <1>9, <1>12, <1>13 DEF Say
<1>15. ASSUME patched \in {0, opens}
       PROVE  Answered(conv', Left') /\ Awaits(conv', Left') /\ Answered(chat, {})
  <2>1. Answered(conv, Left) /\ Awaits(conv, Left) /\ Answered(chat, {})
    BY <1>2, <1>15 DEF AnswersKept
  <2>2. PICK C, D : C = Left /\ D = Left' /\ D = C \ {c} /\ c \in C
    BY <1>10, <1>11
  <2>3. D \in SUBSET C /\ \A d \in C \ D : d = c
    BY <2>2
  <2>4. \A j \in 1 .. Len(t) : j = 1
    BY <1>13
  <2>5. \A j \in 1 .. Len(t) : t[j].role = "tool" /\ t[j].call \in C \ D
    BY <1>12, <1>13, <2>2, <2>4
  <2>6. \A j, k \in 1 .. Len(t) : t[j].call = t[k].call => j = k
    BY <2>4
  <2>7. \A d \in C \ D : \E j \in 1 .. Len(t) : t[j].call = d
    BY <1>12, <1>13, <2>3
  <2>8. Answered(conv, C) /\ Awaits(conv, C)
    BY <2>1, <2>2
  <2>9. PICK s : s = conv /\ IsSeq(s) /\ Answered(s, C) /\ Awaits(s, C)
    BY <1>1, <2>8
  <2>10. IsSeq(t) /\ D \in SUBSET C
    BY <1>13, <2>3
  <2>11. Answered(s \o t, D) /\ Awaits(s \o t, D)
    BY <2>5, <2>6, <2>7, <2>9, <2>10, ResultsAnswer
  <2> QED
    BY <1>14, <2>1, <2>2, <2>9, <2>11
<1> QED
  BY <1>2, <1>8, <1>15 DEF AnswersKept, Steps, WholeSteps

LEMMA EndingKeeps ==
  ASSUME AnswersKept, EndBatch
  PROVE  AnswersKept'
<1>1. /\ pc = "tools" /\ batch' = <<>>
      /\ \A i \in DOMAIN batch : batch[i].state \in {"appended", "stopped"}
      /\ UNCHANGED <<conv, chat, todo, patched, opens>>
  BY DEF EndBatch, Still, At, Unmoved, counts
<1>2. Apart
  BY <1>1 DEF AnswersKept
<1>3. patched \in {0, opens} => Answered(chat, {}) /\ Answered(conv, Left) /\ Awaits(conv, Left)
  BY <1>1 DEF AnswersKept
<1>4. CASE \E i \in DOMAIN batch : batch[i].state = "stopped"
  <2>1. pc' = "cancelled"
    BY <1>4 DEF EndBatch
  <2> QED
    BY <1>1, <1>3, <2>1 DEF AnswersKept, Steps, WholeSteps
<1>5. CASE ~ \E i \in DOMAIN batch : batch[i].state = "stopped"
  <2>1. Left = {todo[i].call : i \in DOMAIN todo}
    <3>1. {i \in DOMAIN batch : batch[i].state # "appended"} = {}
      BY <1>1, <1>5
    <3> QED
      BY <3>1 DEF Left
  <2>2. pc' = IF todo = <<>> THEN "after" ELSE "tools"
    BY <1>5 DEF EndBatch
  <2>3. CASE todo = <<>>
    <3>1. Left = {}
      BY <2>1, <2>3
    <3>2. pc' = "after"
      BY <2>2, <2>3
    <3> QED
      BY <1>1, <1>3, <3>1, <3>2 DEF AnswersKept, Steps, WholeSteps
  <2>4. CASE todo # <<>>
    <3>1. DOMAIN batch' = {} /\ todo' = todo
      BY <1>1
    <3>2. Left' = Left
      <4>1. Left' = {batch'[i].call : i \in {i \in DOMAIN batch' : batch'[i].state # "appended"}}
                    \cup {todo'[i].call : i \in DOMAIN todo'}
        BY DEF Left
      <4>2. {i \in DOMAIN batch' : batch'[i].state # "appended"} = {}
        BY <3>1
      <4> QED
        BY <2>1, <3>1, <4>1, <4>2
    <3>3. Apart'
      BY <1>2, <3>1 DEF Apart
    <3>4. pc' = "tools"
      BY <2>2, <2>4
    <3> QED
      BY <1>1, <1>3, <3>2, <3>3, <3>4 DEF AnswersKept, Steps, WholeSteps
  <2> QED
    BY <2>3, <2>4
<1> QED
  BY <1>4, <1>5

\* An answer waits for all its calls.
LEMMA NewAnswerAwaits ==
  ASSUME NEW s, IsSeq(s), Answered(s, {}), NEW n, NEW K
  PROVE  /\ Answered(s \o <<Answer(n, K)>>, K) /\ Awaits(s \o <<Answer(n, K)>>, K)
<1>1. PICK m : m = Answer(n, K) /\ m.role = "assistant" /\ m.calls = K
  BY MessagesAre
<1>2. PICK t : t = <<m>> /\ IsSeq(t) /\ Len(t) = 1 /\ t[1] = m
  BY OneMessage
<1>3. Answered(t, K)
  BY <1>1, <1>2, AnswerAwaits
<1>4. PICK u, k : u = s \o t /\ k = Len(s) + 1
  OBVIOUS
<1>5. Answered(u, K)
  BY <1>2, <1>3, <1>4, AnsweredTogether
<1>6. Len(s) \in Nat /\ Len(u) = k /\ u[k] = m
  <2>1. 1 \in 1 .. Len(t)
    BY <1>2
  <2> QED
    BY <1>2, <1>4, <2>1, ConcatIs
<1>7. Open(u, k)
  BY <1>4, <1>6 DEF Open
<1>8. \A i \in 1 .. Len(u) : ~Follows(u, k, i)
  BY <1>4, <1>6 DEF Follows
<1>9. k \in 1 .. Len(u)
  BY <1>4, <1>6
<1>10. Awaits(u, K)
  BY <1>1, <1>6, <1>7, <1>8, <1>9 DEF Awaits
<1> QED
  BY <1>1, <1>2, <1>4, <1>5, <1>10

LEMMA RespondingKeeps ==
  ASSUME AnswersKept, Messages, Responds
  PROVE  AnswersKept'
<1>1. PICK k, kinds : k \in 0 .. MaxCalls /\ Respond(k, kinds)
  BY RespondSays
<1>2. k \in Nat
  BY <1>1, AgentAssumption
<1>3. PICK n, C : n = answers + 1 /\ C = {<<n, i>> : i \in 1 .. k}
  OBVIOUS
<1>4. pc = "ask"
  BY DEF Responds, At
<1>5. conv' = conv \o <<Answer(n, C)>>
  BY <1>1, <1>3 DEF Respond, Say
<1>6. UNCHANGED <<chat, patched, opens>>
  BY <1>1 DEF Respond, Unmoved
<1>7. todo' = [i \in 1 .. k |-> [call |-> <<n, i>>, kind |-> kinds[i]]] /\ batch' = <<>>
  BY <1>1, <1>3 DEF Respond
<1>8. pc' = (IF cancelled THEN "cancelled" ELSE IF k = 0 THEN "final" ELSE "tools")
  BY <1>1 DEF Respond
<1>9. ASSUME patched \in {0, opens}
      PROVE  Answered(chat, {}) /\ Answered(conv', C) /\ Awaits(conv', C)
  <2>1. Answered(conv, {}) /\ Answered(chat, {}) /\ IsSeq(conv)
    BY <1>4, <1>9 DEF AnswersKept, WholeSteps, Messages, Typed
  <2> QED
    BY <1>5, <2>1, NewAnswerAwaits
<1>10. CASE pc' = "cancelled"
  BY <1>6, <1>9, <1>10 DEF AnswersKept, Steps, WholeSteps
<1>11. CASE pc' = "final"
  <2>1. k = 0
    BY <1>8, <1>11
  <2>2. C = {}
    BY <1>3, <2>1
  <2> QED
    BY <1>6, <1>9, <1>11, <2>2 DEF AnswersKept, Steps, WholeSteps
<1>12. CASE pc' = "tools"
  <2>1. DOMAIN todo' = 1 .. k /\ \A i \in 1 .. k : todo'[i].call = <<n, i>>
    BY <1>7
  <2>2. DOMAIN batch' = {}
    BY <1>7
  <2>3. Left' = C
    <3>1. Left' = {batch'[i].call : i \in {i \in DOMAIN batch' : batch'[i].state # "appended"}}
                  \cup {todo'[i].call : i \in DOMAIN todo'}
      BY DEF Left
    <3>2. {i \in DOMAIN batch' : batch'[i].state # "appended"} = {}
      BY <2>2
    <3> QED
      BY <1>3, <2>1, <3>1, <3>2
  <2>4. Apart'
    BY <2>1, <2>2 DEF Apart
  <2> QED
    BY <1>6, <1>9, <1>12, <2>3, <2>4 DEF AnswersKept, Steps, WholeSteps
<1> QED
  BY <1>8, <1>10, <1>11, <1>12

\* A run that ends.
LEMMA ClosingKeeps ==
  ASSUME AnswersKept, Transcribed, Messages, NEW ms, Typed(ms), NEW why, Close(ms, why),
         pc \notin {"idle", "down"},
         patched \in {0, opens} => Answered(conv \o ms, {})
  PROVE  AnswersKept'
<1>1. PICK texts : texts = Texts(queue)
  OBVIOUS
<1>2. IsSeq(queue) /\ digests = conv
  BY DEF Transcribed, Sequenced
<1>3. Typed(texts) /\ \A i \in 1 .. Len(texts) : texts[i].role = "user"
  BY <1>1, <1>2, TypedTexts
<1>4. IsSeq(texts) /\ Answered(texts, {}) /\ IsSeq(conv) /\ IsSeq(ms)
  BY <1>3, PlainIsAnswered DEF Messages, Typed
<1>5. /\ conv' = conv \o (ms \o texts) /\ digests' = conv'
      /\ chat' = chat \/ chat' = conv'
      /\ pc' = "idle" /\ UNCHANGED <<patched, opens>>
  BY <1>1, <1>2 DEF Close, Say, counts, ClosingRedirects
<1>6. conv' = (conv \o ms) \o texts /\ IsSeq(conv \o ms)
  <2>1. (conv \o ms) \o texts = conv \o (ms \o texts)
    BY <1>4, JoinedSeqs
  <2>2. IsSeq(conv \o ms)
    BY <1>4, JoinedSeqs
  <2> QED
    BY <1>5, <2>1, <2>2
<1>7. patched \in {0, opens} => Answered(conv', {})
  BY <1>4, <1>6, AnsweredTogether
<1>8. patched \in {0, opens} => Answered(chat, {})
  BY DEF AnswersKept
<1>9. /\ patched' \in {0, opens'} => Answered(chat', {})
      /\ patched' = 0 => Answered(digests', {})
  BY <1>5, <1>7, <1>8
<1> QED
  BY <1>5, <1>9 DEF AnswersKept, Steps, WholeSteps

LEMMA EndsKeep ==
  ASSUME AnswersKept, Transcribed, Messages, OutOfTurns \/ Budget \/ Cancelled \/ Failed \/ Finish
  PROVE  AnswersKept'
<1>1. Typed(conv) /\ IsSeq(conv) /\ conv \o <<>> = conv
  BY JoinedSeqs DEF Messages, Typed
<1>2. CASE OutOfTurns \/ Budget \/ Finish
  <2>1. PICK why : Close(<<>>, why)
    BY <1>2 DEF OutOfTurns, Budget, Finish
  <2>2. pc \in WholeSteps /\ pc \notin {"idle", "down"}
    BY <1>2 DEF OutOfTurns, Budget, Finish, At, WholeSteps
  <2>3. patched \in {0, opens} => Answered(conv \o <<>>, {})
    BY <1>1, <2>2 DEF AnswersKept
  <2> QED
    BY <2>1, <2>2, <2>3, NothingTyped, ClosingKeeps
<1>3. CASE Cancelled \/ Failed
  <2>1. PICK why : Close(Repairs(conv, why), why)
    BY <1>3 DEF Cancelled, Failed
  <2>2. pc \in {"cancelled", "failed"}
    BY <1>3 DEF Cancelled, Failed, At
  <2>3. PICK ms : ms = Repairs(conv, why)
    OBVIOUS
  <2>4. Typed(ms)
    BY <1>1, <2>3, RepairsAre
  <2>5. patched \in {0, opens} => Answered(conv \o ms, {})
    <3>1. SUFFICES ASSUME patched \in {0, opens} PROVE Answered(conv \o ms, {})
      OBVIOUS
    <3>2. PICK C : Answered(conv, C)
      BY <2>2, <3>1 DEF AnswersKept
    <3> QED
      BY <1>1, <2>3, <3>2, RepairAnswers
  <2> QED
    BY <2>1, <2>2, <2>3, <2>4, <2>5, ClosingKeeps
<1> QED
  BY <1>2, <1>3

LEMMA OnePlain ==
  ASSUME NEW m, m.role \in {"user", "system"}
  PROVE  IsSeq(<<m>>) /\ Answered(<<m>>, {})
<1>1. <<m>>[1] = m /\ Len(<<m>>) = 1 /\ IsSeq(<<m>>)
  BY OneMessage
<1>2. \A i \in 1 .. 1 : i = 1
  OBVIOUS
<1>3. \A i \in 1 .. Len(<<m>>) : <<m>>[i].role \notin {"assistant", "tool"}
  BY <1>1, <1>2
<1> QED
  BY <1>1, <1>3, PlainIsAnswered

LEMMA ChatKeeps ==
  ASSUME AnswersKept, Messages, StartChat \/ CompactChat
  PROVE  AnswersKept'
<1>1. PICK m : m = User(<<"prompt", prompts + 1>>) /\ IsMessage(m) /\ m.role = "user"
  BY MessagesAre
<1>0. Asked = chat \o <<m>>
  <2>1. PICK A : chat \in Seq(A)
    BY DEF Messages, Typed, IsSeq
  <2> QED
    BY <1>1, <2>1 DEF Asked
<1>2. PICK asked : asked = Asked /\ asked = chat \o <<m>>
  BY <1>0
<1>3. Typed(asked)
  BY <1>1, <1>2, OneMessage, TypedTogether DEF Messages
<1>4. Answered(chat, {}) => Answered(asked, {})
  <2>1. IsSeq(chat) /\ IsSeq(<<m>>) /\ Answered(<<m>>, {})
    BY <1>1, OnePlain DEF Messages, Typed
  <2> QED
    BY <1>2, <2>1, AnsweredTogether
<1>5. PICK ms : Chat(ms) /\ (Answered(asked, {}) => Answered(ms, {}))
  <2>1. CASE StartChat
    BY <1>2, <2>1 DEF StartChat
  <2>2. CASE CompactChat
    <3>1. PICK ms \in Compactions(asked, rewrites + 1) : Chat(ms)
      BY <1>2, <2>2 DEF CompactChat
    <3>2. Answered(asked, {}) => Answered(ms, {})
      BY <1>3, <3>1, CompactedIsAnswered
    <3> QED
      BY <3>1, <3>2
  <2> QED
    BY <2>1, <2>2
<1>6. /\ conv' = ms /\ chat' = ms /\ pc = "idle" /\ pc' = "turn"
      /\ patched' = patched /\ opens' = opens
  BY <1>5 DEF Chat, At
<1>7. patched \in {0, opens} => Answered(ms, {})
  BY <1>4, <1>5, <1>6 DEF AnswersKept
<1> QED
  BY <1>6, <1>7 DEF AnswersKept, Steps, WholeSteps

LEMMA RewritesKeep ==
  ASSUME AnswersKept, Messages, CompactForRequest \/ Overflow \/ StopHookRefused
  PROVE  AnswersKept'
<1>1. Typed(conv) /\ IsSeq(conv) /\ Len(conv) \in Nat
  BY PartsOfSeqs DEF Messages, Typed
<1>2. PICK ms : /\ conv' = ms /\ (Answered(conv, {}) => Answered(ms, {}))
                /\ pc \in WholeSteps /\ pc' \in WholeSteps
                /\ UNCHANGED <<chat, patched, opens>>
  <2>1. CASE CompactForRequest \/ Overflow
    <3>1. PICK from, to : Compact(from, to) /\ from \in {"ask", "request"} /\ to \in {"ask", "request"}
      BY <2>1 DEF CompactForRequest, Overflow
    <3>2. PICK ms \in Compactions(conv, rewrites + 1) : conv' = ms
      BY <3>1 DEF Compact
    <3>3. Answered(conv, {}) => Answered(ms, {})
      BY <1>1, <3>2, CompactedIsAnswered
    <3>4. pc \in WholeSteps /\ pc' \in WholeSteps
      BY <3>1 DEF Compact, At, WholeSteps
    <3>5. UNCHANGED <<chat, patched, opens>>
      BY <3>1 DEF Compact, Unmoved
    <3> QED
      BY <3>2, <3>3, <3>4, <3>5
  <2>2. CASE StopHookRefused
    <3>1. pc = "hook" /\ pc' = "ending" /\ UNCHANGED <<chat, patched, opens>>
      BY <2>2 DEF StopHookRefused, Still, At, Unmoved, counts
    <3>2. PICK ms, n : ms = conv' /\ n = Len(conv)
      OBVIOUS
    <3>3. /\ Len(ms) = n /\ n \in 1 .. n /\ \A i \in 1 .. n : i # n => ms[i] = conv[i]
          /\ ms[n].role = "assistant" /\ ms[n].calls = {} /\ conv[n].role = "assistant" /\ conv[n].calls = {}
      BY <2>2, <3>2, NotedIs
    <3>4. \A i \in 1 .. n : /\ ms[i].role = conv[i].role
                            /\ conv[i].role = "tool" => ms[i].call = conv[i].call
                            /\ conv[i].role = "assistant" => ms[i].calls = conv[i].calls
      BY <3>3
    <3>5. Answered(conv, {}) => Answered(ms, {})
      BY <1>1, <3>2, <3>3, <3>4, SameShape
    <3> QED
      BY <3>1, <3>2, <3>5 DEF WholeSteps
  <2> QED
    BY <2>1, <2>2
<1>3. patched \in {0, opens} => Answered(chat, {}) /\ Answered(ms, {})
  BY <1>2 DEF AnswersKept, WholeSteps
<1> QED
  BY <1>2, <1>3 DEF AnswersKept, Steps, WholeSteps

LEMMA TurnKeeps ==
  ASSUME AnswersKept, Messages, IsSeq(queue), Turn
  PROVE  AnswersKept'
<1>1. pc = "turn" /\ UNCHANGED <<chat, patched, opens>>
  BY DEF Turn, At, counts
<1>2. patched \in {0, opens} => Answered(chat, {}) /\ Answered(conv, {})
  BY <1>1 DEF AnswersKept, WholeSteps
<1>3. CASE cancelled
  <2>1. pc' = "cancelled" /\ conv' = conv
    BY <1>3 DEF Turn
  <2> QED
    BY <1>1, <1>2, <2>1 DEF AnswersKept, Steps, WholeSteps
<1>4. CASE ~cancelled
  <2>1. PICK ms : ms = Texts(queue) /\ conv' = conv \o ms
    BY <1>4 DEF Turn
  <2>2. pc' \in {"request", "budget"}
    BY <1>4 DEF Turn
  <2>3. Typed(ms) /\ \A i \in 1 .. Len(ms) : ms[i].role = "user"
    BY <2>1, TypedTexts
  <2>4. IsSeq(ms) /\ Answered(ms, {}) /\ IsSeq(conv)
    BY <2>3, PlainIsAnswered DEF Typed, Messages
  <2>5. patched \in {0, opens} => Answered(conv', {})
    BY <1>2, <2>1, <2>4, AnsweredTogether
  <2> QED
    BY <1>1, <1>2, <2>2, <2>5 DEF AnswersKept, Steps, WholeSteps
<1> QED
  BY <1>3, <1>4

LEMMA HookKeeps ==
  ASSUME AnswersKept, Messages, StopHook
  PROVE  AnswersKept'
<1>1. PICK m : m = User(<<"hook", answers>>) /\ m.role = "user"
  BY MessagesAre
<1>2. /\ pc = "hook" /\ pc' = "turn" /\ conv' = conv \o <<m>> /\ UNCHANGED <<chat, patched, opens>>
  BY <1>1 DEF StopHook, At, Say, Unmoved, counts
<1>3. IsSeq(conv) /\ IsSeq(<<m>>) /\ Answered(<<m>>, {})
  BY <1>1, OnePlain DEF Messages, Typed
<1>4. patched \in {0, opens} => Answered(chat, {}) /\ Answered(conv', {})
  BY <1>2, <1>3, AnsweredTogether DEF AnswersKept, WholeSteps
<1> QED
  BY <1>2, <1>4 DEF AnswersKept, Steps, WholeSteps

\* What is left of a conversation that died can be repaired.
LEMMA LeavingKeeps ==
  ASSUME AnswersKept, Transcribed, Leave
  PROVE  AnswersKept'
<1>1. pc # "down" /\ pc' = "down" /\ UNCHANGED <<saved, patched, opens>>
  BY DEF Leave
<1>2. ASSUME patched = 0 PROVE \E C : Answered(saved, C)
  <2>1. saved \o writing = digests /\ IsSeq(saved) /\ IsSeq(writing)
    BY <1>1, <1>2 DEF Transcribed, Sequenced
  <2>2. PICK C : Answered(digests, C)
    <3>1. CASE pc = "idle"
      BY <1>2, <3>1 DEF AnswersKept
    <3>2. CASE pc # "idle"
      <4>1. digests = conv
        BY <1>1, <3>2 DEF Transcribed
      <4>2. pc \in WholeSteps \/ pc = "tools" \/ pc \in {"cancelled", "failed"}
        BY <1>1, <3>2 DEF AnswersKept, Steps, WholeSteps
      <4>3. \E C : Answered(conv, C)
        BY <1>2, <4>2 DEF AnswersKept
      <4> QED
        BY <4>1, <4>3
    <3> QED
      BY <3>1, <3>2
  <2> QED
    BY <2>1, <2>2, AnsweredBefore
<1>3. patched' = 0 => \E C : Answered(saved', C)
  BY <1>1, <1>2
<1> QED
  BY <1>1, <1>3 DEF AnswersKept, Steps, WholeSteps

LEMMA ReopeningKeeps ==
  ASSUME AnswersKept, Messages, OpenedFirst, Reopen
  PROVE  AnswersKept'
<1>1. PICK ms : ms = saved \o Repairs(saved, "ended")
  OBVIOUS
<1>2. /\ pc = "down" /\ pc' = "idle" /\ opens' = opens + 1 /\ chat' = ms /\ digests' = ms
      /\ patched' \in {patched, opens'} /\ (patched' # patched => patched = 0)
  BY <1>1 DEF Reopen
<1>3. patched = 0 => Answered(ms, {})
  <2>1. SUFFICES ASSUME patched = 0 PROVE Answered(ms, {})
    OBVIOUS
  <2>2. PICK C : Answered(saved, C)
    BY <1>2, <2>1 DEF AnswersKept
  <2> QED
    BY <1>1, <2>2, RepairAnswers DEF Messages
<1>4. patched' \in {0, opens'} => patched = 0
  <2>1. patched \in Nat /\ opens \in Nat /\ patched <= opens
    BY DEF OpenedFirst
  <2>2. patched # opens + 1
    BY <2>1
  <2> QED
    BY <1>2, <2>2
<1> QED
  BY <1>2, <1>3, <1>4 DEF AnswersKept, Steps, WholeSteps

LEMMA KeptStep ==
  ASSUME AnswersKept, TurnsAreSettled, Messages, Transcribed, OpenedFirst, [Next]_vars
  PROVE  AnswersKept'
<1>1. IsSeq(queue)
  BY DEF Transcribed, Sequenced
<1> QED
  BY <1>1, QuietKeeps, CallsKeep, AppendingKeeps, EndingKeeps, RespondingKeeps, EndsKeep, ChatKeeps,
     RewritesKeep, TurnKeeps, HookKeeps, LeavingKeeps, ReopeningKeeps DEF Next, Thread

\* Whatever was stopped, failed, compacted or ended by the death of the process
\* before, a request shows the provider every call with its result right behind
\* it (agent_loop.py, repair.py, compaction.py): until a conversation that was
\* repaired in memory is opened once more.
THEOREM RequestsAreWellFormed == Spec => []RequestsAreAnswered
<1>1. AnswersKept /\ Messages => RequestsAreAnswered
  <2>1. SUFFICES ASSUME AnswersKept, Messages, pc = "ask", patched \in {0, opens}
                 PROVE  WellFormed(conv)
    BY DEF RequestsAreAnswered
  <2>2. Answered(conv, {}) /\ IsSeq(conv)
    BY <2>1 DEF AnswersKept, WholeSteps, Messages, Typed
  <2> QED
    BY <2>2, WholeIs
<1>2. Init => AnswersKept /\ TurnsAreSettled /\ Messages /\ Transcribed /\ OpenedFirst
  BY KeptInit, SettledInit, MessagesInit, TranscribedInit DEF Init, OpenedFirst
<1>3. AnswersKept /\ TurnsAreSettled /\ Messages /\ Transcribed /\ OpenedFirst /\ [Next]_vars
        => (AnswersKept /\ TurnsAreSettled /\ Messages /\ Transcribed /\ OpenedFirst)'
  BY KeptStep, SettledStep, MessagesStep, TranscribedStep, OpenedStep
<1> QED
  BY <1>1, <1>2, <1>3, PTL DEF Spec
=============================================================================
