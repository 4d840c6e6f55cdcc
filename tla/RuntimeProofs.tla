--------------------------- MODULE RuntimeProofs ---------------------------
(***************************************************************************)
(* Proofs about the components that MCRuntime puts side by side, for any   *)
(* values of the constants: each section shows one component's inductive    *)
(* invariant (IInv, beside the property it is for) and its property.       *)
(***************************************************************************)
EXTENDS MCRuntime, FiniteSetTheorems, TLAPS

\* A step of the whole is a step of the one component that moves.
LEMMA OnePartMoves ==
    ASSUME [Next]_vars
    PROVE  /\ part' = part
           /\ part = "request" => [Request!Next]_requestVars
           /\ part = "jobs" => [Job!Next]_jobVars
           /\ part = "tokens" => [Token!Next]_tokenVars
           /\ part = "stream" => [Stream!Next]_streamVars
           /\ part = "edits" => [Edit!Next]_editVars
           /\ part = "mcp" => [Mcp!Next]_mcpVars
           /\ part = "policies" => [Policy!Next]_policyVars
           /\ part = "notices" => [Notice!Next]_noticeVars
BY DEF vars, Next, RequestSteps, JobSteps, TokenSteps, StreamSteps, EditSteps, McpSteps,
       PolicySteps, NoticeSteps

-----------------------------------------------------------------------------
(* A streamed request: ModelRequest.                                        *)

LEMMA RequestInit == Init => Request!IInv
BY DEF Init, Request!Init, Request!IInv

LEMMA RequestStep ==
    ASSUME Request!IInv, [Request!Next]_requestVars
    PROVE  Request!IInv'
<1> USE DEF Request!IInv, Request!This
<1>1. CASE UNCHANGED requestVars
  BY <1>1 DEF requestVars
<1>2. CASE Request!Begin
  BY <1>2 DEF Request!Begin
<1>3. CASE Request!Text
  BY <1>3 DEF Request!Text
<1>4. CASE Request!ToolDelta
  BY <1>4 DEF Request!ToolDelta
<1>5. CASE Request!Interrupted
  BY <1>5 DEF Request!Interrupted
<1>6. CASE Request!Resend
  BY <1>6 DEF Request!Resend
<1>7. CASE Request!Waited
  BY <1>7 DEF Request!Waited, Request!NextModel
<1>8. CASE Request!Stop
  BY <1>8 DEF Request!Stop
<1>9. CASE Request!DeadlinePasses
  BY <1>9 DEF Request!DeadlinePasses
<1>10. ASSUME NEW complete \in BOOLEAN, Request!Ends(complete)
       PROVE  Request!IInv'
  BY <1>10 DEF Request!Ends
<1>11. ASSUME NEW f \in Request!Failures, Request!Fails(f)
       PROVE  Request!IInv'
  BY <1>11 DEF Request!Fails, Request!RetryOrGiveUp, Request!NextModel
<1> QED
  BY <1>1, <1>2, <1>3, <1>4, <1>5, <1>6, <1>7, <1>8, <1>9, <1>10, <1>11 DEF Request!Next

LEMMA RequestInvariant == Spec => [](part = "request" => Request!IInv)
<1>1. Init => (part = "request" => Request!IInv)
  BY RequestInit
<1>2. (part = "request" => Request!IInv) /\ [Next]_vars => (part = "request" => Request!IInv)'
  BY OnePartMoves, RequestStep
<1> QED
  BY <1>1, <1>2, PTL DEF Spec

\* However a stream breaks off, falls back or is stopped, the person reads the
\* text of one attempt, and the answer is made of its chunks (streaming.py).
THEOREM OneAttemptSpeaks == Spec => []OneVoice
<1>1. (part = "request" => Request!IInv) => OneVoice
  <2> SUFFICES ASSUME part = "request", Request!IInv
               PROVE  Request!OneVoice
    BY DEF OneVoice
  <2>1. shown = {} \/ shown = {Request!This}
    BY DEF Request!IInv
  <2>2. Cardinality(shown) <= 1
    <3>1. Cardinality({}) = 0 /\ Cardinality({Request!This}) = 1
      BY FS_EmptySet, FS_Singleton
    <3> QED
      BY <2>1, <3>1
  <2>3. Request!Cardinality(shown) = Cardinality(shown)
    BY DEF Request!Cardinality, Cardinality
  <2> QED
    BY <2>1, <2>2, <2>3 DEF Request!IInv, Request!OneVoice
<1> QED
  BY <1>1, RequestInvariant, PTL

-----------------------------------------------------------------------------
(* The tokens of a run: CancelTokens.                                       *)

LEMMA TokenInit == Init => Token!IInv
BY TokenParameters
   DEF Init, Token!Init, Token!IInv, Token!TypeOK, Token!TokenAssumption, Token!Children,
       Token!Whys

\* A token that is cancelled leaves none of its children unaware.
LEMMA CancellingKeeps ==
    ASSUME Token!IInv, NEW t \in Tokens, NEW why \in Token!Whys, why # "none",
           NEW others \in SUBSET pending, pending \subseteq others \cup {t},
           Token!Cancelling(t, why, others), UNCHANGED tokenStage
    PROVE  Token!IInv'
<1> USE TokenParameters DEF Token!TokenAssumption, Token!Children
<1>1. Token!TypeOK'
  BY DEF Token!Cancelling, Token!IInv, Token!TypeOK
<1>2. reason'[t] # "none" /\ \A u \in Tokens : reason[u] # "none" => reason'[u] # "none"
  BY DEF Token!Cancelling, Token!IInv, Token!TypeOK
<1>3. \A u \in Tokens : u # t => reason'[u] = reason[u] /\ callbacks'[u] = callbacks[u]
  BY DEF Token!Cancelling, Token!IInv, Token!TypeOK
<1>4. callbacks'[t] \subseteq callbacks[t] /\ callbacks[t] \subseteq callbacks'[t] \cup pending'
  BY DEF Token!Cancelling, Token!IInv, Token!TypeOK
<1>5. \A u \in Tokens : timer'[u] = "set" => timer[u] = "set"
  BY DEF Token!Cancelling, Token!IInv, Token!TypeOK
<1>6. \A u \in Tokens : u \in pending => u \in pending' \/ reason'[u] # "none"
  BY <1>2 DEF Token!Cancelling, Token!IInv, Token!TypeOK
<1>7. linked' = linked
  BY DEF Token!Cancelling
<1>8. ASSUME NEW u \in Token!Children
      PROVE  /\ u \in callbacks'[Parent[u]] => u \in callbacks[Parent[u]]
             /\ reason[Parent[u]] # "none" => reason'[Parent[u]] # "none"
             /\ IF reason'[Parent[u]] = "none"
                THEN reason[Parent[u]] = "none"
                     /\ (u \in callbacks[Parent[u]] => u \in callbacks'[Parent[u]])
                ELSE (reason[Parent[u]] = "none" /\ u \in callbacks[Parent[u]]) => u \in pending'
  <2>1. Parent[u] \in Tokens
    OBVIOUS
  <2>2. CASE Parent[u] = t
    BY <1>2, <1>4, <2>2 DEF Token!Cancelling
  <2>3. CASE Parent[u] # t
    BY <1>3, <2>1, <2>3
  <2> QED
    BY <2>2, <2>3
<1> QED
  BY <1>1, <1>2, <1>5, <1>6, <1>7, <1>8 DEF Token!IInv

LEMMA TokenStep ==
    ASSUME Token!IInv, [Token!Next]_tokenVars
    PROVE  Token!IInv'
<1> USE TokenParameters DEF Token!TokenAssumption, Token!Children, Token!Moves
<1>1. CASE UNCHANGED tokenVars
  BY <1>1 DEF tokenVars, Token!IInv, Token!TypeOK
<1>2. ASSUME NEW t \in Tokens, Token!Cancel(t)
      PROVE  Token!IInv'
  BY <1>2, CancellingKeeps DEF Token!Cancel, Token!Whys
<1>3. ASSUME NEW t \in Token!Children,
             \/ Token!Make(t) \/ Token!Register(t) \/ Token!Link(t) \/ Token!CallBack(t)
             \/ Token!CallLate(t) \/ Token!Elapse(t) \/ Token!Expire(t) \/ Token!Close(t)
             \/ Token!Detach(t) \/ Token!StopTimer(t)
      PROVE  Token!IInv'
  <2> USE DEF Token!IInv, Token!TypeOK
  <2>1. CASE Token!Make(t)
    BY <2>1 DEF Token!Make
  <2>2. CASE Token!Register(t)
    BY <2>2 DEF Token!Register
  <2>3. CASE Token!Link(t)
    BY <2>3 DEF Token!Link
  <2>4. CASE Token!CallBack(t)
    BY <2>4, CancellingKeeps DEF Token!CallBack, Token!Whys
  <2>5. CASE Token!CallLate(t)
    BY <2>5 DEF Token!CallLate, Token!Cancelling, Token!Whys
  <2>6. CASE Token!Elapse(t)
    BY <2>6 DEF Token!Elapse
  <2>7. CASE Token!Expire(t)
    BY <2>7, CancellingKeeps DEF Token!Expire, Token!Whys
  <2>8. CASE Token!Close(t)
    BY <2>8 DEF Token!Close
  <2>9. CASE Token!Detach(t)
    BY <2>9 DEF Token!Detach
  <2>10. CASE Token!StopTimer(t)
    BY <2>10 DEF Token!StopTimer
  <2> QED
    BY <1>3, <2>1, <2>2, <2>3, <2>4, <2>5, <2>6, <2>7, <2>8, <2>9, <2>10
<1> QED
  BY <1>1, <1>2, <1>3 DEF Token!Next

LEMMA TokenInvariant == Spec => [](part = "tokens" => Token!IInv)
<1>1. Init => (part = "tokens" => Token!IInv)
  BY TokenInit
<1>2. (part = "tokens" => Token!IInv) /\ [Next]_vars => (part = "tokens" => Token!IInv)'
  BY OnePartMoves, TokenStep
<1> QED
  BY <1>1, <1>2, PTL DEF Spec

\* In any tree of tokens, a cancelled one reaches everything at work below it,
\* and a closed one leaves nothing with its parent (cancellation.py).
THEOREM CancelReachesAll == Spec => []CancelReaches
<1>1. (part = "tokens" => Token!IInv) => CancelReaches
  BY DEF CancelReaches, Token!CancelReaches, Token!IInv
<1> QED
  BY <1>1, TokenInvariant, PTL


-----------------------------------------------------------------------------
(* Background jobs: BackgroundJobs.                                         *)

LEMMA JobInit == Init => Job!IInv
<1> SUFFICES ASSUME Job!Init
             PROVE  Job!IInv
  BY DEF Init
<1> USE DEF Job!Init, Job!Idle, Job!NoJob, Job!Stoppers
<1>1. Job!TypeOK
  BY DEF Job!TypeOK
<1>2. /\ \A s \in Job!Stoppers : stopping[s] = Job!Idle /\ stopping[s].at = "idle"
      /\ \A j \in Jobs : /\ status[j] = "none" /\ jobsTold[j] = "none"
                         /\ reader[j] = "none" /\ process[j] = "none" /\ pipe[j] = "none"
      /\ jobsClosed = FALSE
  OBVIOUS
<1> QED
  BY <1>1, <1>2 DEF Job!IInv

LEMMA JobStep ==
    ASSUME Job!IInv, [Job!Next]_jobVars
    PROVE  Job!IInv'
<1> USE DEF Job!IInv, Job!TypeOK, Job!Stoppers, Job!Idle, Job!Stopping
<1>1. CASE UNCHANGED jobVars
  BY <1>1 DEF jobVars
<1>2. CASE Job!Close
  BY SMTT(30), <1>2 DEF Job!Close, Job!Running
<1>3. ASSUME NEW j \in Jobs,
             \/ Job!Start(j) \/ Job!StartFails(j) \/ Job!Dies(j) \/ Job!HolderEnds(j)
             \/ Job!ReadsEnd(j) \/ Job!ReadFails(j) \/ Job!ReadRaises(j)
             \/ Job!Ends(j) \/ Job!ReaderTells(j) \/ Job!Stop(j) \/ Job!CloseStops(j)
      PROVE  Job!IInv'
  <2>1. CASE Job!Start(j)
    BY <2>1 DEF Job!Start, Job!Starts
  <2>2. CASE Job!StartFails(j)
    BY <2>2 DEF Job!StartFails, Job!Starts
  <2>3. CASE Job!Dies(j)
    BY <2>3 DEF Job!Dies
  <2>4. CASE Job!HolderEnds(j)
    BY <2>4 DEF Job!HolderEnds
  <2>5. CASE Job!ReadsEnd(j)
    BY <2>5 DEF Job!ReadsEnd
  <2>6. CASE Job!ReadFails(j)
    BY <2>6 DEF Job!ReadFails
  <2>7. CASE Job!ReadRaises(j)
    BY <2>7 DEF Job!ReadRaises
  <2>8. CASE Job!Ends(j)
    BY <2>8 DEF Job!Ends
  <2>9. CASE Job!ReaderTells(j)
    BY <2>9 DEF Job!ReaderTells
  <2>10. CASE Job!Stop(j)
    BY <2>10 DEF Job!Stop, Job!StopBegins
  <2>11. CASE Job!CloseStops(j)
    BY <2>11 DEF Job!CloseStops, Job!StopBegins
  <2> QED
    BY <1>3, <2>1, <2>2, <2>3, <2>4, <2>5, <2>6, <2>7, <2>8, <2>9, <2>10, <2>11
<1>4. ASSUME NEW s \in Job!Stoppers,
             Job!Kill(s) \/ Job!KillAgain(s) \/ Job!Settle(s) \/ Job!Tell(s)
      PROVE  Job!IInv'
  <2>1. CASE Job!Kill(s)
    BY <2>1 DEF Job!Kill, Job!Steps, Job!Killed
  <2>2. CASE Job!KillAgain(s)
    BY <2>2 DEF Job!KillAgain, Job!Steps, Job!Killed
  <2>3. CASE Job!Settle(s)
    BY <2>3 DEF Job!Settle, Job!Steps
  <2>4. CASE Job!Tell(s)
    BY <2>4 DEF Job!Tell
  <2> QED
    BY <1>4, <2>1, <2>2, <2>3, <2>4
<1> QED
  BY <1>1, <1>2, <1>3, <1>4 DEF Job!Next

LEMMA JobInvariant == Spec => [](part = "jobs" => Job!IInv)
<1>1. Init => (part = "jobs" => Job!IInv)
  BY JobInit
<1>2. (part = "jobs" => Job!IInv) /\ [Next]_vars => (part = "jobs" => Job!IInv)'
  BY OnePartMoves, JobStep
<1> QED
  BY <1>1, <1>2, PTL DEF Spec

\* However many jobs are read, stopped and closed at once, the last that is
\* told of a job is its status, and no process outlives it (jobs.py).
THEOREM StatusOfJobsIsKnown == Spec => []JobsAreKnown
<1>1. (part = "jobs" => Job!IInv) => JobsAreKnown
  <2> SUFFICES ASSUME Job!IInv
               PROVE  Job!JobsAreKnown
    BY DEF JobsAreKnown
  <2> USE DEF Job!IInv, Job!TypeOK, Job!Stoppers, Job!Idle, Job!Stopping
  <2>1. \A j \in Jobs : ~Job!Busy(j) => jobsTold[j] = status[j] /\ status[j] # "running"
    BY DEF Job!Busy
  <2>2. \A j \in Jobs : process[j] = "alive" => status[j] = "running"
    OBVIOUS
  <2>3. jobsClosed /\ toClose = {} /\ stopping["close"] = Job!Idle =>
          \A j \in Jobs : process[j] # "alive"
    OBVIOUS
  <2> QED
    BY <2>1, <2>2, <2>3 DEF Job!JobsAreKnown
<1> QED
  BY <1>1, JobInvariant, PTL

-----------------------------------------------------------------------------
(* The stream of events: EventStream.                                       *)

\* What Append, Tail and Put do to the members and the order of a queue.
LEMMA MembersOfAppend ==
    ASSUME NEW S, NEW q \in Seq(S), NEW e \in S
    PROVE  /\ Append(q, e) \in Seq(S) /\ Len(Append(q, e)) = Len(q) + 1
           /\ Stream!Members(Append(q, e)) = Stream!Members(q) \cup {e}
           /\ Stream!Distinct(q) /\ e \notin Stream!Members(q) => Stream!Distinct(Append(q, e))
           /\ Stream!Ordered(q) /\ (\A x \in Stream!Members(q) : Stream!Grows(x, e))
                => Stream!Ordered(Append(q, e))
<1>1. Append(q, e) \in Seq(S) /\ Len(Append(q, e)) = Len(q) + 1
  OBVIOUS
<1>2. /\ DOMAIN q = 1 .. Len(q) /\ DOMAIN Append(q, e) = 1 .. Len(q) + 1 /\ Len(q) \in Nat
      /\ \A i \in 1 .. Len(q) : Append(q, e)[i] = q[i]
      /\ Append(q, e)[Len(q) + 1] = e
  OBVIOUS
<1>3. Stream!Members(Append(q, e)) = Stream!Members(q) \cup {e}
  BY <1>2 DEF Stream!Members
<1>4. \A i \in DOMAIN q : q[i] \in Stream!Members(q)
  BY DEF Stream!Members
<1>5. \A i \in 1 .. Len(q) + 1 : i \in 1 .. Len(q) \/ i = Len(q) + 1
  BY <1>2
<1>6. Stream!Distinct(q) /\ e \notin Stream!Members(q) => Stream!Distinct(Append(q, e))
  BY <1>2, <1>4, <1>5 DEF Stream!Distinct
<1>7. Stream!Ordered(q) /\ (\A x \in Stream!Members(q) : Stream!Grows(x, e))
        => Stream!Ordered(Append(q, e))
  <2> SUFFICES ASSUME Stream!Ordered(q), \A x \in Stream!Members(q) : Stream!Grows(x, e),
                      NEW i \in 1 .. Len(q) + 1, NEW j \in 1 .. Len(q) + 1, i < j
               PROVE  Stream!Grows(Append(q, e)[i], Append(q, e)[j])
    BY <1>2 DEF Stream!Ordered
  <2>1. i \in 1 .. Len(q)
    BY <1>2
  <2>2. CASE j = Len(q) + 1
    BY <1>2, <1>4, <2>1, <2>2
  <2>3. CASE j \in 1 .. Len(q)
    BY <1>2, <2>1, <2>3 DEF Stream!Ordered
  <2> QED
    BY <1>5, <2>2, <2>3
<1> QED
  BY <1>1, <1>3, <1>6, <1>7

LEMMA MembersOfTail ==
    ASSUME NEW S, NEW q \in Seq(S), q # <<>>
    PROVE  /\ Tail(q) \in Seq(S) /\ Len(q) = Len(Tail(q)) + 1
           /\ Head(q) \in S /\ Head(q) \in Stream!Members(q)
           /\ Stream!Members(Tail(q)) \subseteq Stream!Members(q)
           /\ Stream!Distinct(q) =>
                Stream!Distinct(Tail(q)) /\ Head(q) \notin Stream!Members(Tail(q))
           /\ Stream!Ordered(q) =>
                /\ Stream!Ordered(Tail(q))
                /\ \A f \in Stream!Members(Tail(q)) : Stream!Grows(Head(q), f)
<1>1. /\ Tail(q) \in Seq(S) /\ Len(q) \in Nat /\ Len(q) > 0 /\ Len(Tail(q)) = Len(q) - 1
      /\ Head(q) = q[1] /\ DOMAIN q = 1 .. Len(q) /\ DOMAIN Tail(q) = 1 .. Len(q) - 1
  OBVIOUS
<1>2. \A i \in 1 .. Len(q) - 1 : Tail(q)[i] = q[i + 1]
  BY <1>1
<1>3. /\ 1 \in DOMAIN q
      /\ \A i \in 1 .. Len(q) - 1 : i + 1 \in DOMAIN q /\ 1 < i + 1 /\ i + 1 # 1
  BY <1>1
<1>4. Stream!Members(Tail(q)) = {q[i + 1] : i \in 1 .. Len(q) - 1}
  BY <1>1, <1>2 DEF Stream!Members
<1>5. Stream!Distinct(q) =>
        Stream!Distinct(Tail(q)) /\ Head(q) \notin Stream!Members(Tail(q))
  <2> SUFFICES ASSUME Stream!Distinct(q)
               PROVE  Stream!Distinct(Tail(q)) /\ Head(q) \notin Stream!Members(Tail(q))
    OBVIOUS
  <2>1. \A i, j \in 1 .. Len(q) - 1 : q[i + 1] = q[j + 1] => i + 1 = j + 1
    BY <1>3 DEF Stream!Distinct
  <2>2. \A i \in 1 .. Len(q) - 1 : q[1] # q[i + 1]
    BY <1>3 DEF Stream!Distinct
  <2> QED
    BY <1>1, <1>2, <1>4, <2>1, <2>2 DEF Stream!Distinct
<1>6. Stream!Ordered(q) =>
        /\ Stream!Ordered(Tail(q))
        /\ \A f \in Stream!Members(Tail(q)) : Stream!Grows(Head(q), f)
  BY <1>1, <1>2, <1>3, <1>4 DEF Stream!Ordered
<1> QED
  BY <1>1, <1>3, <1>4, <1>5, <1>6 DEF Stream!Members

LEMMA PutKeeps ==
    ASSUME NEW q \in Seq(Stream!Events), NEW e \in Stream!Events, NEW limit \in Nat \ {0},
           NEW put, put = Stream!Put(q, e, limit)
    PROVE  /\ put.events \in Seq(Stream!Events) /\ put.lost \in {0, 1}
           /\ Len(q) + 1 = Len(put.events) + put.lost
           /\ Stream!Members(put.events) \subseteq Stream!Members(q) \cup {e}
           /\ Stream!Ordered(q) /\ (\A x \in Stream!Members(q) : Stream!Grows(x, e))
                => Stream!Ordered(put.events)
<1>1. CASE Len(q) < limit
  <2>1. put = [events |-> Append(q, e), lost |-> 0]
    BY <1>1 DEF Stream!Put
  <2> QED
    BY <2>1, MembersOfAppend
<1>2. CASE ~(Len(q) < limit)
  <2>1. q # <<>>
    BY <1>2
  <2>2. put = [events |-> Append(Tail(q), e), lost |-> 1]
    BY <1>2 DEF Stream!Put
  <2>3. Tail(q) \in Seq(Stream!Events)
    BY <2>1, MembersOfTail
  <2>4. /\ Append(Tail(q), e) \in Seq(Stream!Events)
        /\ Len(Append(Tail(q), e)) = Len(Tail(q)) + 1
        /\ Stream!Members(Append(Tail(q), e)) = Stream!Members(Tail(q)) \cup {e}
    BY <2>3, MembersOfAppend
  <2>5. /\ Len(q) = Len(Tail(q)) + 1 /\ Stream!Members(Tail(q)) \subseteq Stream!Members(q)
        /\ Stream!Ordered(q) => Stream!Ordered(Tail(q))
    BY <2>1, MembersOfTail
  <2>6. Stream!Ordered(q) /\ (\A x \in Stream!Members(q) : Stream!Grows(x, e))
          => Stream!Ordered(Append(Tail(q), e))
    BY <2>3, <2>5, MembersOfAppend
  <2> QED
    BY <2>2, <2>3, <2>4, <2>5, <2>6
<1> QED
  BY <1>1, <1>2

LEMMA MembersOfWithout ==
    ASSUME NEW q \in Seq(Subscribers), NEW s, Stream!Distinct(q)
    PROVE  /\ Stream!Without(q, s) \in Seq(Subscribers) /\ Stream!Distinct(Stream!Without(q, s))
           /\ Stream!Members(Stream!Without(q, s)) \subseteq Stream!Members(q)
<1>1. CASE s \notin Stream!Members(q)
  BY <1>1 DEF Stream!Without
<1>2. CASE s \in Stream!Members(q)
  <2>1. PICK i \in DOMAIN q : q[i] = s
    BY <1>2 DEF Stream!Members
  <2>2. \A k \in 1 .. i - 1 : k \in DOMAIN q /\ k # i
    BY <2>1
  <2>3. \A k \in 1 .. i - 1 : q[k] # s
    BY <2>1, <2>2 DEF Stream!Distinct
  <2> DEFINE first == CHOOSE j \in DOMAIN q : q[j] = s /\ \A k \in 1 .. j - 1 : q[k] # s
             rest_ == [j \in 1 .. Len(q) - 1 |-> IF j < first THEN q[j] ELSE q[j + 1]]
  <2>4. first \in DOMAIN q
    BY <2>1, <2>3
  <2>5. Stream!Without(q, s) = rest_
    BY <1>2 DEF Stream!Without
  <2> HIDE DEF first
  <2>6. /\ Len(q) - 1 \in Nat /\ first \in Nat /\ DOMAIN q = 1 .. Len(q)
        /\ \A j \in 1 .. Len(q) - 1 : j \in DOMAIN q /\ j + 1 \in DOMAIN q
    BY <2>4
  <2>7. rest_ \in Seq(Subscribers) /\ DOMAIN rest_ = 1 .. Len(q) - 1
    BY <2>6
  <2>8. \A j \in 1 .. Len(q) - 1 : \E k \in DOMAIN q : rest_[j] = q[k]
    BY <2>6
  <2>9. Stream!Distinct(rest_)
    <3> SUFFICES ASSUME NEW j \in 1 .. Len(q) - 1, NEW k \in 1 .. Len(q) - 1, rest_[j] = rest_[k]
                 PROVE  j = k
      BY <2>7 DEF Stream!Distinct
    <3> DEFINE at_(x) == IF x < first THEN x ELSE x + 1
    <3>1. q[at_(j)] = q[at_(k)] /\ at_(j) \in DOMAIN q /\ at_(k) \in DOMAIN q
      BY <2>6
    <3>2. at_(j) = at_(k)
      BY <3>1 DEF Stream!Distinct
    <3> QED
      BY <2>6, <3>2
  <2> HIDE DEF rest_
  <2>10. Stream!Members(rest_) \subseteq Stream!Members(q)
    BY <2>7, <2>8 DEF Stream!Members
  <2> QED
    BY <2>5, <2>7, <2>9, <2>10
<1> QED
  BY <1>1, <1>2

LEMMA StreamInit == Init => Stream!IInv
<1> SUFFICES ASSUME Stream!Init
             PROVE  Stream!IInv
  BY DEF Init
<1> USE DEF Stream!Init, Stream!Nothing
<1>1. Stream!Typing
  <2>1. \A S : <<>> \in Seq(S)
    OBVIOUS
  <2>2. sub \in [Subscribers -> [queue : Seq(Stream!Events), terminal : Seq(Stream!Events),
                                dropped : Nat, closed : BOOLEAN]]
    BY <2>1
  <2>3. rest \in [Publishers -> Seq(Subscribers)] /\ {peers, closing} \subseteq Seq(Subscribers)
    BY <2>1
  <2>4. got \in [Subscribers -> Seq(Stream!Events)]
    BY <2>1
  <2>5. {told, offered} \subseteq [Subscribers -> Nat] /\ sent \in [Publishers -> Nat]
        /\ stage \in [Subscribers -> {"none", "look", "get", "leaving", "left"}]
    OBVIOUS
  <2> QED
    BY <2>2, <2>3, <2>4, <2>5 DEF Stream!Typing
<1>2. Stream!Once
  BY DEF Stream!Once, Stream!Distinct, Stream!Members
<1>3. ASSUME NEW s \in Subscribers
      PROVE  Stream!InOrder(s) /\ Stream!Counted(s)
  <2>1. /\ sub[s].queue = <<>> /\ sub[s].terminal = <<>> /\ sub[s].dropped = 0
        /\ got[s] = <<>> /\ told[s] = 0 /\ offered[s] = 0
    OBVIOUS
  <2> QED
    BY <2>1 DEF Stream!InOrder, Stream!Counted, Stream!Ordered, Stream!Members
<1> QED
  BY <1>1, <1>2, <1>3 DEF Stream!IInv

\* The order of a subscription is kept where its queues and what it got are, and
\* publications have reached more of their subscriptions, or as many.
LEMMA NumberedKept ==
    ASSUME NEW s, NEW x, Stream!Numbered(s, x), UNCHANGED sent,
           \A p \in Publishers : Stream!Members(rest'[p]) \subseteq Stream!Members(rest[p])
    PROVE  Stream!Numbered(s, x)'
BY DEF Stream!Numbered

LEMMA OrderKept ==
    ASSUME NEW s \in Subscribers, Stream!InOrder(s), UNCHANGED sent,
           sub'[s].queue = sub[s].queue, sub'[s].terminal = sub[s].terminal, got'[s] = got[s],
           \A p \in Publishers : Stream!Members(rest'[p]) \subseteq Stream!Members(rest[p])
    PROVE  Stream!InOrder(s)'
BY DEF Stream!InOrder, Stream!Numbered

\* What a publication gives a subscription comes after all it has.
LEMMA OfferedIsLatest ==
    ASSUME Stream!IInv, NEW p \in Publishers, rest[p] # <<>>
    PROVE  LET s == Head(rest[p])
               e == [by |-> p, n |-> sent[p]] IN
           /\ s \in Subscribers /\ e \in Stream!Events /\ e.n > 0 /\ e.by = p
           /\ \A x \in Stream!Members(got[s]) \cup Stream!Members(sub[s].queue)
                       \cup Stream!Members(sub[s].terminal) : Stream!Grows(x, e)
           /\ Tail(rest[p]) \in Seq(Subscribers) /\ Stream!Distinct(Tail(rest[p]))
           /\ s \notin Stream!Members(Tail(rest[p]))
           /\ Stream!Members(Tail(rest[p])) \subseteq Stream!Members(rest[p])
<1> DEFINE s == Head(rest[p])
           e == [by |-> p, n |-> sent[p]]
<1>1. rest[p] \in Seq(Subscribers) /\ Stream!Distinct(rest[p]) /\ sent[p] \in Nat /\ sent[p] > 0
  BY DEF Stream!IInv, Stream!Typing, Stream!Once
<1>2. /\ s \in Subscribers /\ s \in Stream!Members(rest[p])
      /\ Tail(rest[p]) \in Seq(Subscribers) /\ Stream!Distinct(Tail(rest[p]))
      /\ s \notin Stream!Members(Tail(rest[p]))
      /\ Stream!Members(Tail(rest[p])) \subseteq Stream!Members(rest[p])
  BY <1>1, MembersOfTail
<1>3. e \in Stream!Events /\ e.n = sent[p] /\ e.by = p
  BY <1>1 DEF Stream!Events
<1>4. \A x \in Stream!Members(got[s]) \cup Stream!Members(sub[s].queue)
               \cup Stream!Members(sub[s].terminal) : Stream!Grows(x, e)
  BY <1>2, <1>3 DEF Stream!IInv, Stream!InOrder, Stream!Numbered, Stream!Grows
<1> QED
  BY <1>1, <1>2, <1>3, <1>4

LEMMA OfferStep ==
    ASSUME Stream!IInv, NEW p \in Publishers, Stream!Offer(p)
    PROVE  Stream!IInv'
<1>1. PICK s \in Subscribers, e \in Stream!Events :
        /\ s = Head(rest[p]) /\ e = [by |-> p, n |-> sent[p]]
        /\ e.n > 0 /\ e.by = p /\ e.n = sent[p]
        /\ \A x \in Stream!Members(got[s]) \cup Stream!Members(sub[s].queue)
                    \cup Stream!Members(sub[s].terminal) : Stream!Grows(x, e)
        /\ Tail(rest[p]) \in Seq(Subscribers) /\ Stream!Distinct(Tail(rest[p]))
        /\ s \notin Stream!Members(Tail(rest[p]))
        /\ Stream!Members(Tail(rest[p])) \subseteq Stream!Members(rest[p])
  BY OfferedIsLatest DEF Stream!Offer
<1>2. /\ rest[p] # <<>> /\ rest' = [rest EXCEPT ![p] = Tail(@)]
      /\ UNCHANGED <<streamClosed, peers, sent, closing, stage, got, told>>
      /\ IF sub[s].closed THEN UNCHANGED <<sub, offered>>
         ELSE /\ sub' = [sub EXCEPT ![s] = Stream!Offered(@, p)]
              /\ offered' = [offered EXCEPT ![s] = @ + 1]
  BY <1>1 DEF Stream!Offer
<1>3. /\ rest' \in [Publishers -> Seq(Subscribers)] /\ rest'[p] = Tail(rest[p])
      /\ \A r \in Publishers : r # p => rest'[r] = rest[r]
  BY <1>1, <1>2 DEF Stream!IInv, Stream!Typing
<1>4. \A r \in Publishers : Stream!Members(rest'[r]) \subseteq Stream!Members(rest[r])
  BY <1>1, <1>3
<1>5. Stream!Once'
  BY <1>1, <1>2, <1>3 DEF Stream!IInv, Stream!Once
<1>6. /\ sub[s] \in [queue : Seq(Stream!Events), terminal : Seq(Stream!Events),
                     dropped : Nat, closed : BOOLEAN]
      /\ offered[s] \in Nat /\ told[s] \in Nat /\ got[s] \in Seq(Stream!Events)
      /\ Stream!InOrder(s) /\ Stream!Counted(s)
  BY DEF Stream!IInv, Stream!Typing
<1>7. Stream!Numbered(s, e)'
  BY <1>1, <1>2, <1>3 DEF Stream!Numbered, Stream!Events
<1>8. ASSUME NEW r \in [queue : Seq(Stream!Events), terminal : Seq(Stream!Events),
                        dropped : Nat, closed : BOOLEAN],
             sub' = [sub EXCEPT ![s] = r], offered' = [offered EXCEPT ![s] = @ + 1]
      PROVE  /\ Stream!Typing' /\ sub'[s] = r /\ offered'[s] = offered[s] + 1
             /\ \A t \in Subscribers : t # s => (Stream!InOrder(t) /\ Stream!Counted(t))'
  <2>1. /\ sub' \in [Subscribers -> [queue : Seq(Stream!Events), terminal : Seq(Stream!Events),
                                     dropped : Nat, closed : BOOLEAN]]
        /\ offered' \in [Subscribers -> Nat]
        /\ sub'[s] = r /\ offered'[s] = offered[s] + 1
        /\ \A t \in Subscribers : t # s => sub'[t] = sub[t] /\ offered'[t] = offered[t]
    BY <1>8 DEF Stream!IInv, Stream!Typing
  <2>2. Stream!Typing'
    BY <1>2, <1>3, <2>1 DEF Stream!IInv, Stream!Typing
  <2>3. \A t \in Subscribers : t # s => (Stream!InOrder(t) /\ Stream!Counted(t))'
    BY <1>2, <1>4, <2>1, OrderKept DEF Stream!IInv, Stream!Counted
  <2> QED
    BY <2>1, <2>2, <2>3
<1>9. CASE sub[s].closed
  <2>1. Stream!Typing'
    BY <1>2, <1>3, <1>9 DEF Stream!IInv, Stream!Typing
  <2>2. \A t \in Subscribers : (Stream!InOrder(t) /\ Stream!Counted(t))'
    BY <1>2, <1>4, <1>9, OrderKept DEF Stream!IInv, Stream!Counted
  <2> QED
    BY <1>5, <2>1, <2>2 DEF Stream!IInv
<1>10. CASE ~sub[s].closed /\ p \in Terminals
  <2>1. PICK put : put = Stream!Put(sub[s].terminal, e, TerminalLimit)
    OBVIOUS
  <2>2. /\ put.events \in Seq(Stream!Events) /\ put.lost \in {0, 1}
        /\ Len(sub[s].terminal) + 1 = Len(put.events) + put.lost
        /\ Stream!Members(put.events) \subseteq Stream!Members(sub[s].terminal) \cup {e}
        /\ Stream!Ordered(sub[s].terminal)
           /\ (\A x \in Stream!Members(sub[s].terminal) : Stream!Grows(x, e))
             => Stream!Ordered(put.events)
    <3>1. sub[s].terminal \in Seq(Stream!Events) /\ TerminalLimit \in Nat \ {0}
      BY <1>6, StreamParameters DEF Stream!StreamAssumption
    <3> QED
      BY <2>1, <3>1, PutKeeps
  <2>3. PICK r : r = [sub[s] EXCEPT !.terminal = put.events, !.dropped = @ + put.lost]
    OBVIOUS
  <2>4. /\ r \in [queue : Seq(Stream!Events), terminal : Seq(Stream!Events),
                  dropped : Nat, closed : BOOLEAN]
        /\ r.terminal = put.events /\ r.queue = sub[s].queue
        /\ r.dropped = sub[s].dropped + put.lost /\ r.closed = sub[s].closed
    <3>1. sub[s].dropped + put.lost \in Nat
      BY <1>6, <2>2
    <3> QED
      BY <1>6, <2>2, <2>3, <3>1
  <2>5. Stream!Offered(sub[s], p) = r
    BY <1>1, <1>10, <2>1, <2>3 DEF Stream!Offered
  <2>6. /\ Stream!Typing' /\ sub'[s] = r /\ offered'[s] = offered[s] + 1
        /\ \A t \in Subscribers : t # s => (Stream!InOrder(t) /\ Stream!Counted(t))'
    <3>1. sub' = [sub EXCEPT ![s] = r] /\ offered' = [offered EXCEPT ![s] = @ + 1]
      BY <1>2, <1>10, <2>5
    <3> QED
      BY <1>8, <2>4, <3>1
  <2>7. Stream!InOrder(s)'
    <3>1. \A x \in Stream!Members(got[s]) \cup Stream!Members(sub[s].queue)
                   \cup Stream!Members(put.events) : Stream!Numbered(s, x)'
      <4>1. \A x \in Stream!Members(got[s]) \cup Stream!Members(sub[s].queue)
                     \cup Stream!Members(sub[s].terminal) : Stream!Numbered(s, x)
        BY <1>6 DEF Stream!InOrder
      <4> QED
        BY <1>2, <1>4, <1>7, <2>2, <4>1, NumberedKept
    <3>2. Stream!Ordered(put.events)
      BY <1>1, <1>6, <2>2 DEF Stream!InOrder
    <3>3. \A x \in Stream!Members(got[s]), f \in Stream!Members(put.events) : Stream!Grows(x, f)
      BY <1>1, <1>6, <2>2 DEF Stream!InOrder
    <3>4. \A x \in Stream!Members(put.events) : x.n > 0 /\ x.by \in Terminals
      BY <1>1, <1>6, <1>10, <2>2 DEF Stream!InOrder
    <3>5. got'[s] = got[s]
      BY <1>2
    <3> QED
      BY <1>6, <2>4, <2>6, <3>1, <3>2, <3>3, <3>4, <3>5 DEF Stream!InOrder
  <2>8. Stream!Counted(s)'
    <3>1. /\ got'[s] = got[s] /\ told'[s] = told[s] /\ Len(got[s]) \in Nat
          /\ Len(sub[s].queue) \in Nat /\ Len(sub[s].terminal) \in Nat
          /\ Len(put.events) \in Nat /\ sub[s].dropped \in Nat
      BY <1>2, <1>6, <2>2
    <3>2. \A x \in Stream!Members(r.queue) : x.n > 0
      BY <1>1, <1>6, <1>10, <2>2, <2>4 DEF Stream!Counted
    <3>3. offered[s] = Len(got[s]) + told[s] + sub[s].dropped
                       + Len(sub[s].queue) + Len(sub[s].terminal)
      BY <1>6, <1>10 DEF Stream!Counted
    <3>4. Len(sub[s].terminal) + 1 = Len(put.events) + put.lost /\ put.lost \in Nat
      BY <2>2
    <3>5. /\ r.dropped = sub[s].dropped + put.lost /\ told[s] \in Nat
          /\ Len(r.terminal) = Len(put.events) /\ Len(r.queue) = Len(sub[s].queue)
      BY <1>6, <2>4
    <3>6. PICK g \in Nat, t \in Nat, d \in Nat, u \in Nat, v \in Nat, w \in Nat, l \in Nat :
            /\ g = Len(got[s]) /\ t = told[s] /\ d = sub[s].dropped /\ u = Len(sub[s].queue)
            /\ v = Len(sub[s].terminal) /\ w = Len(put.events) /\ l = put.lost
      BY <3>1, <3>4, <3>5
    <3>7. offered[s] = g + t + d + u + v /\ v + 1 = w + l
      BY <3>3, <3>4, <3>6
    <3>8. offered[s] + 1 = g + t + (d + l) + u + w
      BY <3>7
    <3>9. offered[s] + 1 = Len(got[s]) + told[s] + r.dropped + Len(r.queue) + Len(r.terminal)
      BY <3>5, <3>6, <3>8
    <3> QED
      BY <2>6, <3>1, <3>2, <3>9 DEF Stream!Counted
  <2> QED
    BY <1>5, <2>6, <2>7, <2>8 DEF Stream!IInv
<1>11. CASE ~sub[s].closed /\ p \notin Terminals
  <2>1. PICK put : put = Stream!Put(sub[s].queue, e, QueueLimit)
    OBVIOUS
  <2>2. /\ put.events \in Seq(Stream!Events) /\ put.lost \in {0, 1}
        /\ Len(sub[s].queue) + 1 = Len(put.events) + put.lost
        /\ Stream!Members(put.events) \subseteq Stream!Members(sub[s].queue) \cup {e}
        /\ Stream!Ordered(sub[s].queue)
           /\ (\A x \in Stream!Members(sub[s].queue) : Stream!Grows(x, e))
             => Stream!Ordered(put.events)
    <3>1. sub[s].queue \in Seq(Stream!Events) /\ QueueLimit \in Nat \ {0}
      BY <1>6, StreamParameters DEF Stream!StreamAssumption
    <3> QED
      BY <2>1, <3>1, PutKeeps
  <2>3. PICK r : r = [sub[s] EXCEPT !.queue = put.events, !.dropped = @ + put.lost]
    OBVIOUS
  <2>4. /\ r \in [queue : Seq(Stream!Events), terminal : Seq(Stream!Events),
                  dropped : Nat, closed : BOOLEAN]
        /\ r.queue = put.events /\ r.terminal = sub[s].terminal
        /\ r.dropped = sub[s].dropped + put.lost /\ r.closed = sub[s].closed
    <3>1. sub[s].dropped + put.lost \in Nat
      BY <1>6, <2>2
    <3> QED
      BY <1>6, <2>2, <2>3, <3>1
  <2>5. Stream!Offered(sub[s], p) = r
    BY <1>1, <1>11, <2>1, <2>3 DEF Stream!Offered
  <2>6. /\ Stream!Typing' /\ sub'[s] = r /\ offered'[s] = offered[s] + 1
        /\ \A t \in Subscribers : t # s => (Stream!InOrder(t) /\ Stream!Counted(t))'
    <3>1. sub' = [sub EXCEPT ![s] = r] /\ offered' = [offered EXCEPT ![s] = @ + 1]
      BY <1>2, <1>11, <2>5
    <3> QED
      BY <1>8, <2>4, <3>1
  <2>7. Stream!InOrder(s)'
    <3>1. \A x \in Stream!Members(got[s]) \cup Stream!Members(sub[s].terminal)
                   \cup Stream!Members(put.events) : Stream!Numbered(s, x)'
      <4>1. \A x \in Stream!Members(got[s]) \cup Stream!Members(sub[s].terminal)
                     \cup Stream!Members(sub[s].queue) : Stream!Numbered(s, x)
        BY <1>6 DEF Stream!InOrder
      <4> QED
        BY <1>2, <1>4, <1>7, <2>2, <4>1, NumberedKept
    <3>2. Stream!Ordered(put.events)
      BY <1>1, <1>6, <2>2 DEF Stream!InOrder
    <3>3. \A x \in Stream!Members(got[s]), f \in Stream!Members(put.events) : Stream!Grows(x, f)
      BY <1>1, <1>6, <2>2 DEF Stream!InOrder
    <3>4. \A x \in Stream!Members(put.events) : x.n = 0 \/ x.by \notin Terminals
      BY <1>1, <1>6, <1>11, <2>2 DEF Stream!InOrder
    <3>5. got'[s] = got[s]
      BY <1>2
    <3> QED
      BY <1>6, <2>4, <2>6, <3>1, <3>2, <3>3, <3>4, <3>5 DEF Stream!InOrder
  <2>8. Stream!Counted(s)'
    <3>1. /\ got'[s] = got[s] /\ told'[s] = told[s] /\ Len(got[s]) \in Nat
          /\ Len(sub[s].queue) \in Nat /\ Len(sub[s].terminal) \in Nat
          /\ Len(put.events) \in Nat /\ sub[s].dropped \in Nat
      BY <1>2, <1>6, <2>2
    <3>2. \A x \in Stream!Members(r.queue) : x.n > 0
      BY <1>1, <1>6, <1>11, <2>2, <2>4 DEF Stream!Counted
    <3>3. offered[s] = Len(got[s]) + told[s] + sub[s].dropped
                       + Len(sub[s].queue) + Len(sub[s].terminal)
      BY <1>6, <1>11 DEF Stream!Counted
    <3>4. Len(sub[s].queue) + 1 = Len(put.events) + put.lost /\ put.lost \in Nat
      BY <2>2
    <3>5. /\ r.dropped = sub[s].dropped + put.lost /\ told[s] \in Nat
          /\ Len(r.queue) = Len(put.events) /\ Len(r.terminal) = Len(sub[s].terminal)
      BY <1>6, <2>4
    <3>6. PICK g \in Nat, t \in Nat, d \in Nat, u \in Nat, v \in Nat, w \in Nat, l \in Nat :
            /\ g = Len(got[s]) /\ t = told[s] /\ d = sub[s].dropped /\ u = Len(sub[s].queue)
            /\ v = Len(sub[s].terminal) /\ w = Len(put.events) /\ l = put.lost
      BY <3>1, <3>4, <3>5
    <3>7. offered[s] = g + t + d + u + v /\ u + 1 = w + l
      BY <3>3, <3>4, <3>6
    <3>8. offered[s] + 1 = g + t + (d + l) + w + v
      BY <3>7
    <3>9. offered[s] + 1 = Len(got[s]) + told[s] + r.dropped + Len(r.queue) + Len(r.terminal)
      BY <3>5, <3>6, <3>8
    <3> QED
      BY <2>6, <3>1, <3>2, <3>9 DEF Stream!Counted
  <2> QED
    BY <1>5, <2>6, <2>7, <2>8 DEF Stream!IInv
<1> QED
  BY <1>9, <1>10, <1>11

\* The parts of the typing, and of a subscription, under their names.
LEMMA StreamTypes ==
    ASSUME Stream!IInv
    PROVE  /\ streamClosed \in BOOLEAN /\ {peers, closing} \subseteq Seq(Subscribers)
           /\ sub \in [Subscribers -> [queue : Seq(Stream!Events), terminal : Seq(Stream!Events),
                                       dropped : Nat, closed : BOOLEAN]]
           /\ sent \in [Publishers -> Nat] /\ rest \in [Publishers -> Seq(Subscribers)]
           /\ stage \in [Subscribers -> {"none", "look", "get", "leaving", "left"}]
           /\ got \in [Subscribers -> Seq(Stream!Events)]
           /\ told \in [Subscribers -> Nat] /\ offered \in [Subscribers -> Nat]
           /\ Stream!Distinct(peers) /\ \A t \in Stream!Members(peers) : stage[t] # "none"
BY DEF Stream!IInv, Stream!Typing, Stream!Once

LEMMA StreamCounts ==
    ASSUME Stream!IInv, NEW s \in Subscribers
    PROVE  \E g \in Nat, n \in Nat, d \in Nat, u \in Nat, v \in Nat :
             /\ g = Len(got[s]) /\ n = told[s] /\ d = sub[s].dropped
             /\ u = Len(sub[s].queue) /\ v = Len(sub[s].terminal)
<1>1. /\ got[s] \in Seq(Stream!Events) /\ told[s] \in Nat /\ sub[s].dropped \in Nat
      /\ sub[s].queue \in Seq(Stream!Events) /\ sub[s].terminal \in Seq(Stream!Events)
  BY StreamTypes
<1>2. /\ Len(got[s]) \in Nat /\ Len(sub[s].queue) \in Nat /\ Len(sub[s].terminal) \in Nat
  BY <1>1
<1> QED
  BY <1>1, <1>2, Zenon

\* A step that changes one subscription, or what was got from it, and no
\* publication: what is left to show is that subscription's part.
LEMMA OneSubscription ==
    ASSUME Stream!IInv, UNCHANGED <<sent, rest>>,
           streamClosed' \in BOOLEAN, peers' \in Seq(Subscribers), closing' \in Seq(Subscribers),
           Stream!Distinct(peers'), \A t \in Stream!Members(peers') : stage'[t] # "none",
           sub' \in [Subscribers -> [queue : Seq(Stream!Events), terminal : Seq(Stream!Events),
                                     dropped : Nat, closed : BOOLEAN]],
           stage' \in [Subscribers -> {"none", "look", "get", "leaving", "left"}],
           got' \in [Subscribers -> Seq(Stream!Events)],
           told' \in [Subscribers -> Nat], offered' \in [Subscribers -> Nat],
           NEW s \in Subscribers, Stream!InOrder(s)', Stream!Counted(s)',
           \A t \in Subscribers : t # s =>
             sub'[t] = sub[t] /\ got'[t] = got[t] /\ told'[t] = told[t] /\ offered'[t] = offered[t]
    PROVE  Stream!IInv'
<1>1. Stream!Typing'
  BY StreamTypes DEF Stream!Typing
<1>2. Stream!Once'
  BY DEF Stream!IInv, Stream!Once
<1>3. ASSUME NEW t \in Subscribers, t # s
      PROVE  (Stream!InOrder(t) /\ Stream!Counted(t))'
  <2>1. /\ sub'[t] = sub[t] /\ got'[t] = got[t] /\ told'[t] = told[t]
        /\ offered'[t] = offered[t]
    BY <1>3
  <2> QED
    BY <2>1, OrderKept DEF Stream!IInv, Stream!Counted
<1> QED
  BY <1>1, <1>2, <1>3 DEF Stream!IInv

LEMMA SubscribeStep ==
    ASSUME Stream!IInv, NEW s \in Subscribers, Stream!Subscribe(s)
    PROVE  Stream!IInv'
<1>1. /\ stage' = [stage EXCEPT ![s] = "look"] /\ stage[s] = "none"
      /\ UNCHANGED <<streamClosed, sent, rest, closing, got, told, offered>>
      /\ Stream!InOrder(s) /\ Stream!Counted(s)
  BY DEF Stream!Subscribe, Stream!IInv
<1>2. stage' \in [Subscribers -> {"none", "look", "get", "leaving", "left"}]
  BY <1>1, StreamTypes
<1>3. CASE streamClosed
  <2>1. PICK r : r = [Stream!Nothing EXCEPT !.queue = <<Stream!Stop>>, !.closed = TRUE]
    OBVIOUS
  <2>2. Stream!Nothing = [queue |-> <<>>, terminal |-> <<>>, dropped |-> 0, closed |-> FALSE]
    BY DEF Stream!Nothing
  <2>3. sub' = [sub EXCEPT ![s] = r] /\ peers' = peers
    BY <1>3, <2>1 DEF Stream!Subscribe
  <2>4. Stream!Stop \in Stream!Events /\ Stream!Stop.n = 0
    BY DEF Stream!Stop, Stream!Events
  <2>5. /\ r.queue = <<Stream!Stop>> /\ r.queue \in Seq(Stream!Events)
        /\ Stream!Members(r.queue) = {Stream!Stop}
        /\ r.terminal = <<>> /\ r.terminal \in Seq(Stream!Events)
        /\ Stream!Members(r.terminal) = {} /\ r.closed = TRUE
        /\ r \in [queue : Seq(Stream!Events), terminal : Seq(Stream!Events),
                  dropped : Nat, closed : BOOLEAN]
    <3>1. /\ r.queue = <<Stream!Stop>> /\ r.terminal = <<>> /\ r.dropped = 0 /\ r.closed = TRUE
      BY <2>1, <2>2
    <3>2. <<Stream!Stop>> \in Seq(Stream!Events) /\ <<>> \in Seq(Stream!Events)
      BY <2>4
    <3>3. r.queue \in Seq(Stream!Events) /\ r.terminal \in Seq(Stream!Events)
      BY <3>1, <3>2
    <3>4. r \in [queue : Seq(Stream!Events), terminal : Seq(Stream!Events),
                 dropped : Nat, closed : BOOLEAN]
      <4>1. r.dropped \in Nat /\ r.closed \in BOOLEAN
        BY <3>1, 0 \in Nat, TRUE \in BOOLEAN, Zenon
      <4>2. r = [queue |-> r.queue, terminal |-> r.terminal, dropped |-> r.dropped,
                 closed |-> r.closed]
        BY <2>1, <2>2
      <4> QED
        BY <3>3, <4>1, <4>2, Zenon
    <3>5. Stream!Members(<<Stream!Stop>>) = {Stream!Stop} /\ Stream!Members(<<>>) = {}
      BY DEF Stream!Members
    <3> QED
      BY <3>1, <3>3, <3>4, <3>5
  <2>6. /\ sub'[s] = r
        /\ sub' \in [Subscribers -> [queue : Seq(Stream!Events), terminal : Seq(Stream!Events),
                                     dropped : Nat, closed : BOOLEAN]]
        /\ \A t \in Subscribers : t # s => sub'[t] = sub[t]
    BY <2>3, <2>5, StreamTypes
  <2>7. Stream!InOrder(s)'
    <3>1. Stream!Numbered(s, Stream!Stop)'
      BY <1>1, <2>4 DEF Stream!IInv, Stream!Typing, Stream!Once, Stream!Numbered, Stream!Members
    <3>2. \A x \in Stream!Members(got[s]) : Stream!Numbered(s, x)'
      BY <1>1 DEF Stream!InOrder, Stream!Numbered
    <3>3. Stream!Ordered(r.queue) /\ Stream!Ordered(r.terminal)
      BY <2>4, <2>5 DEF Stream!Ordered, Stream!Grows
    <3>4. \A x \in Stream!Members(got[s]) : x.n > 0 /\ Stream!Grows(x, Stream!Stop)
      BY <1>1, <2>4 DEF Stream!InOrder, Stream!Grows
    <3>5. got'[s] = got[s] /\ Stream!Ordered(got[s])
      BY <1>1 DEF Stream!InOrder
    <3> QED
      BY <2>4, <2>5, <2>6, <3>1, <3>2, <3>3, <3>4, <3>5 DEF Stream!InOrder
  <2>8. Stream!Counted(s)'
    BY <2>5, <2>6 DEF Stream!Counted
  <2>9. \A t \in Stream!Members(peers') : stage'[t] # "none"
    BY <1>1, <2>3, StreamTypes
  <2> QED
    BY <1>1, <1>2, <2>3, <2>6, <2>7, <2>8, <2>9, OneSubscription, StreamTypes
<1>4. CASE ~streamClosed
  <2>1. peers' = Append(peers, s) /\ UNCHANGED sub
    BY <1>4 DEF Stream!Subscribe
  <2>2. s \notin Stream!Members(peers)
    BY <1>1, StreamTypes
  <2>3. /\ peers' \in Seq(Subscribers) /\ Stream!Distinct(peers')
        /\ Stream!Members(peers') = Stream!Members(peers) \cup {s}
    BY <2>1, <2>2, MembersOfAppend, StreamTypes
  <2>4. \A t \in Stream!Members(peers') : stage'[t] # "none"
    BY <1>1, <2>3, StreamTypes
  <2>5. Stream!InOrder(s)' /\ Stream!Counted(s)'
    BY <1>1, <2>1, OrderKept DEF Stream!Counted
  <2> QED
    BY <1>1, <1>2, <2>1, <2>3, <2>4, <2>5, OneSubscription, StreamTypes
<1> QED
  BY <1>3, <1>4

LEMMA UnsubscribeStep ==
    ASSUME Stream!IInv, NEW s \in Subscribers, Stream!Unsubscribe(s)
    PROVE  Stream!IInv'
<1>1. /\ stage' = [stage EXCEPT ![s] = "left"] /\ peers' = Stream!Without(peers, s)
      /\ sub' = [sub EXCEPT ![s].closed = TRUE]
      /\ UNCHANGED <<streamClosed, sent, rest, closing, got, told, offered>>
      /\ Stream!InOrder(s) /\ Stream!Counted(s)
  BY DEF Stream!Unsubscribe, Stream!IInv
<1>2. /\ sub' \in [Subscribers -> [queue : Seq(Stream!Events), terminal : Seq(Stream!Events),
                                   dropped : Nat, closed : BOOLEAN]]
      /\ sub'[s].queue = sub[s].queue /\ sub'[s].terminal = sub[s].terminal /\ sub'[s].closed
      /\ \A t \in Subscribers : t # s => sub'[t] = sub[t]
  BY <1>1, StreamTypes
<1>3. stage' \in [Subscribers -> {"none", "look", "get", "leaving", "left"}]
  BY <1>1, StreamTypes
<1>4. /\ peers' \in Seq(Subscribers) /\ Stream!Distinct(peers')
      /\ Stream!Members(peers') \subseteq Stream!Members(peers)
  BY <1>1, MembersOfWithout, StreamTypes
<1>5. \A t \in Stream!Members(peers') : stage'[t] # "none"
  BY <1>1, <1>4, StreamTypes
<1>6. Stream!InOrder(s)'
  BY <1>1, <1>2, OrderKept
<1>7. Stream!Counted(s)'
  BY <1>2 DEF Stream!Counted
<1> QED
  BY <1>1, <1>2, <1>3, <1>4, <1>5, <1>6, <1>7, OneSubscription, StreamTypes

LEMMA PublishStep ==
    ASSUME Stream!IInv, NEW p \in Publishers, Stream!Publish(p)
    PROVE  Stream!IInv'
<1>1. /\ rest[p] = <<>> /\ sent' = [sent EXCEPT ![p] = @ + 1]
      /\ rest' = [rest EXCEPT ![p] = peers]
      /\ UNCHANGED <<streamClosed, peers, sub, closing, stage, got, told, offered>>
  BY DEF Stream!Publish
<1>2. /\ sent \in [Publishers -> Nat] /\ rest \in [Publishers -> Seq(Subscribers)]
      /\ peers \in Seq(Subscribers)
  BY DEF Stream!IInv, Stream!Typing
<1>3. /\ sent' \in [Publishers -> Nat] /\ rest' \in [Publishers -> Seq(Subscribers)]
      /\ sent'[p] = sent[p] + 1 /\ sent[p] \in Nat /\ rest'[p] = peers
      /\ \A x \in Publishers : x # p => sent'[x] = sent[x] /\ rest'[x] = rest[x]
  BY <1>1, <1>2
<1>4. Stream!Typing'
  BY <1>1, <1>3 DEF Stream!IInv, Stream!Typing
<1>5. Stream!Once'
  BY <1>1, <1>2, <1>3 DEF Stream!IInv, Stream!Once
<1>6. ASSUME NEW s \in Subscribers
      PROVE  (Stream!InOrder(s) /\ Stream!Counted(s))'
  <2>1. ASSUME NEW x \in Stream!Events, Stream!Numbered(s, x)
        PROVE  Stream!Numbered(s, x)'
    <3>1. x.n \in Nat
      BY DEF Stream!Events
    <3>2. CASE x.by = p
      BY <1>3, <2>1, <3>1, <3>2 DEF Stream!Numbered
    <3>3. CASE x.by # p
      BY <1>3, <2>1, <3>3 DEF Stream!Numbered
    <3> QED
      BY <3>2, <3>3
  <2>2. \A x \in Stream!Members(got[s]) \cup Stream!Members(sub[s].queue)
                 \cup Stream!Members(sub[s].terminal) : x \in Stream!Events
    BY StreamTypes DEF Stream!Members
  <2> QED
    BY <1>1, <2>1, <2>2 DEF Stream!IInv, Stream!InOrder, Stream!Counted
<1> QED
  BY <1>4, <1>5, <1>6 DEF Stream!IInv

LEMMA OfferTooLargeStep ==
    ASSUME Stream!IInv, NEW p \in Publishers, Stream!OfferTooLarge(p)
    PROVE  Stream!IInv'
<1>1. PICK s \in Subscribers :
        /\ s = Head(rest[p]) /\ ~sub[s].closed /\ rest' = [rest EXCEPT ![p] = Tail(@)]
        /\ sub' = [sub EXCEPT ![s].dropped = @ + 1]
        /\ offered' = [offered EXCEPT ![s] = @ + 1]
        /\ Tail(rest[p]) \in Seq(Subscribers) /\ Stream!Distinct(Tail(rest[p]))
        /\ Stream!Members(Tail(rest[p])) \subseteq Stream!Members(rest[p]) /\ rest[p] # <<>>
        /\ UNCHANGED <<streamClosed, peers, sent, closing, stage, got, told>>
  BY OfferedIsLatest DEF Stream!OfferTooLarge
<1>2. /\ rest' \in [Publishers -> Seq(Subscribers)] /\ rest'[p] = Tail(rest[p])
      /\ \A r \in Publishers : r # p => rest'[r] = rest[r]
  BY <1>1, StreamTypes
<1>3. /\ sub' \in [Subscribers -> [queue : Seq(Stream!Events), terminal : Seq(Stream!Events),
                                   dropped : Nat, closed : BOOLEAN]]
      /\ sub'[s].queue = sub[s].queue /\ sub'[s].terminal = sub[s].terminal
      /\ sub'[s].closed = sub[s].closed /\ sub'[s].dropped = sub[s].dropped + 1
      /\ \A t \in Subscribers : t # s => sub'[t] = sub[t]
  <2>1. sub[s].dropped + 1 \in Nat
    BY StreamTypes
  <2> QED
    BY <1>1, <2>1, StreamTypes
<1>4. /\ offered' \in [Subscribers -> Nat] /\ offered'[s] = offered[s] + 1
      /\ \A t \in Subscribers : t # s => offered'[t] = offered[t]
  <2>1. offered[s] + 1 \in Nat
    BY StreamTypes
  <2> QED
    BY <1>1, <2>1, StreamTypes
<1>5. Stream!Typing'
  BY <1>1, <1>2, <1>3, <1>4, StreamTypes DEF Stream!Typing
<1>6. Stream!Once'
  BY <1>1, <1>2 DEF Stream!IInv, Stream!Once
<1>7. \A t \in Subscribers : Stream!InOrder(t)'
  <2>1. \A r \in Publishers : Stream!Members(rest'[r]) \subseteq Stream!Members(rest[r])
    BY <1>1, <1>2
  <2> QED
    BY <1>1, <1>3, <2>1, OrderKept DEF Stream!IInv
<1>8. \A t \in Subscribers : t # s => Stream!Counted(t)'
  BY SMTT(30), <1>1, <1>3, <1>4 DEF Stream!IInv, Stream!Counted
<1>9. Stream!Counted(s)'
  <2>1. /\ \A e \in Stream!Members(sub[s].queue) : e.n > 0
        /\ offered[s] = Len(got[s]) + told[s] + sub[s].dropped
                        + Len(sub[s].queue) + Len(sub[s].terminal)
    BY <1>1 DEF Stream!IInv, Stream!Counted
  <2>2. PICK g \in Nat, n \in Nat, d \in Nat, u \in Nat, v \in Nat :
          /\ g = Len(got[s]) /\ n = told[s] /\ d = sub[s].dropped
          /\ u = Len(sub[s].queue) /\ v = Len(sub[s].terminal)
    BY StreamCounts
  <2>3. offered[s] = g + n + d + u + v
    BY <2>1, <2>2
  <2>4. offered[s] + 1 = g + n + (d + 1) + u + v
    BY <2>3
  <2> QED
    BY <1>1, <1>3, <1>4, <2>1, <2>2, <2>4 DEF Stream!Counted
<1> QED
  BY <1>5, <1>6, <1>7, <1>8, <1>9 DEF Stream!IInv

LEMMA LookStep ==
    ASSUME Stream!IInv, NEW s \in Subscribers, Stream!Look(s)
    PROVE  Stream!IInv'
<1>1. /\ UNCHANGED <<streamClosed, peers, sent, rest, closing, got, offered>>
      /\ stage[s] = "look" /\ Stream!InOrder(s) /\ Stream!Counted(s)
  BY DEF Stream!Look, Stream!IInv
<1>2. CASE sub[s].closed
  <2>1. stage' = [stage EXCEPT ![s] = "leaving"] /\ UNCHANGED <<sub, told>>
    BY <1>2 DEF Stream!Look
  <2>2. /\ stage' \in [Subscribers -> {"none", "look", "get", "leaving", "left"}]
        /\ \A t \in Stream!Members(peers') : stage'[t] # "none"
    BY <1>1, <2>1, StreamTypes
  <2>3. Stream!InOrder(s)' /\ Stream!Counted(s)'
    BY <1>1, <2>1, OrderKept DEF Stream!Counted
  <2> QED
    BY <1>1, <2>1, <2>2, <2>3, OneSubscription, StreamTypes
<1>3. CASE ~sub[s].closed
  <2>1. /\ told' = [told EXCEPT ![s] = @ + sub[s].dropped]
        /\ sub' = [sub EXCEPT ![s].dropped = 0] /\ stage' = [stage EXCEPT ![s] = "get"]
    BY <1>3 DEF Stream!Look
  <2>2. /\ stage' \in [Subscribers -> {"none", "look", "get", "leaving", "left"}]
        /\ \A t \in Stream!Members(peers') : stage'[t] # "none"
    BY <1>1, <2>1, StreamTypes
  <2>3. /\ sub' \in [Subscribers -> [queue : Seq(Stream!Events), terminal : Seq(Stream!Events),
                                     dropped : Nat, closed : BOOLEAN]]
        /\ sub'[s].queue = sub[s].queue /\ sub'[s].terminal = sub[s].terminal
        /\ sub'[s].closed = sub[s].closed /\ sub'[s].dropped = 0
        /\ \A t \in Subscribers : t # s => sub'[t] = sub[t]
    BY <2>1, StreamTypes
  <2>4. /\ told' \in [Subscribers -> Nat] /\ told'[s] = told[s] + sub[s].dropped
        /\ \A t \in Subscribers : t # s => told'[t] = told[t]
    BY <2>1, StreamTypes
  <2>5. Stream!InOrder(s)'
    BY <1>1, <2>3, OrderKept
  <2>6. Stream!Counted(s)'
    <3>1. /\ \A e \in Stream!Members(sub[s].queue) : e.n > 0
          /\ offered[s] = Len(got[s]) + told[s] + sub[s].dropped
                          + Len(sub[s].queue) + Len(sub[s].terminal)
      BY <1>1, <1>3 DEF Stream!Counted
    <3>2. PICK g \in Nat, n \in Nat, d \in Nat, u \in Nat, v \in Nat :
            /\ g = Len(got[s]) /\ n = told[s] /\ d = sub[s].dropped
            /\ u = Len(sub[s].queue) /\ v = Len(sub[s].terminal)
      BY StreamCounts
    <3>3. offered[s] = g + n + d + u + v
      BY <3>1, <3>2
    <3>4. offered[s] = g + (n + d) + 0 + u + v
      BY <3>3
    <3> QED
      BY <1>1, <2>3, <2>4, <3>1, <3>2, <3>4 DEF Stream!Counted
  <2> QED
    BY <1>1, <2>2, <2>3, <2>4, <2>5, <2>6, OneSubscription, StreamTypes
<1> QED
  BY <1>2, <1>3

\* Only the stage of one stream changes.
LEMMA StageStep ==
    ASSUME Stream!IInv, NEW s \in Subscribers, Stream!GetNothing(s) \/ Stream!PeerGone(s)
    PROVE  Stream!IInv'
<1>1. /\ UNCHANGED <<streamClosed, peers, sub, sent, rest, closing, got, told, offered>>
      /\ \E a \in {"look", "leaving"} : stage' = [stage EXCEPT ![s] = a]
      /\ Stream!InOrder(s) /\ Stream!Counted(s)
  BY DEF Stream!GetNothing, Stream!PeerGone, Stream!IInv
<1>2. /\ stage' \in [Subscribers -> {"none", "look", "get", "leaving", "left"}]
      /\ \A t \in Subscribers : stage[t] # "none" => stage'[t] # "none"
  BY <1>1, StreamTypes
<1>3. Stream!InOrder(s)' /\ Stream!Counted(s)'
  BY <1>1, OrderKept DEF Stream!Counted
<1>4. \A t \in Stream!Members(peers') : stage'[t] # "none"
  <2>1. \A t \in Stream!Members(peers) : t \in Subscribers /\ stage[t] # "none"
    BY StreamTypes DEF Stream!Members
  <2> QED
    BY <1>1, <1>2, <2>1
<1> QED
  BY <1>1, <1>2, <1>3, <1>4, OneSubscription, StreamTypes

LEMMA CloseStep ==
    ASSUME Stream!IInv, Stream!Close
    PROVE  Stream!IInv'
<1>1. /\ streamClosed' = TRUE /\ closing' = peers /\ peers' = <<>>
      /\ UNCHANGED <<sub, sent, rest, stage, got, told, offered>>
  BY DEF Stream!Close
<1>2. Stream!Members(<<>>) = {} /\ Stream!Distinct(<<>>) /\ <<>> \in Seq(Subscribers)
  BY DEF Stream!Members, Stream!Distinct
<1>3. Stream!Typing'
  BY <1>1, <1>2, StreamTypes DEF Stream!Typing
<1>4. Stream!Once'
  BY <1>1, <1>2 DEF Stream!IInv, Stream!Once
<1>5. \A s \in Subscribers : (Stream!InOrder(s) /\ Stream!Counted(s))'
  BY <1>1, OrderKept DEF Stream!IInv, Stream!Counted
<1> QED
  BY <1>3, <1>4, <1>5 DEF Stream!IInv

LEMMA CloseSubscriptionStep ==
    ASSUME Stream!IInv, Stream!CloseSubscription
    PROVE  Stream!IInv'
<1>1. PICK s \in Subscribers : s = Head(closing)
  BY StreamTypes, MembersOfTail DEF Stream!CloseSubscription
<1>2. closing # <<>> /\ closing \in Seq(Subscribers) /\ Tail(closing) \in Seq(Subscribers)
  BY StreamTypes, MembersOfTail DEF Stream!CloseSubscription
<1>3. PICK put : put = Stream!Put(sub[s].queue, Stream!Stop, QueueLimit)
  OBVIOUS
<1>4. /\ UNCHANGED <<streamClosed, peers, sent, rest, stage, got, told, offered>>
      /\ closing' = Tail(closing)
      /\ sub' = [sub EXCEPT ![s].closed = TRUE, ![s].queue = put.events]
      /\ Stream!InOrder(s)
  BY <1>1, <1>3 DEF Stream!CloseSubscription, Stream!IInv
<1>5. Stream!Stop \in Stream!Events /\ Stream!Stop.n = 0
  BY DEF Stream!Stop, Stream!Events
<1>6. \A x : Stream!Grows(x, Stream!Stop)
  BY <1>5 DEF Stream!Grows
<1>7. /\ put.events \in Seq(Stream!Events) /\ Stream!Ordered(put.events)
      /\ Stream!Members(put.events) \subseteq Stream!Members(sub[s].queue) \cup {Stream!Stop}
  <2>1. sub[s].queue \in Seq(Stream!Events) /\ QueueLimit \in Nat \ {0}
    BY StreamTypes, StreamParameters DEF Stream!StreamAssumption
  <2>2. Stream!Ordered(sub[s].queue)
    BY <1>4 DEF Stream!InOrder
  <2> QED
    BY <1>3, <1>5, <1>6, <2>1, <2>2, PutKeeps
<1>8. /\ sub' \in [Subscribers -> [queue : Seq(Stream!Events), terminal : Seq(Stream!Events),
                                   dropped : Nat, closed : BOOLEAN]]
      /\ sub'[s].queue = put.events /\ sub'[s].terminal = sub[s].terminal /\ sub'[s].closed
      /\ \A t \in Subscribers : t # s => sub'[t] = sub[t]
  BY <1>4, <1>7, StreamTypes
<1>9. Stream!InOrder(s)'
  <2>1. Stream!Numbered(s, Stream!Stop)
    BY <1>5 DEF Stream!IInv, Stream!Typing, Stream!Once, Stream!Numbered, Stream!Members
  <2>2. \A x \in Stream!Members(got[s]) \cup Stream!Members(put.events)
                 \cup Stream!Members(sub[s].terminal) : Stream!Numbered(s, x)'
    BY <1>4, <1>7, <2>1 DEF Stream!InOrder, Stream!Numbered
  <2>3. /\ \A x \in Stream!Members(got[s]), f \in Stream!Members(put.events) : Stream!Grows(x, f)
        /\ \A x \in Stream!Members(put.events) : x.n = 0 \/ x.by \notin Terminals
    BY <1>4, <1>5, <1>6, <1>7 DEF Stream!InOrder
  <2> QED
    BY <1>4, <1>7, <1>8, <2>2, <2>3 DEF Stream!InOrder
<1>10. Stream!Counted(s)'
  BY <1>8 DEF Stream!Counted
<1> QED
  BY <1>2, <1>4, <1>8, <1>9, <1>10, OneSubscription, StreamTypes

\* The oldest event of the queue, or else of the terminal outputs, is written.
LEMMA GetStep ==
    ASSUME Stream!IInv, NEW s \in Subscribers, Stream!Get(s)
    PROVE  Stream!IInv'
<1>1. /\ UNCHANGED <<streamClosed, peers, sent, rest, closing, told, offered>>
      /\ stage[s] = "get" /\ stage' = [stage EXCEPT ![s] = "look"]
      /\ Stream!InOrder(s) /\ Stream!Counted(s)
  BY DEF Stream!Get, Stream!IInv
<1>2. /\ stage' \in [Subscribers -> {"none", "look", "get", "leaving", "left"}]
      /\ \A t \in Stream!Members(peers') : stage'[t] # "none"
  BY <1>1, StreamTypes
<1>3. /\ got[s] \in Seq(Stream!Events) /\ sub[s].queue \in Seq(Stream!Events)
      /\ sub[s].terminal \in Seq(Stream!Events)
  BY StreamTypes
<1>4. \A e \in Stream!Events : Stream!Numbered(s, e) => Stream!Numbered(s, e)'
  BY <1>1 DEF Stream!Numbered
<1>5. \A q \in Seq(Stream!Events) : Stream!Members(q) \subseteq Stream!Events
  BY DEF Stream!Members
<1>6. PICK g \in Nat, n \in Nat, d \in Nat, u \in Nat, v \in Nat :
        /\ g = Len(got[s]) /\ n = told[s] /\ d = sub[s].dropped
        /\ u = Len(sub[s].queue) /\ v = Len(sub[s].terminal)
  BY StreamCounts
<1>7. CASE sub[s].queue # <<>>
  <2>1. PICK h \in Stream!Events, q \in Seq(Stream!Events) :
          /\ h = Head(sub[s].queue) /\ q = Tail(sub[s].queue)
          /\ h \in Stream!Members(sub[s].queue)
          /\ Stream!Members(q) \subseteq Stream!Members(sub[s].queue)
          /\ Stream!Ordered(q) /\ (\A f \in Stream!Members(q) : Stream!Grows(h, f))
          /\ Len(sub[s].queue) = Len(q) + 1
    <3>1. Stream!Ordered(sub[s].queue)
      BY <1>1 DEF Stream!InOrder
    <3>2. /\ Tail(sub[s].queue) \in Seq(Stream!Events) /\ Head(sub[s].queue) \in Stream!Events
          /\ Head(sub[s].queue) \in Stream!Members(sub[s].queue)
          /\ Stream!Members(Tail(sub[s].queue)) \subseteq Stream!Members(sub[s].queue)
          /\ Stream!Ordered(Tail(sub[s].queue))
          /\ \A f \in Stream!Members(Tail(sub[s].queue)) : Stream!Grows(Head(sub[s].queue), f)
          /\ Len(sub[s].queue) = Len(Tail(sub[s].queue)) + 1
      BY <1>3, <1>7, <3>1, MembersOfTail
    <3> QED
      BY <3>2, Zenon
  <2>2. /\ sub' = [sub EXCEPT ![s].queue = q]
        /\ got' = IF h = Stream!Stop THEN got ELSE [got EXCEPT ![s] = Append(@, h)]
    BY <1>7, <2>1 DEF Stream!Get
  <2>3. /\ sub' \in [Subscribers -> [queue : Seq(Stream!Events), terminal : Seq(Stream!Events),
                                     dropped : Nat, closed : BOOLEAN]]
        /\ sub'[s].queue = q /\ sub'[s].terminal = sub[s].terminal
        /\ sub'[s].closed = sub[s].closed /\ sub'[s].dropped = sub[s].dropped
        /\ \A t \in Subscribers : t # s => sub'[t] = sub[t]
    BY <2>2, StreamTypes
  <2>4. CASE h = Stream!Stop
    <3>1. got' = got
      BY <2>2, <2>4
    <3>2. Stream!InOrder(s)'
      BY <1>1, <1>3, <1>4, <1>5, <2>1, <2>3, <3>1 DEF Stream!InOrder
    <3>3. Stream!Counted(s)'
      BY <1>1, <2>1, <2>3, <2>4, <3>1 DEF Stream!Counted, Stream!Stop
    <3> QED
      BY <1>1, <1>2, <2>3, <3>1, <3>2, <3>3, OneSubscription, StreamTypes
  <2>5. CASE h # Stream!Stop
    <3>1. Append(got[s], h) \in Seq(Stream!Events)
      BY <1>3
    <3>2. /\ got' \in [Subscribers -> Seq(Stream!Events)] /\ got'[s] = Append(got[s], h)
          /\ \A t \in Subscribers : t # s => got'[t] = got[t]
      BY <2>2, <2>5, <3>1, StreamTypes
    <3>3. h.n > 0 /\ Stream!Numbered(s, h) /\ h.by \notin Terminals
      BY <1>1, <2>1, <2>5 DEF Stream!InOrder, Stream!Numbered, Stream!Events
    <3>4. \A x \in Stream!Members(got[s]) : Stream!Grows(x, h)
      BY <1>1, <2>1 DEF Stream!InOrder
    <3>5. /\ Stream!Members(got'[s]) = Stream!Members(got[s]) \cup {h}
          /\ Len(got'[s]) = Len(got[s]) + 1 /\ Stream!Ordered(got'[s])
      BY <1>1, <1>3, <3>2, <3>4, MembersOfAppend DEF Stream!InOrder
    <3>6. \A f \in Stream!Members(sub[s].terminal) : Stream!Grows(h, f)
      BY <1>1, <3>3 DEF Stream!InOrder, Stream!Grows
    <3>7. Stream!InOrder(s)'
      BY <1>1, <1>3, <1>4, <1>5, <2>1, <2>3, <3>3, <3>5, <3>6 DEF Stream!InOrder
    <3>8. ASSUME ~sub[s].closed
          PROVE  offered[s] = Len(got'[s]) + told[s] + sub[s].dropped + Len(q)
                              + Len(sub[s].terminal)
      <4>1. offered[s] = g + n + d + u + v
        BY <1>1, <1>6, <3>8 DEF Stream!Counted
      <4>2. PICK w \in Nat : w = Len(q)
        OBVIOUS
      <4>3. u = w + 1
        BY <1>6, <2>1, <4>2
      <4>4. offered[s] = (g + 1) + n + d + w + v
        BY <4>1, <4>3
      <4> QED
        BY <1>6, <3>5, <4>2, <4>4
    <3>9. Stream!Counted(s)'
      BY <1>1, <2>1, <2>3, <3>8 DEF Stream!Counted
    <3> QED
      BY <1>1, <1>2, <2>3, <3>2, <3>7, <3>9, OneSubscription, StreamTypes
  <2> QED
    BY <2>4, <2>5
<1>8. CASE sub[s].queue = <<>>
  <2>1. sub[s].terminal # <<>>
    BY <1>8 DEF Stream!Get
  <2>2. PICK h \in Stream!Events, q \in Seq(Stream!Events) :
          /\ h = Head(sub[s].terminal) /\ q = Tail(sub[s].terminal)
          /\ h \in Stream!Members(sub[s].terminal)
          /\ Stream!Members(q) \subseteq Stream!Members(sub[s].terminal)
          /\ Stream!Ordered(q) /\ (\A f \in Stream!Members(q) : Stream!Grows(h, f))
          /\ Len(sub[s].terminal) = Len(q) + 1
    <3>1. Stream!Ordered(sub[s].terminal)
      BY <1>1 DEF Stream!InOrder
    <3>2. /\ Tail(sub[s].terminal) \in Seq(Stream!Events) /\ Head(sub[s].terminal) \in Stream!Events
          /\ Head(sub[s].terminal) \in Stream!Members(sub[s].terminal)
          /\ Stream!Members(Tail(sub[s].terminal)) \subseteq Stream!Members(sub[s].terminal)
          /\ Stream!Ordered(Tail(sub[s].terminal))
          /\ \A f \in Stream!Members(Tail(sub[s].terminal)) : Stream!Grows(Head(sub[s].terminal), f)
          /\ Len(sub[s].terminal) = Len(Tail(sub[s].terminal)) + 1
      BY <1>3, <2>1, <3>1, MembersOfTail
    <3> QED
      BY <3>2, Zenon
  <2>3. /\ sub' = [sub EXCEPT ![s].terminal = q]
        /\ got' = [got EXCEPT ![s] = Append(@, h)]
    BY <1>8, <2>2 DEF Stream!Get
  <2>4. /\ sub' \in [Subscribers -> [queue : Seq(Stream!Events), terminal : Seq(Stream!Events),
                                     dropped : Nat, closed : BOOLEAN]]
        /\ sub'[s].queue = sub[s].queue /\ sub'[s].terminal = q
        /\ sub'[s].closed = sub[s].closed /\ sub'[s].dropped = sub[s].dropped
        /\ \A t \in Subscribers : t # s => sub'[t] = sub[t]
    BY <2>3, StreamTypes
  <2>5. Append(got[s], h) \in Seq(Stream!Events)
    BY <1>3
  <2>6. /\ got' \in [Subscribers -> Seq(Stream!Events)] /\ got'[s] = Append(got[s], h)
        /\ \A t \in Subscribers : t # s => got'[t] = got[t]
    BY <2>3, <2>5, StreamTypes
  <2>7. h.n > 0 /\ Stream!Numbered(s, h)
    BY <1>1, <2>2 DEF Stream!InOrder
  <2>8. \A x \in Stream!Members(got[s]) : Stream!Grows(x, h)
    BY <1>1, <2>2 DEF Stream!InOrder
  <2>9. /\ Stream!Members(got'[s]) = Stream!Members(got[s]) \cup {h}
        /\ Len(got'[s]) = Len(got[s]) + 1 /\ Stream!Ordered(got'[s])
    BY <1>1, <1>3, <2>6, <2>8, MembersOfAppend DEF Stream!InOrder
  <2>10. Stream!Members(sub[s].queue) = {}
    BY <1>8 DEF Stream!Members
  <2>11. Stream!InOrder(s)'
    BY <1>1, <1>3, <1>4, <1>5, <2>2, <2>4, <2>7, <2>9, <2>10 DEF Stream!InOrder
  <2>12. ASSUME ~sub[s].closed
         PROVE  offered[s] = Len(got'[s]) + told[s] + sub[s].dropped + Len(sub[s].queue) + Len(q)
    <3>1. offered[s] = g + n + d + u + v
      BY <1>1, <1>6, <2>12 DEF Stream!Counted
    <3>2. PICK w \in Nat : w = Len(q)
      OBVIOUS
    <3>3. v = w + 1
      BY <1>6, <2>2, <3>2
    <3>4. offered[s] = (g + 1) + n + d + u + w
      BY <3>1, <3>3
    <3> QED
      BY <1>6, <2>9, <3>2, <3>4
  <2>13. Stream!Counted(s)'
    BY <1>1, <2>4, <2>10, <2>12 DEF Stream!Counted
  <2> QED
    BY <1>1, <1>2, <2>4, <2>6, <2>11, <2>13, OneSubscription, StreamTypes
<1> QED
  BY <1>7, <1>8

LEMMA StreamStep ==
    ASSUME Stream!IInv, [Stream!Next]_streamVars
    PROVE  Stream!IInv'
<1>1. CASE UNCHANGED streamVars
  <2>1. Stream!Typing'
    BY <1>1 DEF streamVars, Stream!IInv, Stream!Typing
  <2>2. Stream!Once'
    BY <1>1 DEF streamVars, Stream!IInv, Stream!Once
  <2>3. \A s \in Subscribers : (Stream!InOrder(s) /\ Stream!Counted(s))'
    BY <1>1, OrderKept DEF streamVars, Stream!IInv, Stream!Counted
  <2> QED
    BY <2>1, <2>2, <2>3 DEF Stream!IInv
<1>2. CASE Stream!Close
  BY <1>2, CloseStep
<1>3. CASE Stream!CloseSubscription
  BY <1>3, CloseSubscriptionStep
<1>4. ASSUME NEW p \in Publishers,
             Stream!Publish(p) \/ Stream!Offer(p) \/ Stream!OfferTooLarge(p)
      PROVE  Stream!IInv'
  BY <1>4, PublishStep, OfferStep, OfferTooLargeStep
<1>5. ASSUME NEW s \in Subscribers,
             \/ Stream!Subscribe(s) \/ Stream!Unsubscribe(s) \/ Stream!Look(s)
             \/ Stream!Get(s) \/ Stream!GetNothing(s) \/ Stream!PeerGone(s)
      PROVE  Stream!IInv'
  BY <1>5, SubscribeStep, UnsubscribeStep, LookStep, GetStep, StageStep
<1> QED
  BY <1>1, <1>2, <1>3, <1>4, <1>5 DEF Stream!Next

LEMMA StreamInvariant == Spec => [](part = "stream" => Stream!IInv)
<1>1. Init => (part = "stream" => Stream!IInv)
  BY StreamInit
<1>2. (part = "stream" => Stream!IInv) /\ [Next]_vars => (part = "stream" => Stream!IInv)'
  BY OnePartMoves, StreamStep
<1> QED
  BY <1>1, <1>2, PTL DEF Spec

\* However many threads publish, and however subscribers come, lag and leave
\* while the host closes: what a subscription that stays was offered is what
\* it got, was told it lost or still has in its queues, in each thread's order
\* (broker.py, server.py).
THEOREM EventsAreGotOrTold == Spec => []LossesAreTold
<1>1. (part = "stream" => Stream!IInv) => LossesAreTold
  <2> SUFFICES ASSUME Stream!IInv
               PROVE  Stream!LossesAreTold
    BY DEF LossesAreTold
  <2>1. ASSUME NEW s \in Subscribers
        PROVE  \A i, j \in DOMAIN got[s] :
                 i < j /\ got[s][i].by = got[s][j].by => got[s][i].n < got[s][j].n
    <3>1. /\ Stream!Ordered(got[s])
          /\ \A i \in DOMAIN got[s] : got[s][i].n > 0
      BY DEF Stream!IInv, Stream!InOrder, Stream!Members
    <3> QED
      BY <3>1 DEF Stream!Ordered, Stream!Grows
  <2> QED
    BY <2>1 DEF Stream!IInv, Stream!Counted, Stream!LossesAreTold
<1> QED
  BY <1>1, StreamInvariant, PTL

-----------------------------------------------------------------------------
(* Policies, for any ceilings, roles, trees and lines.                      *)
(*                                                                          *)
(* The invariant (Policy!IInv) is that the owner's limits of every policy   *)
(* are within the ceiling of its time (Bounded).  CapabilityCeiling.bound   *)
(* makes a policy so; narrowing, a worktree, a mode, hosts that come or go  *)
(* and the policies of spec runs keep it so, since they never widen the     *)
(* owner's limits.  A policy within a ceiling allows nothing and asks for   *)
(* nothing that the ceiling excludes.                                       *)

(* What both of two policies allow.                                         *)

LEMMA PolicyFacts ==
    /\ Below \in [Dirs \cup Words -> SUBSET (Dirs \cup Words)]
    /\ \A x, y, z \in Dirs \cup Words : y \in Below[x] /\ z \in Below[y] => z \in Below[x]
    /\ \A w \in Words : Empty \in Below[w] => w = Empty
    /\ Top \in Dirs /\ Empty \in Words
    /\ Stored \subseteq Hosts /\ Configured \subseteq Hosts /\ Folders \subseteq Dirs
    /\ Lines \subseteq SUBSET [argv : Words, writes : BOOLEAN]
    /\ Roles \subseteq Policy!PolicyRecords
    /\ Ceilings \subseteq
         [scope : {None} \cup SUBSET Policy!Places, modes : (SUBSET Policy!Modes) \ {{}},
          shellOn : {None} \cup BOOLEAN, shellList : {None} \cup SUBSET Words,
          fetchOn : {None} \cup BOOLEAN, fetchList : {None} \cup SUBSET Hosts]
    /\ None # Same /\ None \notin Policy!PolicyRecords /\ Same \notin Policy!PolicyRecords
    /\ None \notin SUBSET Policy!Places /\ None \notin SUBSET Words /\ None \notin SUBSET Hosts
<1>1. Policy!PolicyAssumption
  BY PolicyParameters
<1>2. /\ None \notin SUBSET Policy!Places /\ None \notin SUBSET Words /\ None \notin SUBSET Hosts
  BY <1>1 DEF Policy!PolicyAssumption
<1>3. None # Same /\ None \notin Policy!PolicyRecords /\ Same \notin Policy!PolicyRecords
  BY <1>1 DEF Policy!PolicyAssumption
<1> QED
  BY <1>1, <1>2, <1>3 DEF Policy!PolicyAssumption

LEMMA WordsAre == Empty \in Words /\ \A line \in Lines : \A e \in line : e.argv \in Words
<1>1. Empty \in Words /\ Lines \subseteq SUBSET [argv : Words, writes : BOOLEAN]
  BY PolicyFacts
<1>2. \A e \in [argv : Words, writes : BOOLEAN] : e.argv \in Words
  OBVIOUS
<1> QED
  BY <1>1, <1>2

LEMMA PlacesAre ==
    ASSUME NEW x \in Policy!Places
    PROVE  x.tree \in Policy!Trees /\ x.dir \in Dirs
BY DEF Policy!Places

LEMMA CoversOnward ==
    ASSUME NEW a \in SUBSET Policy!Places, NEW x \in Policy!Places, NEW y \in Policy!Places,
           Policy!Covers(a, y), x.tree = y.tree, x.dir \in Below[y.dir]
    PROVE  Policy!Covers(a, x)
<1>1. PICK s \in a : s.tree = y.tree /\ y.dir \in Below[s.dir]
  BY DEF Policy!Covers
<1>2. s.dir \in Dirs /\ y.dir \in Dirs /\ x.dir \in Dirs
  BY PlacesAre
<1>3. x.dir \in Below[s.dir]
  BY <1>1, <1>2, PolicyFacts
<1> QED
  BY <1>1, <1>3 DEF Policy!Covers

LEMMA ScopesMeet ==
    ASSUME NEW a \in SUBSET Policy!Places, NEW b \in SUBSET Policy!Places
    PROVE  /\ Policy!MeetScopes(a, b) \in SUBSET Policy!Places
           /\ \A x \in Policy!Places : Policy!Covers(Policy!MeetScopes(a, b), x)
                                         => Policy!Covers(a, x) /\ Policy!Covers(b, x)
<1>1. Policy!MeetScopes(a, b) \in SUBSET Policy!Places
  BY DEF Policy!MeetScopes
<1> SUFFICES ASSUME NEW x \in Policy!Places, Policy!Covers(Policy!MeetScopes(a, b), x)
             PROVE  Policy!Covers(a, x) /\ Policy!Covers(b, x)
  BY <1>1
<1>2. PICK s \in Policy!MeetScopes(a, b) : s.tree = x.tree /\ x.dir \in Below[s.dir]
  BY DEF Policy!Covers
<1>3. s \in Policy!Places
  BY <1>1, <1>2
<1>4. s \in a \/ Policy!Covers(a, s)
  BY <1>2 DEF Policy!MeetScopes
<1>5. s \in b \/ Policy!Covers(b, s)
  BY <1>2 DEF Policy!MeetScopes
<1>6. Policy!Covers(a, x)
  <2>1. CASE s \in a
    BY <1>2, <2>1 DEF Policy!Covers
  <2>2. CASE Policy!Covers(a, s)
    BY <1>2, <1>3, <2>2, CoversOnward
  <2> QED
    BY <1>4, <2>1, <2>2
<1>7. Policy!Covers(b, x)
  <2>1. CASE s \in b
    BY <1>2, <2>1 DEF Policy!Covers
  <2>2. CASE Policy!Covers(b, s)
    BY <1>2, <1>3, <2>2, CoversOnward
  <2> QED
    BY <1>5, <2>1, <2>2
<1> QED
  BY <1>6, <1>7

LEMMA BeginsOnward ==
    ASSUME NEW a \in SUBSET Words, NEW v \in Words, NEW w \in Words,
           Policy!Begins(a, v), w \in Below[v]
    PROVE  Policy!Begins(a, w)
<1>1. PICK s \in a : v \in Below[s]
  BY DEF Policy!Begins
<1>2. w \in Below[s]
  BY <1>1, PolicyFacts
<1> QED
  BY <1>1, <1>2 DEF Policy!Begins

LEMMA ListsMeet ==
    ASSUME NEW a \in SUBSET Words, NEW b \in SUBSET Words
    PROVE  /\ Policy!MeetLists(a, b) \in SUBSET Words
           /\ Empty \in Policy!MeetLists(a, b) => Empty \in a /\ Empty \in b
           /\ \A w \in Words : Policy!Begins(Policy!MeetLists(a, b), w)
                                 => Policy!Begins(a, w) /\ Policy!Begins(b, w)
<1>1. Policy!MeetLists(a, b) \in SUBSET Words
  BY DEF Policy!MeetLists
<1>2. \A v \in Policy!MeetLists(a, b) : /\ v \in a \/ Policy!Begins(a, v)
                                        /\ v \in b \/ Policy!Begins(b, v)
  BY DEF Policy!MeetLists
<1>3. \A c \in SUBSET Words : Policy!Begins(c, Empty) => Empty \in c
  BY PolicyFacts DEF Policy!Begins
<1>4. ASSUME NEW w \in Words, Policy!Begins(Policy!MeetLists(a, b), w)
      PROVE  Policy!Begins(a, w) /\ Policy!Begins(b, w)
  <2>1. PICK v \in Policy!MeetLists(a, b) : w \in Below[v]
    BY <1>4 DEF Policy!Begins
  <2>2. v \in Words
    BY <1>1, <2>1
  <2>3. \A c \in SUBSET Words : v \in c => Policy!Begins(c, w)
    BY <2>1 DEF Policy!Begins
  <2>4. \A c \in SUBSET Words : Policy!Begins(c, v) => Policy!Begins(c, w)
    BY <2>1, <2>2, BeginsOnward
  <2> QED
    BY <1>2, <2>1, <2>3, <2>4
<1> QED
  BY <1>1, <1>2, <1>3, <1>4

LEMMA ScopesBoth ==
    ASSUME NEW a \in {None} \cup SUBSET Policy!Places, NEW b \in {None} \cup SUBSET Policy!Places
    PROVE  /\ Policy!BothScopes(a, b) \in {None} \cup SUBSET Policy!Places
           /\ a # None => /\ Policy!BothScopes(a, b) # None
                          /\ \A x \in Policy!Places :
                               Policy!Covers(Policy!BothScopes(a, b), x) => Policy!Covers(a, x)
           /\ b # None => /\ Policy!BothScopes(a, b) # None
                          /\ \A x \in Policy!Places :
                               Policy!Covers(Policy!BothScopes(a, b), x) => Policy!Covers(b, x)
<1>1. CASE a = None \/ b = None
  BY <1>1 DEF Policy!BothScopes
<1>2. CASE a # None /\ b # None
  <2>1. Policy!BothScopes(a, b) = Policy!MeetScopes(a, b)
    BY <1>2 DEF Policy!BothScopes
  <2>2. a \in SUBSET Policy!Places /\ b \in SUBSET Policy!Places
    BY <1>2
  <2>3. /\ Policy!MeetScopes(a, b) \in SUBSET Policy!Places
        /\ \A x \in Policy!Places : Policy!Covers(Policy!MeetScopes(a, b), x)
                                     => Policy!Covers(a, x) /\ Policy!Covers(b, x)
    BY <2>2, ScopesMeet
  <2>4. Policy!MeetScopes(a, b) # None
    BY <2>3, PolicyFacts
  <2> QED
    BY <2>1, <2>3, <2>4
<1> QED
  BY <1>1, <1>2

LEMMA ListsBoth ==
    ASSUME NEW v \in {None} \cup SUBSET Words, NEW w \in {None} \cup SUBSET Words
    PROVE  /\ Policy!BothLists(v, w) \in {None} \cup SUBSET Words
           /\ v # None => /\ Policy!BothLists(v, w) # None
                          /\ Empty \in Policy!BothLists(v, w) => Empty \in v
                          /\ \A x \in Words :
                               Policy!Begins(Policy!BothLists(v, w), x) => Policy!Begins(v, x)
           /\ w # None => /\ Policy!BothLists(v, w) # None
                          /\ Empty \in Policy!BothLists(v, w) => Empty \in w
                          /\ \A x \in Words :
                               Policy!Begins(Policy!BothLists(v, w), x) => Policy!Begins(w, x)
<1>1. CASE v = None \/ w = None
  BY <1>1 DEF Policy!BothLists
<1>2. CASE v # None /\ w # None
  <2>1. Policy!BothLists(v, w) = Policy!MeetLists(v, w)
    BY <1>2 DEF Policy!BothLists
  <2>2. v \in SUBSET Words /\ w \in SUBSET Words
    BY <1>2
  <2>3. /\ Policy!MeetLists(v, w) \in SUBSET Words
        /\ Empty \in Policy!MeetLists(v, w) => Empty \in v /\ Empty \in w
        /\ \A x \in Words : Policy!Begins(Policy!MeetLists(v, w), x)
                              => Policy!Begins(v, x) /\ Policy!Begins(w, x)
    BY <2>2, ListsMeet
  <2>4. Policy!MeetLists(v, w) # None
    BY <2>3, PolicyFacts
  <2> QED
    BY <2>1, <2>3, <2>4
<1> QED
  BY <1>1, <1>2

LEMMA HostsBoth ==
    ASSUME NEW h \in {None} \cup SUBSET Hosts, NEW i \in {None} \cup SUBSET Hosts
    PROVE  /\ Policy!BothHosts(h, i) \in {None} \cup SUBSET Hosts
           /\ h # None => Policy!BothHosts(h, i) # None /\ Policy!BothHosts(h, i) \subseteq h
           /\ i # None => Policy!BothHosts(h, i) # None /\ Policy!BothHosts(h, i) \subseteq i
<1>1. h # None /\ i # None => h \cap i \in SUBSET Hosts
  OBVIOUS
<1> QED
  BY <1>1, PolicyFacts DEF Policy!BothHosts

\* The fields of a policy, and of a ceiling.
LEMMA PolicyFields ==
    ASSUME NEW p \in Policy!PolicyRecords
    PROVE  /\ p.tree \in Policy!Trees /\ p.mode \in Policy!Modes
           /\ p.scope \in SUBSET Policy!Places /\ p.ownScope \in {None} \cup SUBSET Policy!Places
           /\ p.shellOn \in BOOLEAN /\ p.shellOff \in BOOLEAN /\ p.shellList \in SUBSET Words
           /\ p.ownShellOff \in BOOLEAN /\ p.ownShellList \in {None} \cup SUBSET Words
           /\ p.fetchOn \in BOOLEAN /\ p.fetchOff \in BOOLEAN /\ p.fetchList \in SUBSET Hosts
           /\ p.ownFetchOff \in BOOLEAN /\ p.ownFetchList \in {None} \cup SUBSET Hosts
BY DEF Policy!PolicyRecords

LEMMA CeilingFields ==
    ASSUME NEW c \in Ceilings
    PROVE  /\ c.scope \in {None} \cup SUBSET Policy!Places
           /\ c.shellOn \in {None} \cup BOOLEAN /\ c.shellList \in {None} \cup SUBSET Words
           /\ c.fetchOn \in {None} \cup BOOLEAN /\ c.fetchList \in {None} \cup SUBSET Hosts
           /\ c.modes \subseteq Policy!Modes /\ c.modes # {}
<1>1. c \in [scope : {None} \cup SUBSET Policy!Places, modes : (SUBSET Policy!Modes) \ {{}},
             shellOn : {None} \cup BOOLEAN, shellList : {None} \cup SUBSET Words,
             fetchOn : {None} \cup BOOLEAN, fetchList : {None} \cup SUBSET Hosts]
  BY PolicyFacts
<1> QED
  BY <1>1

\* Only the owner's fields matter to the owner's limits.
LEMMA BoundedByOwn ==
    ASSUME NEW c, NEW p, NEW q, Policy!Bounded(c, p),
           q.ownScope = p.ownScope, q.ownShellOff = p.ownShellOff,
           q.ownShellList = p.ownShellList, q.ownFetchOff = p.ownFetchOff,
           q.ownFetchList = p.ownFetchList
    PROVE  Policy!Bounded(c, q)
BY DEF Policy!Bounded

\* CapabilityCeiling.bound puts a policy within the ceiling.
LEMMA BoundIsBounded ==
    ASSUME NEW c \in Ceilings, NEW p \in Policy!PolicyRecords
    PROVE  /\ Policy!Bound(c, p) \in Policy!PolicyRecords
           /\ Policy!Bounded(c, Policy!Bound(c, p))
           /\ Policy!Bound(c, p).fetchList \subseteq
                p.fetchList \cup (IF c.fetchList = None THEN {} ELSE c.fetchList)
<1> DEFINE listed == c.fetchOn # FALSE /\ c.fetchList # None
           ownScope == Policy!BothScopes(p.ownScope, c.scope)
           scope == IF c.scope = None THEN p.scope ELSE Policy!MeetScopes(p.scope, c.scope)
           ownShellOff == p.ownShellOff \/ c.shellOn = FALSE
           shellOn == p.shellOn /\ c.shellOn # FALSE
           ownShellList == Policy!BothLists(p.ownShellList, c.shellList)
           shellList == IF c.shellList = None THEN p.shellList
                        ELSE Policy!MeetLists(p.shellList, c.shellList)
           ownFetchOff == p.ownFetchOff \/ c.fetchOn = FALSE
           ownFetchList == Policy!BothHosts(p.ownFetchList, c.fetchList)
           fetchOn == p.fetchOn /\ c.fetchOn # FALSE /\ ~listed
           fetchList == IF c.fetchOn = FALSE THEN {}
                        ELSE IF listed THEN IF p.fetchOn THEN c.fetchList
                                            ELSE p.fetchList \cap c.fetchList
                        ELSE p.fetchList
<1>1. Policy!Bound(c, p) =
        [p EXCEPT !.ownScope = ownScope, !.scope = scope, !.ownShellOff = ownShellOff,
                  !.shellOn = shellOn, !.ownShellList = ownShellList, !.shellList = shellList,
                  !.ownFetchOff = ownFetchOff, !.ownFetchList = ownFetchList,
                  !.fetchOn = fetchOn, !.fetchList = fetchList]
  BY DEF Policy!Bound
<1>2. /\ ownScope \in {None} \cup SUBSET Policy!Places
      /\ ownShellList \in {None} \cup SUBSET Words /\ ownFetchList \in {None} \cup SUBSET Hosts
      /\ c.scope # None => /\ ownScope # None
                           /\ \A x \in Policy!Places : Policy!Covers(ownScope, x)
                                                         => Policy!Covers(c.scope, x)
      /\ c.shellList # None =>
           /\ ownShellList # None /\ (Empty \in ownShellList => Empty \in c.shellList)
           /\ \A w \in Words : Policy!Begins(ownShellList, w) => Policy!Begins(c.shellList, w)
      /\ c.fetchList # None => ownFetchList # None /\ ownFetchList \subseteq c.fetchList
  <2>1. /\ p.ownScope \in {None} \cup SUBSET Policy!Places /\ c.scope \in {None} \cup SUBSET Policy!Places
        /\ p.ownShellList \in {None} \cup SUBSET Words /\ c.shellList \in {None} \cup SUBSET Words
        /\ p.ownFetchList \in {None} \cup SUBSET Hosts /\ c.fetchList \in {None} \cup SUBSET Hosts
    BY PolicyFields, CeilingFields
  <2>2. /\ ownScope \in {None} \cup SUBSET Policy!Places
        /\ c.scope # None => /\ ownScope # None
                             /\ \A x \in Policy!Places : Policy!Covers(ownScope, x)
                                                           => Policy!Covers(c.scope, x)
    BY <2>1, ScopesBoth
  <2>3. /\ ownShellList \in {None} \cup SUBSET Words
        /\ c.shellList # None =>
             /\ ownShellList # None /\ (Empty \in ownShellList => Empty \in c.shellList)
             /\ \A w \in Words : Policy!Begins(ownShellList, w) => Policy!Begins(c.shellList, w)
    BY <2>1, ListsBoth
  <2>4. /\ ownFetchList \in {None} \cup SUBSET Hosts
        /\ c.fetchList # None => ownFetchList # None /\ ownFetchList \subseteq c.fetchList
    BY <2>1, HostsBoth
  <2> QED
    BY <2>2, <2>3, <2>4
<1>3. scope \in SUBSET Policy!Places
  <2>1. c.scope # None => c.scope \in SUBSET Policy!Places
    BY CeilingFields
  <2> QED
    BY <2>1, PolicyFields, ScopesMeet
<1>4. shellList \in SUBSET Words
  <2>1. c.shellList # None => c.shellList \in SUBSET Words
    BY CeilingFields
  <2> QED
    BY <2>1, PolicyFields, ListsMeet
<1>5. fetchList \in SUBSET Hosts
  <2>1. c.fetchList # None => c.fetchList \in SUBSET Hosts
    BY CeilingFields
  <2> QED
    BY <2>1, PolicyFields
<1>6. ownShellOff \in BOOLEAN /\ shellOn \in BOOLEAN /\ ownFetchOff \in BOOLEAN /\ fetchOn \in BOOLEAN
  OBVIOUS
<1>7. (c.shellOn = FALSE => ownShellOff) /\ (c.fetchOn = FALSE => ownFetchOff)
  OBVIOUS
<1> HIDE DEF ownScope, scope, ownShellOff, shellOn, ownShellList, shellList, ownFetchOff,
             ownFetchList, fetchOn, fetchList
<1>8. PICK q : q = [p EXCEPT !.ownScope = ownScope, !.scope = scope, !.ownShellOff = ownShellOff,
                  !.shellOn = shellOn, !.ownShellList = ownShellList, !.shellList = shellList,
                  !.ownFetchOff = ownFetchOff, !.ownFetchList = ownFetchList,
                  !.fetchOn = fetchOn, !.fetchList = fetchList]
  OBVIOUS
<1>9. q = [tree |-> p.tree, mode |-> p.mode, scope |-> scope, ownScope |-> ownScope,
           shellOn |-> shellOn, shellOff |-> p.shellOff, shellList |-> shellList,
           ownShellOff |-> ownShellOff, ownShellList |-> ownShellList,
           fetchOn |-> fetchOn, fetchOff |-> p.fetchOff, fetchList |-> fetchList,
           ownFetchOff |-> ownFetchOff, ownFetchList |-> ownFetchList]
  BY <1>8 DEF Policy!PolicyRecords
<1>10. q \in Policy!PolicyRecords
  BY <1>2, <1>3, <1>4, <1>5, <1>6, <1>9, PolicyFields DEF Policy!PolicyRecords
<1>11. fetchList \subseteq p.fetchList \cup (IF c.fetchList = None THEN {} ELSE c.fetchList)
  BY DEF fetchList
<1>12. Policy!Bounded(c, q)
  BY <1>2, <1>7, <1>9 DEF Policy!Bounded
<1> QED
  BY <1>1, <1>8, <1>9, <1>10, <1>11, <1>12

\* PermissionPolicy.narrowed stays within every ceiling of the policy.
LEMMA NarrowedIsBounded ==
    ASSUME NEW p \in Policy!PolicyRecords, NEW r \in Policy!PolicyRecords
    PROVE  /\ Policy!Narrowed(p, r) \in Policy!PolicyRecords
           /\ \A c : Policy!Bounded(c, p) => Policy!Bounded(c, Policy!Narrowed(p, r))
<1>1. /\ Policy!BothScopes(p.ownScope, r.ownScope) \in {None} \cup SUBSET Policy!Places
      /\ Policy!BothLists(p.ownShellList, r.ownShellList) \in {None} \cup SUBSET Words
      /\ Policy!BothHosts(p.ownFetchList, r.ownFetchList) \in {None} \cup SUBSET Hosts
      /\ p.ownScope # None =>
           /\ Policy!BothScopes(p.ownScope, r.ownScope) # None
           /\ \A x \in Policy!Places :
                Policy!Covers(Policy!BothScopes(p.ownScope, r.ownScope), x)
                  => Policy!Covers(p.ownScope, x)
      /\ p.ownShellList # None =>
           /\ Policy!BothLists(p.ownShellList, r.ownShellList) # None
           /\ Empty \in Policy!BothLists(p.ownShellList, r.ownShellList) => Empty \in p.ownShellList
           /\ \A w \in Words : Policy!Begins(Policy!BothLists(p.ownShellList, r.ownShellList), w)
                                 => Policy!Begins(p.ownShellList, w)
      /\ p.ownFetchList # None =>
           /\ Policy!BothHosts(p.ownFetchList, r.ownFetchList) # None
           /\ Policy!BothHosts(p.ownFetchList, r.ownFetchList) \subseteq p.ownFetchList
  <2>1. /\ p.ownScope \in {None} \cup SUBSET Policy!Places /\ r.ownScope \in {None} \cup SUBSET Policy!Places
        /\ p.ownShellList \in {None} \cup SUBSET Words /\ r.ownShellList \in {None} \cup SUBSET Words
        /\ p.ownFetchList \in {None} \cup SUBSET Hosts /\ r.ownFetchList \in {None} \cup SUBSET Hosts
    BY PolicyFields
  <2>2. /\ Policy!BothScopes(p.ownScope, r.ownScope) \in {None} \cup SUBSET Policy!Places
        /\ p.ownScope # None =>
             /\ Policy!BothScopes(p.ownScope, r.ownScope) # None
             /\ \A x \in Policy!Places :
                  Policy!Covers(Policy!BothScopes(p.ownScope, r.ownScope), x)
                    => Policy!Covers(p.ownScope, x)
    BY <2>1, ScopesBoth
  <2>3. /\ Policy!BothLists(p.ownShellList, r.ownShellList) \in {None} \cup SUBSET Words
        /\ p.ownShellList # None =>
             /\ Policy!BothLists(p.ownShellList, r.ownShellList) # None
             /\ Empty \in Policy!BothLists(p.ownShellList, r.ownShellList) => Empty \in p.ownShellList
             /\ \A w \in Words : Policy!Begins(Policy!BothLists(p.ownShellList, r.ownShellList), w)
                                   => Policy!Begins(p.ownShellList, w)
    BY <2>1, ListsBoth
  <2>4. /\ Policy!BothHosts(p.ownFetchList, r.ownFetchList) \in {None} \cup SUBSET Hosts
        /\ p.ownFetchList # None =>
             /\ Policy!BothHosts(p.ownFetchList, r.ownFetchList) # None
             /\ Policy!BothHosts(p.ownFetchList, r.ownFetchList) \subseteq p.ownFetchList
    BY <2>1, HostsBoth
  <2> QED
    BY <2>2, <2>3, <2>4
<1>2. /\ Policy!MeetScopes(p.scope, r.scope) \in SUBSET Policy!Places
      /\ Policy!MeetLists(p.shellList, r.shellList) \in SUBSET Words
      /\ p.fetchList \cap r.fetchList \in SUBSET Hosts
  BY PolicyFields, ScopesMeet, ListsMeet
<1>3. Policy!Tightest(p.mode, r.mode) \in Policy!Modes
  BY DEF Policy!Tightest, Policy!Modes
<1>5. Policy!Narrowed(p, r) \in Policy!PolicyRecords
  <2>1. r.tree \in Policy!Trees
    BY PolicyFields
  <2> QED
    BY <1>1, <1>2, <1>3, <2>1 DEF Policy!Narrowed, Policy!PolicyRecords
<1>6. ASSUME NEW c, Policy!Bounded(c, p)
      PROVE  Policy!Bounded(c, Policy!Narrowed(p, r))
  BY <1>1, <1>6 DEF Policy!Narrowed, Policy!Bounded
<1> QED
  BY <1>5, <1>6

\* What a bounded policy allows, or asks a person, its ceiling allows.
LEMMA BoundedAdmits ==
    ASSUME NEW c \in Ceilings, NEW p \in Policy!PolicyRecords, Policy!Bounded(c, p)
    PROVE  Policy!Admits(c, p)
<1>1. ASSUME NEW x \in [tree : {p.tree}, dir : Dirs], Policy!Write(p, x) # "deny", c.scope # None
      PROVE  Policy!Covers(c.scope, x)
  <2>1. p.tree \in Policy!Trees
    BY PolicyFields
  <2>2. x \in Policy!Places
    BY <2>1 DEF Policy!Places
  <2> QED
    BY <1>1, <2>2 DEF Policy!Bounded, Policy!Write, Policy!WriteBarred
<1>2. ASSUME NEW h \in Hosts, Policy!Fetch(p, h) # "deny"
      PROVE  c.fetchOn # FALSE /\ (c.fetchList = None \/ h \in c.fetchList)
  BY <1>2 DEF Policy!Bounded, Policy!Fetch, Policy!FetchBarred
<1>3. ASSUME NEW line \in Lines, Policy!Shell(p, line) # "deny"
      PROVE  /\ c.shellOn # FALSE
             /\ c.shellList = None \/ Empty \in c.shellList \/ Policy!Plain(c.shellList, line)
  <2>1. ~Policy!ShellBarred(p, line)
    BY <1>3 DEF Policy!Shell
  <2>2. c.shellOn # FALSE
    BY <2>1 DEF Policy!ShellBarred, Policy!Bounded
  <2>3. ASSUME c.shellList # None, Empty \notin c.shellList
        PROVE  Policy!Plain(c.shellList, line)
    <3>1. Policy!Plain(p.ownShellList, line)
      BY <2>1, <2>3 DEF Policy!ShellBarred, Policy!Bounded
    <3>2. \A e \in line : e.argv \in Words
      BY PolicyFacts
    <3> QED
      BY <2>3, <3>1, <3>2 DEF Policy!Plain, Policy!Bounded
  <2> QED
    BY <2>2, <2>3
<1> QED
  BY <1>1, <1>2, <1>3 DEF Policy!Admits

\* What may be changed of a policy, its limits stay.
LEMMA ModeChanges ==
    ASSUME NEW p \in Policy!PolicyRecords, NEW m \in Policy!Modes
    PROVE  /\ [p EXCEPT !.mode = m] \in Policy!PolicyRecords
           /\ [p EXCEPT !.mode = m].fetchList = p.fetchList
           /\ \A c : Policy!Bounded(c, p) => Policy!Bounded(c, [p EXCEPT !.mode = m])
<1>1. PICK q : q = [p EXCEPT !.mode = m]
  OBVIOUS
<1>2. /\ q \in Policy!PolicyRecords /\ q.fetchList = p.fetchList
      /\ q.ownScope = p.ownScope /\ q.ownShellOff = p.ownShellOff
      /\ q.ownShellList = p.ownShellList /\ q.ownFetchOff = p.ownFetchOff
      /\ q.ownFetchList = p.ownFetchList
  BY <1>1 DEF Policy!PolicyRecords
<1> QED
  BY <1>1, <1>2, BoundedByOwn

LEMMA HostsChange ==
    ASSUME NEW p \in Policy!PolicyRecords, NEW hosts \in SUBSET Hosts
    PROVE  /\ [p EXCEPT !.fetchList = hosts] \in Policy!PolicyRecords
           /\ [p EXCEPT !.fetchList = hosts].fetchList = hosts
           /\ \A c : Policy!Bounded(c, p) => Policy!Bounded(c, [p EXCEPT !.fetchList = hosts])
<1>1. PICK q : q = [p EXCEPT !.fetchList = hosts]
  OBVIOUS
<1>2. /\ q \in Policy!PolicyRecords /\ q.fetchList = hosts
      /\ q.ownScope = p.ownScope /\ q.ownShellOff = p.ownShellOff
      /\ q.ownShellList = p.ownShellList /\ q.ownFetchOff = p.ownFetchOff
      /\ q.ownFetchList = p.ownFetchList
  BY <1>1 DEF Policy!PolicyRecords
<1> QED
  BY <1>1, <1>2, BoundedByOwn

LEMMA TreeChanges ==
    ASSUME NEW p \in Policy!PolicyRecords, NEW t \in Policy!Trees
    PROVE  /\ Policy!Rerooted(p, t) \in Policy!PolicyRecords
           /\ Policy!Rerooted(p, t).fetchList = p.fetchList
           /\ \A c : Policy!Bounded(c, p) => Policy!Bounded(c, Policy!Rerooted(p, t))
<1>1. PICK scope : scope = {[x EXCEPT !.tree = t] : x \in {y \in p.scope : y.tree = p.tree}}
  OBVIOUS
<1>2. scope \in SUBSET Policy!Places
  <2>1. \A x \in Policy!Places : [x EXCEPT !.tree = t] \in Policy!Places
    BY DEF Policy!Places
  <2> QED
    BY <1>1, <2>1, PolicyFields
<1>3. PICK q : q = [p EXCEPT !.tree = t, !.scope = scope]
  OBVIOUS
<1>4. q = Policy!Rerooted(p, t)
  BY <1>1, <1>3 DEF Policy!Rerooted
<1>5. /\ q \in Policy!PolicyRecords /\ q.fetchList = p.fetchList
      /\ q.ownScope = p.ownScope /\ q.ownShellOff = p.ownShellOff
      /\ q.ownShellList = p.ownShellList /\ q.ownFetchOff = p.ownFetchOff
      /\ q.ownFetchList = p.ownFetchList
  BY <1>2, <1>3 DEF Policy!PolicyRecords
<1> QED
  BY <1>4, <1>5, BoundedByOwn

\* The runs of the spec loop keep the limits of the base policy.
LEMMA SpecsStayBounded ==
    ASSUME base \in Policy!PolicyRecords, NEW p \in Policy!SpecPolicies
    PROVE  /\ p \in Policy!PolicyRecords /\ p.fetchList = base.fetchList
           /\ \A c : Policy!Bounded(c, base) => Policy!Bounded(c, p)
<1>1. CASE p = Policy!ImplementerPolicy
  <2>1. "run worktree" \in Policy!Trees /\ "allow" \in Policy!Modes
    BY DEF Policy!Trees, Policy!Modes
  <2>2. PICK q : q = Policy!Rerooted(base, "run worktree")
    OBVIOUS
  <2>3. /\ q \in Policy!PolicyRecords /\ q.fetchList = base.fetchList
        /\ \A c : Policy!Bounded(c, base) => Policy!Bounded(c, q)
    BY <2>1, <2>2, TreeChanges
  <2>4. p = [q EXCEPT !.mode = "allow"]
    BY <1>1, <2>2 DEF Policy!ImplementerPolicy
  <2> QED
    BY <2>1, <2>3, <2>4, ModeChanges
<1>2. ASSUME NEW d \in Folders, p = Policy!ReviewerPolicy(d)
      PROVE  /\ p \in Policy!PolicyRecords /\ p.fetchList = base.fetchList
             /\ \A c : Policy!Bounded(c, base) => Policy!Bounded(c, p)
  <2>1. PICK scope : scope = {[tree |-> "run worktree", dir |-> d]}
    OBVIOUS
  <2>2. scope \in SUBSET Policy!Places
    <3>1. d \in Dirs
      BY PolicyFacts
    <3>2. "run worktree" \in Policy!Trees
      BY DEF Policy!Trees
    <3>3. [tree |-> "run worktree", dir |-> d] \in Policy!Places
      BY <3>1, <3>2 DEF Policy!Places
    <3> QED
      BY <2>1, <3>3
  <2>3. p = [base EXCEPT !.tree = "run worktree", !.mode = "allow", !.scope = scope]
    BY <1>2, <2>1 DEF Policy!ReviewerPolicy
  <2>4. /\ p \in Policy!PolicyRecords /\ p.fetchList = base.fetchList
        /\ p.ownScope = base.ownScope /\ p.ownShellOff = base.ownShellOff
        /\ p.ownShellList = base.ownShellList /\ p.ownFetchOff = base.ownFetchOff
        /\ p.ownFetchList = base.ownFetchList
    BY <2>2, <2>3 DEF Policy!PolicyRecords, Policy!Trees, Policy!Modes
  <2> QED
    BY <2>4, BoundedByOwn
<1>3. ASSUME NEW d \in Folders, NEW box \in BOOLEAN, p = Policy!PlannerPolicy(d, box)
      PROVE  /\ p \in Policy!PolicyRecords /\ p.fetchList = base.fetchList
             /\ \A c : Policy!Bounded(c, base) => Policy!Bounded(c, p)
  <2>1. PICK scope : scope = {[tree |-> Policy!Repo, dir |-> d]}
    OBVIOUS
  <2>2. scope \in SUBSET Policy!Places
    <3>1. d \in Dirs
      BY PolicyFacts
    <3> QED
      BY <2>1, <3>1 DEF Policy!Places, Policy!Trees, Policy!Repo
  <2>3. PICK list \in SUBSET Words : list = IF box THEN {Empty} ELSE {}
    <3>1. {Empty} \in SUBSET Words /\ {} \in SUBSET Words
      BY WordsAre
    <3> QED
      BY <3>1
  <2>4. p = [base EXCEPT !.mode = "allow", !.scope = scope, !.shellOn = box, !.shellList = list]
    BY <1>3, <2>1, <2>3 DEF Policy!PlannerPolicy
  <2>5. /\ p \in Policy!PolicyRecords /\ p.fetchList = base.fetchList
        /\ p.ownScope = base.ownScope /\ p.ownShellOff = base.ownShellOff
        /\ p.ownShellList = base.ownShellList /\ p.ownFetchOff = base.ownFetchOff
        /\ p.ownFetchList = base.ownFetchList
    BY <2>2, <2>4 DEF Policy!PolicyRecords, Policy!Modes
  <2> QED
    BY <2>5, BoundedByOwn
<1> QED
  BY <1>1, <1>2, <1>3 DEF Policy!SpecPolicies

\* What a subagent does without a question, its role does in the same tree.
LEMMA NarrowedMayDo ==
    ASSUME NEW o \in Policy!PolicyRecords, NEW r \in Policy!PolicyRecords, r.tree = o.tree,
           NEW p \in {Policy!Narrowed(o, r), Policy!Rerooted(Policy!Narrowed(o, r), "agent worktree")},
           p.mode = "allow"
    PROVE  Policy!MayDo(p, Policy!Rerooted(r, p.tree))
<1> DEFINE n == Policy!Narrowed(o, r)
           moved == Policy!Rerooted(r, p.tree)
<1>1. Policy!MeetScopes(o.scope, r.scope) \in SUBSET Policy!Places
  BY PolicyFields, ScopesMeet
<1>2. n.mode = "allow" /\ p.shellOn = n.shellOn /\ p.shellOff = n.shellOff /\ p.shellList = n.shellList
      /\ p.ownShellOff = n.ownShellOff /\ p.ownShellList = n.ownShellList
      /\ p.fetchOn = n.fetchOn /\ p.fetchOff = n.fetchOff /\ p.fetchList = n.fetchList
      /\ p.ownFetchOff = n.ownFetchOff /\ p.ownFetchList = n.ownFetchList
  <2>1. n \in Policy!PolicyRecords
    BY NarrowedIsBounded
  <2>2. CASE p = n
    BY <2>2
  <2>3. CASE p = Policy!Rerooted(n, "agent worktree")
    <3> HIDE DEF n
    <3> QED
      BY <2>1, <2>3 DEF Policy!Rerooted, Policy!PolicyRecords
  <2> QED
    BY <2>2, <2>3
<1>3. /\ moved.mode = r.mode /\ moved.shellOn = r.shellOn /\ moved.shellOff = r.shellOff
      /\ moved.shellList = r.shellList
      /\ moved.ownShellOff = r.ownShellOff /\ moved.ownShellList = r.ownShellList
      /\ moved.fetchOn = r.fetchOn /\ moved.fetchOff = r.fetchOff /\ moved.fetchList = r.fetchList
      /\ moved.ownFetchOff = r.ownFetchOff /\ moved.ownFetchList = r.ownFetchList
      /\ moved.scope = {[x EXCEPT !.tree = p.tree] : x \in {y \in r.scope : y.tree = r.tree}}
  BY DEF Policy!Rerooted, Policy!PolicyRecords
<1>4. r.mode = "allow"
  <2>1. r.mode \in Policy!Modes
    BY PolicyFields
  <2> QED
    BY <1>2, <2>1 DEF Policy!Narrowed, Policy!Tightest, Policy!Modes
<1>5. ASSUME NEW x \in [tree : {p.tree}, dir : Dirs], Policy!Write(p, x) = "allow"
      PROVE  Policy!Covers(moved.scope, x)
  <2>1. PICK s \in p.scope : s.tree = x.tree /\ x.dir \in Below[s.dir] /\ x.tree = p.tree
    BY <1>5 DEF Policy!Write, Policy!WriteBarred, Policy!Covers
  \* The place of the narrowed policy that covers it.
  <2>2. PICK y \in Policy!MeetScopes(o.scope, r.scope) : y.tree = r.tree /\ x.dir \in Below[y.dir]
    <3>1. CASE p = n
      BY <2>1, <3>1 DEF Policy!Narrowed
    <3>2. CASE p = Policy!Rerooted(n, "agent worktree")
      <4>1. n.tree = r.tree /\ n.scope = Policy!MeetScopes(o.scope, r.scope)
        BY DEF Policy!Narrowed
      <4>2. p.scope = {[z EXCEPT !.tree = "agent worktree"] : z \in {y \in n.scope : y.tree = n.tree}}
        BY <3>2 DEF Policy!Rerooted, Policy!Narrowed
      <4>3. PICK z \in n.scope : z.tree = n.tree /\ s = [z EXCEPT !.tree = "agent worktree"]
        BY <2>1, <4>2
      <4>4. z \in Policy!Places
        BY <1>1, <4>1
      <4>5. s.dir = z.dir
        BY <4>3, <4>4 DEF Policy!Places
      <4> QED
        BY <2>1, <4>1, <4>3, <4>5
    <3> QED
      BY <3>1, <3>2
  \* And the place of the role.
  <2>3. PICK z \in r.scope : z.tree = r.tree /\ x.dir \in Below[z.dir]
    <3>1. CASE y \in r.scope
      BY <2>2, <3>1
    <3>2. CASE Policy!Covers(r.scope, y)
      <4>1. PICK z \in r.scope : z.tree = y.tree /\ y.dir \in Below[z.dir]
        BY <3>2 DEF Policy!Covers
      <4>2. z.dir \in Dirs /\ y.dir \in Dirs /\ x.dir \in Dirs
        BY <1>1, PlacesAre, PolicyFields
      <4>3. x.dir \in Below[z.dir]
        BY <2>2, <4>1, <4>2, PolicyFacts
      <4> QED
        BY <2>2, <4>1, <4>3
    <3> QED
      BY <2>2, <3>1, <3>2 DEF Policy!MeetScopes
  <2>4. z \in Policy!Places
    BY PolicyFields
  <2>5. /\ [z EXCEPT !.tree = p.tree] \in moved.scope
        /\ [z EXCEPT !.tree = p.tree].tree = p.tree /\ [z EXCEPT !.tree = p.tree].dir = z.dir
    BY <1>3, <2>3, <2>4 DEF Policy!Places
  <2> QED
    BY <2>1, <2>3, <2>5 DEF Policy!Covers
<1>6. /\ n.fetchOn = (o.fetchOn /\ r.fetchOn) /\ n.fetchOff = (o.fetchOff \/ r.fetchOff)
      /\ n.fetchList = o.fetchList \cap r.fetchList
      /\ n.ownFetchOff = (o.ownFetchOff \/ r.ownFetchOff)
      /\ n.shellOn = (o.shellOn /\ r.shellOn) /\ n.shellOff = (o.shellOff \/ r.shellOff)
      /\ n.ownShellOff = (o.ownShellOff \/ r.ownShellOff)
      /\ n.shellList = Policy!MeetLists(o.shellList, r.shellList)
      /\ n.ownShellList = Policy!BothLists(o.ownShellList, r.ownShellList)
      /\ n.ownFetchList = Policy!BothHosts(o.ownFetchList, r.ownFetchList)
  BY DEF Policy!Narrowed
<1> HIDE DEF n, moved
<1>7. ASSUME NEW h \in Hosts, Policy!Fetch(p, h) = "allow"
      PROVE  Policy!Fetch(moved, h) = "allow"
  <2>1. r.ownFetchList # None => n.ownFetchList # None /\ n.ownFetchList \subseteq r.ownFetchList
    <3>1. /\ o.ownFetchList \in {None} \cup SUBSET Hosts /\ r.ownFetchList \in {None} \cup SUBSET Hosts
      BY PolicyFields
    <3>2. PICK both : both = Policy!BothHosts(o.ownFetchList, r.ownFetchList)
      OBVIOUS
    <3>3. r.ownFetchList # None => both # None /\ both \subseteq r.ownFetchList
      BY <3>1, <3>2, HostsBoth
    <3>4. n.ownFetchList = both
      BY <1>6, <3>2, Zenon
    <3> QED
      BY <3>3, <3>4, Zenon
  <2>2. ~Policy!FetchBarred(p, h) /\ (h \in Preapproved \cup p.fetchList \/ p.fetchOn)
    BY <1>7 DEF Policy!Fetch
  <2>3. ~Policy!FetchBarred(moved, h)
    BY <1>2, <1>3, <1>6, <2>1, <2>2 DEF Policy!FetchBarred
  <2>4. h \in Preapproved \cup moved.fetchList \/ moved.fetchOn
    BY <1>2, <1>3, <1>6, <2>2
  <2> QED
    BY <1>3, <1>4, <2>3, <2>4 DEF Policy!Fetch
<1>8. ASSUME NEW line \in Lines, Policy!Shell(p, line) = "allow"
      PROVE  Policy!Shell(moved, line) = "allow"
  <2>1. \A e \in line : e.argv \in Words
    BY WordsAre
  <2>2. /\ Empty \in n.shellList => Empty \in r.shellList
        /\ \A w \in Words : Policy!Begins(n.shellList, w) => Policy!Begins(r.shellList, w)
    <3>1. o.shellList \in SUBSET Words /\ r.shellList \in SUBSET Words
      BY PolicyFields
    <3>2. PICK both : both = Policy!MeetLists(o.shellList, r.shellList)
      OBVIOUS
    <3>3. /\ Empty \in both => Empty \in r.shellList
          /\ \A w \in Words : Policy!Begins(both, w) => Policy!Begins(r.shellList, w)
      BY <3>1, <3>2, ListsMeet
    <3>4. n.shellList = both
      BY <1>6, <3>2, Zenon
    <3> QED
      BY <3>3, <3>4, Zenon
  <2>3. r.ownShellList # None =>
          /\ n.ownShellList # None /\ (Empty \in n.ownShellList => Empty \in r.ownShellList)
          /\ \A w \in Words : Policy!Begins(n.ownShellList, w) => Policy!Begins(r.ownShellList, w)
    <3>1. /\ o.ownShellList \in {None} \cup SUBSET Words /\ r.ownShellList \in {None} \cup SUBSET Words
      BY PolicyFields
    <3>2. PICK both : both = Policy!BothLists(o.ownShellList, r.ownShellList)
      OBVIOUS
    <3>3. r.ownShellList # None =>
            /\ both # None /\ (Empty \in both => Empty \in r.ownShellList)
            /\ \A w \in Words : Policy!Begins(both, w) => Policy!Begins(r.ownShellList, w)
      BY <3>1, <3>2, ListsBoth
    <3>4. n.ownShellList = both
      BY <1>6, <3>2, Zenon
    <3> QED
      BY <3>3, <3>4, Zenon
  <2>4. /\ ~Policy!ShellBarred(p, line) /\ p.shellOn
        /\ \A e \in line : IF e.writes THEN Empty \in p.shellList
                           ELSE Policy!Begins(p.shellList, e.argv)
    BY <1>2, <1>8 DEF Policy!Shell
  <2>5. ~Policy!ShellBarred(moved, line)
    BY <1>2, <1>3, <1>6, <2>1, <2>3, <2>4 DEF Policy!ShellBarred, Policy!Plain
  <2>6. /\ moved.shellOn
        /\ \A e \in line : IF e.writes THEN Empty \in moved.shellList
                           ELSE Policy!Begins(moved.shellList, e.argv)
    BY <1>2, <1>3, <1>6, <2>1, <2>2, <2>4
  <2> QED
    BY <1>3, <1>4, <2>5, <2>6 DEF Policy!Shell
<1> QED
  BY <1>5, <1>7, <1>8 DEF Policy!MayDo, moved

LEMMA ModesAre ==
    ASSUME NEW c \in Ceilings
    PROVE  Policy!Starting(c) \in Policy!Modes
BY DEF Policy!Starting, Policy!Modes

LEMMA HostsAreRestricted ==
    ASSUME NEW c \in Ceilings, NEW hosts \in SUBSET Hosts
    PROVE  /\ Policy!Restricted(hosts, c) \in SUBSET Hosts /\ Policy!Restricted(hosts, c) \subseteq hosts
           /\ Policy!Restricted(Policy!Restricted(hosts, c), c) = Policy!Restricted(hosts, c)
BY DEF Policy!Restricted

LEMMA OpenedIsPolicy ==
    Policy!Opened \in Policy!PolicyRecords /\ Policy!Opened.fetchOn = TRUE /\ Policy!Opened.fetchList = {}
<1>1. [tree |-> Policy!Repo, dir |-> Top] \in Policy!Places
  BY PolicyFacts DEF Policy!Places, Policy!Trees, Policy!Repo
<1>2. "allow" \in Policy!Modes /\ Policy!Repo \in Policy!Trees
  BY DEF Policy!Modes, Policy!Trees
<1> QED
  BY <1>1, <1>2, PolicyFacts DEF Policy!Opened, Policy!PolicyRecords

LEMMA PolicyTypes ==
    ASSUME Policy!IInv
    PROVE  /\ ceiling \in Ceilings /\ saved \in SUBSET Hosts /\ granted \in SUBSET Hosts
           /\ base \in Policy!PolicyRecords /\ here \in Policy!PolicyRecords
           /\ next \in {None, Same} \cup Policy!PolicyRecords
           /\ open \in [Conversations -> {None} \cup Policy!PolicyRecords]
           /\ chat \in {None} \cup Conversations /\ reloads \in Nat
           /\ \A k \in Conversations : open[k] # None => since[k] \in Ceilings
           /\ DOMAIN since = Conversations
           /\ \A k \in Conversations : open[k] # None => open[k] \in Policy!PolicyRecords
BY DEF Policy!IInv, Policy!Typing

LEMMA PolicyInit == Init => Policy!IInv
<1> SUFFICES ASSUME Policy!Init
             PROVE  Policy!IInv
  BY DEF Init
<1>1. /\ ceiling \in Ceilings /\ saved = Stored
      /\ granted = Policy!Restricted(Configured \cup saved, ceiling)
      /\ base = Policy!Rehosted(Policy!Bound(ceiling, Policy!Opened), {}, granted)
      /\ here = [base EXCEPT !.mode = Policy!Starting(ceiling)]
      /\ next = None /\ chat = None /\ reloads = 0
      /\ open = [k \in Conversations |-> None] /\ since = [k \in Conversations |-> None]
  BY DEF Policy!Init
<1>2. saved \in SUBSET Hosts /\ granted \in SUBSET Hosts /\ granted = Policy!Restricted(granted, ceiling)
  <2>1. Configured \cup saved \in SUBSET Hosts
    BY <1>1, PolicyFacts
  <2> QED
    BY <1>1, <2>1, HostsAreRestricted, PolicyFacts
<1>3. PICK b \in Policy!PolicyRecords : b = Policy!Bound(ceiling, Policy!Opened) /\ Policy!Bounded(ceiling, b)
  BY <1>1, OpenedIsPolicy, BoundIsBounded
<1>4. b.fetchList \subseteq IF ceiling.fetchList = None THEN {} ELSE ceiling.fetchList
  <2>1. PICK o \in Policy!PolicyRecords : o = Policy!Opened /\ o.fetchOn = TRUE /\ o.fetchList = {}
    BY OpenedIsPolicy
  <2>2. b.fetchList \subseteq
          o.fetchList \cup (IF ceiling.fetchList = None THEN {} ELSE ceiling.fetchList)
    BY <1>1, <1>3, <2>1, BoundIsBounded
  <2> QED
    BY <2>1, <2>2
<1>5. /\ base \in Policy!PolicyRecords /\ Policy!Bounded(ceiling, base)
      /\ base.fetchList = b.fetchList \cup granted
  <2>1. b.fetchList \cup granted \in SUBSET Hosts
    BY <1>2, PolicyFields
  <2>2. base = [b EXCEPT !.fetchList = b.fetchList \cup granted]
    BY <1>1, <1>3 DEF Policy!Rehosted
  <2> QED
    BY <1>3, <2>1, <2>2, HostsChange
<1>6. /\ here \in Policy!PolicyRecords /\ Policy!Bounded(ceiling, here)
      /\ here.fetchList = base.fetchList
  BY <1>1, <1>5, ModesAre, ModeChanges
<1>7. Policy!Typing
  BY <1>1, <1>2, <1>5, <1>6 DEF Policy!Typing
<1>8. Policy!OnlyGranted(base) /\ Policy!OnlyGranted(here)
  BY <1>4, <1>5, <1>6 DEF Policy!OnlyGranted
<1> QED
  BY <1>1, <1>2, <1>5, <1>6, <1>7, <1>8 DEF Policy!IInv, Policy!HostsAreGranted

\* What a new conversation starts with is within the ceiling in force.
LEMMA NextIsBounded ==
    ASSUME Policy!IInv, NEW p \in {IF next = None THEN here ELSE Policy!Parted, Policy!Fresh}
    PROVE  /\ p \in Policy!PolicyRecords /\ Policy!Bounded(ceiling, p)
           /\ reloads = 0 => Policy!OnlyGranted(p)
<1> DEFINE now == IF next = None THEN here ELSE Policy!Parted
<1>1. now \in Policy!PolicyRecords
  BY PolicyTypes DEF Policy!Parted
<1>2. Policy!Bounded(ceiling, now) /\ (reloads = 0 => now = here /\ Policy!OnlyGranted(here))
  BY DEF Policy!IInv
<1>3. CASE p = now
  BY <1>1, <1>2, <1>3
<1>4. CASE p = Policy!Fresh
  <2>1. CASE next = None
    BY <1>1, <1>2, <1>4, <2>1 DEF Policy!Fresh
  <2>2. CASE next # None
    <3>1. p = [now EXCEPT !.mode = Policy!Starting(ceiling)]
      BY <1>4, <2>2 DEF Policy!Fresh
    <3>2. Policy!Starting(ceiling) \in Policy!Modes
      BY PolicyTypes, ModesAre
    <3>3. reloads # 0
      BY <2>2 DEF Policy!IInv
    <3> HIDE DEF now
    <3> QED
      BY <1>1, <1>2, <3>1, <3>2, <3>3, ModeChanges
  <2> QED
    BY <2>1, <2>2
<1> QED
  BY <1>3, <1>4

\* A conversation is opened with a policy within the ceiling.
LEMMA OpensKeeps ==
    ASSUME Policy!IInv, NEW k \in Conversations, NEW p \in Policy!PolicyRecords,
           Policy!Bounded(ceiling, p), reloads = 0 => Policy!OnlyGranted(p),
           Policy!Opens(k, p), UNCHANGED <<ceiling, granted, reloads>>
    PROVE  /\ open' \in [Conversations -> {None} \cup Policy!PolicyRecords]
           /\ \A j \in Conversations : open'[j] # None =>
                since'[j] \in Ceilings /\ Policy!Bounded(since'[j], open'[j])
           /\ DOMAIN since' = Conversations
           /\ open'[k] = p /\ \A j \in Conversations : open[j] # None => open'[j] # None
           /\ reloads' = 0 => /\ Policy!HostsAreGranted'
                              /\ \A j \in Conversations : open'[j] # None => since'[j] = ceiling'
<1>1. /\ open[k] = None /\ open' = [open EXCEPT ![k] = p] /\ since' = [since EXCEPT ![k] = ceiling]
  BY DEF Policy!Opens
<1>2. /\ open' \in [Conversations -> {None} \cup Policy!PolicyRecords] /\ DOMAIN since' = Conversations
      /\ open'[k] = p /\ since'[k] = ceiling
      /\ \A j \in Conversations : j # k => open'[j] = open[j] /\ since'[j] = since[j]
  BY <1>1, PolicyTypes
<1>3. \A j \in Conversations : open[j] # None =>
        since[j] \in Ceilings /\ Policy!Bounded(since[j], open[j])
  BY DEF Policy!IInv, Policy!Typing
<1>4. \A j \in Conversations : open'[j] # None =>
        since'[j] \in Ceilings /\ Policy!Bounded(since'[j], open'[j])
  BY <1>2, <1>3, PolicyTypes
<1>5. \A q : Policy!OnlyGranted(q)' <=> Policy!OnlyGranted(q)
  BY DEF Policy!OnlyGranted
<1>6. ASSUME reloads' = 0
      PROVE  /\ Policy!HostsAreGranted'
             /\ \A j \in Conversations : open'[j] # None => since'[j] = ceiling'
  <2>1. /\ \A j \in Conversations : open[j] # None => Policy!OnlyGranted(open[j])
        /\ \A j \in Conversations : open[j] # None => since[j] = ceiling
    BY <1>6 DEF Policy!IInv, Policy!HostsAreGranted
  <2>2. \A j \in Conversations : open'[j] # None => Policy!OnlyGranted(open'[j])
    BY <1>2, <1>6, <2>1
  <2>3. \A j \in Conversations : open'[j] # None => Policy!OnlyGranted(open[j])' \/ j = k
    BY <1>2, <1>5, <2>1
  <2>4. Policy!HostsAreGranted'
    BY <1>2, <2>2 DEF Policy!HostsAreGranted, Policy!OnlyGranted
  <2> QED
    BY <1>2, <2>1, <2>4
<1> QED
  BY <1>1, <1>2, <1>4, <1>6

LEMMA OpeningSteps ==
    ASSUME Policy!IInv, NEW k \in Conversations,
           Policy!Start(k) \/ Policy!Reopen(k) \/ Policy!StartSpec(k)
    PROVE  Policy!IInv'
<1>1. UNCHANGED <<ceiling, saved, granted, base, reloads>>
  BY DEF Policy!Start, Policy!Reopen, Policy!StartSpec
<1>2. \A q : Policy!OnlyGranted(q)' <=> Policy!OnlyGranted(q)
  BY <1>1 DEF Policy!OnlyGranted
<1>3. PICK p \in Policy!PolicyRecords :
        /\ Policy!Bounded(ceiling, p) /\ (reloads = 0 => Policy!OnlyGranted(p)) /\ Policy!Opens(k, p)
        /\ Policy!Becomes(k, p) \/ UNCHANGED <<next, here, chat>>
  <2>1. CASE Policy!Start(k)
    <3>1. PICK p : p = IF next = None THEN here ELSE Policy!Parted
      OBVIOUS
    <3>2. Policy!Opens(k, p) /\ Policy!Becomes(k, p)
      BY <2>1, <3>1 DEF Policy!Start
    <3> QED
      BY <3>1, <3>2, NextIsBounded
  <2>2. CASE Policy!Reopen(k)
    <3>1. PICK f : f = Policy!Fresh
      OBVIOUS
    <3>2. /\ f \in Policy!PolicyRecords /\ Policy!Bounded(ceiling, f)
          /\ reloads = 0 => Policy!OnlyGranted(f)
      BY <3>1, NextIsBounded
    <3>3. PICK p : p = [f EXCEPT !.mode = Policy!Starting(ceiling)]
      OBVIOUS
    <3>4. Policy!Opens(k, p) /\ Policy!Becomes(k, p)
      BY <2>2, <3>1, <3>3 DEF Policy!Reopen
    <3>5. Policy!Starting(ceiling) \in Policy!Modes
      BY PolicyTypes, ModesAre
    <3>6. p \in Policy!PolicyRecords /\ Policy!Bounded(ceiling, p) /\ p.fetchList = f.fetchList
      BY <3>2, <3>3, <3>5, ModeChanges
    <3> QED
      BY <3>2, <3>4, <3>6 DEF Policy!OnlyGranted
  <2>3. CASE Policy!StartSpec(k)
    <3>1. PICK p \in Policy!SpecPolicies : Policy!Opens(k, p)
      BY <2>3 DEF Policy!StartSpec
    <3>2. /\ Policy!Bounded(ceiling, base) /\ (reloads = 0 => Policy!OnlyGranted(base))
      BY DEF Policy!IInv
    <3>3. /\ p \in Policy!PolicyRecords /\ p.fetchList = base.fetchList
          /\ Policy!Bounded(ceiling, p)
      BY <3>2, PolicyTypes, SpecsStayBounded
    <3> QED
      BY <2>3, <3>1, <3>2, <3>3 DEF Policy!OnlyGranted, Policy!StartSpec
  <2> QED
    BY <2>1, <2>2, <2>3
<1>4. /\ open' \in [Conversations -> {None} \cup Policy!PolicyRecords]
      /\ \A j \in Conversations : open'[j] # None =>
           since'[j] \in Ceilings /\ Policy!Bounded(since'[j], open'[j])
      /\ DOMAIN since' = Conversations
      /\ open'[k] = p /\ \A j \in Conversations : open[j] # None => open'[j] # None
      /\ reloads' = 0 => /\ Policy!HostsAreGranted'
                         /\ \A j \in Conversations : open'[j] # None => since'[j] = ceiling'
  BY <1>1, <1>3, OpensKeeps
\* Where the next policy is kept, before and after.
<1>5. /\ here' \in Policy!PolicyRecords /\ next' \in {None, Same} \cup Policy!PolicyRecords
      /\ chat' \in {None} \cup Conversations /\ (chat' # None => open'[chat'] # None)
      /\ next' = None <=> reloads' = 0
      /\ reloads' = 0 => Policy!OnlyGranted(here')
      /\ Policy!Bounded(ceiling, IF next' = None THEN here' ELSE Policy!Parted')
  <2>1. /\ next = None <=> reloads = 0
        /\ reloads = 0 => Policy!OnlyGranted(here)
        /\ chat # None => open[chat] # None
        /\ Policy!Bounded(ceiling, IF next = None THEN here ELSE Policy!Parted)
    BY DEF Policy!IInv
  <2>2. p # None /\ None # Same
    BY PolicyFacts
  <2>3. CASE UNCHANGED <<next, here, chat>>
    <3>1. Policy!Parted' = Policy!Parted
      BY <2>3 DEF Policy!Parted
    <3> QED
      BY <1>1, <1>4, <2>1, <2>3, <3>1, PolicyTypes
  <2>4. CASE Policy!Becomes(k, p)
    <3>1. chat' = k /\ here' = p /\ next' = Policy!Parted
      BY <2>4 DEF Policy!Becomes
    <3>2. next = None => next' = None
      BY <2>2, <3>1 DEF Policy!Parted
    <3>3. next # None => next' \in Policy!PolicyRecords /\ next' # None /\ next' # Same
      BY <3>1, PolicyTypes, PolicyFacts DEF Policy!Parted
    <3>4. next # None => Policy!Parted' = next'
      BY <3>3 DEF Policy!Parted
    <3> QED
      BY <1>1, <1>3, <1>4, <2>1, <2>2, <3>1, <3>2, <3>3, <3>4
  <2> QED
    BY <1>3, <2>3, <2>4
<1>6. Policy!Typing'
  BY <1>1, <1>4, <1>5, PolicyTypes DEF Policy!Typing
<1>7. /\ Policy!Bounded(ceiling, base) /\ granted = Policy!Restricted(granted, ceiling)
      /\ reloads = 0 => Policy!OnlyGranted(base)
  BY DEF Policy!IInv
<1>8. /\ Policy!Bounded(ceiling', base') /\ granted' = Policy!Restricted(granted', ceiling')
      /\ Policy!Bounded(ceiling', IF next' = None THEN here' ELSE Policy!Parted')
      /\ reloads' = 0 => Policy!OnlyGranted(base)' /\ Policy!OnlyGranted(here)'
  BY <1>1, <1>5, <1>7 DEF Policy!OnlyGranted
<1>9. (Policy!Restricted(granted, ceiling))' = Policy!Restricted(granted', ceiling')
  BY DEF Policy!Restricted
<1>10. (Policy!Bounded(ceiling, base))' <=> Policy!Bounded(ceiling', base')
  BY DEF Policy!Bounded, Policy!Covers, Policy!Begins
<1> QED
  BY <1>4, <1>5, <1>6, <1>8 DEF Policy!IInv

\* The invariant after a step is what its parts are then.
LEMMA PolicyParts ==
    ASSUME ceiling' \in Ceilings, saved' \in SUBSET Hosts, granted' \in SUBSET Hosts,
           base' \in Policy!PolicyRecords, here' \in Policy!PolicyRecords,
           next' \in {None, Same} \cup Policy!PolicyRecords,
           open' \in [Conversations -> {None} \cup Policy!PolicyRecords],
           chat' \in {None} \cup Conversations, reloads' \in Nat, DOMAIN since' = Conversations,
           \A k \in Conversations : open'[k] # None =>
               since'[k] \in Ceilings /\ Policy!Bounded(since'[k], open'[k]),
           chat' # None => open'[chat'] # None,
           Policy!Bounded(ceiling', base'),
           Policy!Bounded(ceiling', IF next' = None \/ next' = Same THEN here' ELSE next'),
           granted' = Policy!Restricted(granted', ceiling'),
           next' = None <=> reloads' = 0,
           reloads' = 0 =>
               /\ Policy!OnlyGranted(base)' /\ Policy!OnlyGranted(here)'
               /\ \A k \in Conversations : open'[k] # None => since'[k] = ceiling'
               /\ Policy!HostsAreGranted'
    PROVE  Policy!IInv'
<1>1. Policy!Typing'
  BY DEF Policy!Typing
<1>2. (IF next' = None THEN here' ELSE Policy!Parted')
        = IF next' = None \/ next' = Same THEN here' ELSE next'
  BY DEF Policy!Parted
<1> QED
  BY <1>1, <1>2 DEF Policy!IInv

\* What an invariant state says of the parts.
LEMMA PolicyPartsNow ==
    ASSUME Policy!IInv
    PROVE  /\ \A k \in Conversations : open[k] # None =>
                 since[k] \in Ceilings /\ Policy!Bounded(since[k], open[k])
           /\ chat # None => open[chat] # None
           /\ Policy!Bounded(ceiling, base)
           /\ Policy!Bounded(ceiling, IF next = None \/ next = Same THEN here ELSE next)
           /\ granted = Policy!Restricted(granted, ceiling)
           /\ next = None <=> reloads = 0
           /\ reloads = 0 =>
                 /\ Policy!OnlyGranted(base) /\ Policy!OnlyGranted(here)
                 /\ \A k \in Conversations : open[k] # None =>
                       since[k] = ceiling /\ Policy!OnlyGranted(open[k])
<1>1. (IF next = None THEN here ELSE Policy!Parted) = IF next = None \/ next = Same THEN here ELSE next
  BY DEF Policy!Parted
<1> QED
  BY <1>1 DEF Policy!IInv, Policy!Typing, Policy!HostsAreGranted

LEMMA PolicyNoChange ==
    ASSUME Policy!IInv, UNCHANGED policyVars
    PROVE  Policy!IInv'
<1> USE DEF policyVars
<1>1. Policy!Typing'
  BY DEF Policy!IInv, Policy!Typing
<1>2. Policy!HostsAreGranted' <=> Policy!HostsAreGranted
  BY DEF Policy!HostsAreGranted, Policy!OnlyGranted
<1>3. Policy!Parted' = Policy!Parted
  BY DEF Policy!Parted
<1>4. (Policy!OnlyGranted(base)' <=> Policy!OnlyGranted(base))
      /\ (Policy!OnlyGranted(here)' <=> Policy!OnlyGranted(here))
  BY DEF Policy!OnlyGranted
<1> QED
  BY <1>1, <1>2, <1>3, <1>4 DEF Policy!IInv

LEMMA ReloadStep ==
    ASSUME Policy!IInv, Policy!Reload
    PROVE  Policy!IInv'
<1>1. PICK c, hosts, p :
        /\ c \in Ceilings
        /\ hosts = Policy!Restricted(Configured \cup saved, c)
        /\ p = [Policy!Bound(c, Policy!Opened) EXCEPT !.fetchList = hosts, !.mode = Policy!Starting(c)]
        /\ ceiling' = c /\ granted' = hosts /\ base' = p /\ reloads' = reloads + 1
        /\ IF chat = None THEN here' = p /\ next' = Same ELSE next' = p /\ UNCHANGED here
        /\ UNCHANGED <<saved, chat, open, since>>
  BY DEF Policy!Reload
<1>2. hosts \in SUBSET Hosts /\ Policy!Restricted(hosts, c) = hosts
  <2>1. Configured \cup saved \in SUBSET Hosts
    BY PolicyTypes, PolicyFacts
  <2> QED
    BY <1>1, <2>1, HostsAreRestricted
<1>3. PICK b \in Policy!PolicyRecords : b = Policy!Bound(c, Policy!Opened) /\ Policy!Bounded(c, b)
  BY <1>1, OpenedIsPolicy, BoundIsBounded
<1>4. PICK q \in Policy!PolicyRecords : q = [b EXCEPT !.fetchList = hosts] /\ Policy!Bounded(c, q)
  BY <1>2, <1>3, HostsChange
<1>5. p \in Policy!PolicyRecords /\ Policy!Bounded(c, p)
  <2>1. p = [q EXCEPT !.mode = Policy!Starting(c)]
    BY <1>1, <1>3, <1>4
  <2>2. c \in Ceilings
    BY <1>1
  <2>3. Policy!Starting(c) \in Policy!Modes
    BY <2>2, ModesAre
  <2> QED
    BY <1>4, <2>1, <2>3, ModeChanges
<1>6. p # None /\ p # Same /\ None # Same
  BY <1>5, PolicyFacts
<1>7. /\ reloads' \in Nat /\ reloads' # 0
      /\ here' \in Policy!PolicyRecords /\ next' \in {None, Same} \cup Policy!PolicyRecords
      /\ next' # None
      /\ (IF next' = None \/ next' = Same THEN here' ELSE next') = p
  BY <1>1, <1>5, <1>6, PolicyTypes
<1> QED
  BY <1>1, <1>2, <1>5, <1>7, PolicyTypes, PolicyPartsNow, PolicyParts

\* As long as the ceiling and the hosts granted stay, so does what is granted.
LEMMA GrantedStays ==
    ASSUME UNCHANGED <<ceiling, granted>>
    PROVE  /\ \A p : Policy!OnlyGranted(p) <=>
                 p.fetchList \subseteq granted' \cup (IF ceiling'.fetchList = None THEN {} ELSE ceiling'.fetchList)
           /\ Policy!OnlyGranted(base)' <=>
                 base'.fetchList \subseteq granted' \cup (IF ceiling'.fetchList = None THEN {} ELSE ceiling'.fetchList)
           /\ Policy!OnlyGranted(here)' <=>
                 here'.fetchList \subseteq granted' \cup (IF ceiling'.fetchList = None THEN {} ELSE ceiling'.fetchList)
BY DEF Policy!OnlyGranted

LEMMA HostsAfter ==
    ASSUME \A k \in Conversations : open'[k] # None =>
               open'[k].fetchList \subseteq
                 granted' \cup (IF ceiling'.fetchList = None THEN {} ELSE ceiling'.fetchList)
    PROVE  Policy!HostsAreGranted'
BY DEF Policy!HostsAreGranted, Policy!OnlyGranted

LEMMA SwitchStep ==
    ASSUME Policy!IInv, NEW k \in Conversations, Policy!Switch(k)
    PROVE  Policy!IInv'
<1>1. /\ open[k] # None /\ chat' = k /\ here' = open[k] /\ next' = Policy!Parted
      /\ UNCHANGED <<ceiling, saved, granted, base, open, since, reloads>>
  BY DEF Policy!Switch, Policy!Becomes
<1>2. here' \in Policy!PolicyRecords
  BY <1>1, PolicyTypes
<1>3. next' = IF next = Same THEN here ELSE next
  BY <1>1 DEF Policy!Parted
<1>4. here # None /\ here # Same /\ None # Same
  BY PolicyTypes, PolicyFacts
<1>5. next' \in {None, Same} \cup Policy!PolicyRecords /\ (next' = None <=> next = None)
  BY <1>3, <1>4, PolicyTypes
<1>6. Policy!Bounded(ceiling', IF next' = None \/ next' = Same THEN here' ELSE next')
  <2>1. CASE next = None
    BY <1>1, <1>5, <2>1, PolicyPartsNow
  <2>2. CASE next # None
    BY <1>1, <1>3, <1>4, <2>2, PolicyPartsNow
  <2> QED
    BY <2>1, <2>2
<1>7. ASSUME reloads' = 0
      PROVE  /\ Policy!OnlyGranted(base)' /\ Policy!OnlyGranted(here)'
             /\ \A j \in Conversations : open'[j] # None => since'[j] = ceiling'
             /\ Policy!HostsAreGranted'
  <2>1. /\ Policy!OnlyGranted(base)
        /\ \A j \in Conversations : open[j] # None => since[j] = ceiling /\ Policy!OnlyGranted(open[j])
    BY <1>1, <1>7, PolicyPartsNow
  <2> QED
    BY <1>1, <2>1, GrantedStays, HostsAfter
<1> QED
  BY <1>1, <1>2, <1>5, <1>6, <1>7, PolicyTypes, PolicyPartsNow, PolicyParts

LEMMA EndConversationStep ==
    ASSUME Policy!IInv, Policy!EndConversation
    PROVE  Policy!IInv'
<1>1. /\ chat' = None /\ here' = [Policy!Fresh EXCEPT !.mode = Policy!Starting(ceiling)]
      /\ UNCHANGED <<ceiling, saved, granted, base, next, open, since, reloads>>
  BY DEF Policy!EndConversation
<1>2. PICK f : f = Policy!Fresh
  OBVIOUS
<1>3. /\ f \in Policy!PolicyRecords /\ Policy!Bounded(ceiling, f)
      /\ reloads = 0 => Policy!OnlyGranted(f)
  BY <1>2, NextIsBounded
<1>4. here' \in Policy!PolicyRecords /\ Policy!Bounded(ceiling, here') /\ here'.fetchList = f.fetchList
  <2>1. Policy!Starting(ceiling) \in Policy!Modes
    BY PolicyTypes, ModesAre
  <2>2. here' = [f EXCEPT !.mode = Policy!Starting(ceiling)]
    BY <1>1, <1>2
  <2> QED
    BY <1>3, <2>1, <2>2, ModeChanges
<1>5. Policy!Bounded(ceiling', IF next' = None \/ next' = Same THEN here' ELSE next')
  <2>1. CASE next = None \/ next = Same
    BY <1>1, <1>4, <2>1
  <2>2. CASE ~(next = None \/ next = Same)
    BY <1>1, <2>2, PolicyPartsNow
  <2> QED
    BY <2>1, <2>2
<1>6. ASSUME reloads' = 0
      PROVE  /\ Policy!OnlyGranted(base)' /\ Policy!OnlyGranted(here)'
             /\ \A j \in Conversations : open'[j] # None => since'[j] = ceiling'
             /\ Policy!HostsAreGranted'
  <2>1. /\ Policy!OnlyGranted(base)
        /\ \A j \in Conversations : open[j] # None => since[j] = ceiling /\ Policy!OnlyGranted(open[j])
    BY <1>1, <1>6, PolicyPartsNow
  <2>2. Policy!OnlyGranted(here)'
    BY <1>1, <1>3, <1>4, <1>6, GrantedStays
  <2> QED
    BY <1>1, <2>1, <2>2, GrantedStays, HostsAfter
<1> QED
  BY <1>1, <1>4, <1>5, <1>6, PolicyTypes, PolicyPartsNow, PolicyParts

LEMMA CloseConversationStep ==
    ASSUME Policy!IInv, NEW k \in Conversations, Policy!Close(k)
    PROVE  Policy!IInv'
<1>1. /\ k # chat /\ open' = [open EXCEPT ![k] = None] /\ since' = [since EXCEPT ![k] = None]
      /\ UNCHANGED <<ceiling, saved, granted, base, next, here, chat, reloads>>
  BY DEF Policy!Close
<1>2. /\ open' \in [Conversations -> {None} \cup Policy!PolicyRecords] /\ DOMAIN since' = Conversations
      /\ \A j \in Conversations : open'[j] # None =>
           j # k /\ open'[j] = open[j] /\ since'[j] = since[j]
      /\ \A j \in Conversations : j # k => open'[j] = open[j]
  BY <1>1, PolicyTypes
<1>3. ASSUME reloads' = 0
      PROVE  /\ Policy!OnlyGranted(base)' /\ Policy!OnlyGranted(here)'
             /\ \A j \in Conversations : open'[j] # None => since'[j] = ceiling'
             /\ Policy!HostsAreGranted'
  <2>1. /\ Policy!OnlyGranted(base) /\ Policy!OnlyGranted(here)
        /\ \A j \in Conversations : open[j] # None => since[j] = ceiling /\ Policy!OnlyGranted(open[j])
    BY <1>1, <1>3, PolicyPartsNow
  <2> QED
    BY <1>1, <1>2, <2>1, GrantedStays, HostsAfter
<1>4. chat' # None => open'[chat'] # None
  BY <1>1, <1>2, PolicyTypes, PolicyPartsNow
<1>5. \A j \in Conversations : open'[j] # None =>
        since'[j] \in Ceilings /\ Policy!Bounded(since'[j], open'[j])
  BY <1>2, PolicyPartsNow
<1>6. Policy!Bounded(ceiling', IF next' = None \/ next' = Same THEN here' ELSE next')
  BY <1>1, PolicyPartsNow
<1>7. /\ Policy!Bounded(ceiling', base') /\ granted' = Policy!Restricted(granted', ceiling')
      /\ (next' = None <=> reloads' = 0)
  BY <1>1, PolicyPartsNow
<1> QED
  BY <1>1, <1>2, <1>3, <1>4, <1>5, <1>6, <1>7, PolicyTypes, PolicyParts

LEMMA SelectModeStep ==
    ASSUME Policy!IInv, Policy!SelectMode
    PROVE  Policy!IInv'
<1>1. PICK m \in ceiling.modes :
        /\ here' = [here EXCEPT !.mode = m]
        /\ open' = IF chat = None THEN open ELSE [open EXCEPT ![chat].mode = m]
        /\ UNCHANGED <<ceiling, saved, granted, base, next, chat, since, reloads>>
  BY DEF Policy!SelectMode
<1>2. m \in Policy!Modes
  BY <1>1, PolicyTypes, CeilingFields
<1>3. /\ here' \in Policy!PolicyRecords /\ here'.fetchList = here.fetchList
      /\ \A c : Policy!Bounded(c, here) => Policy!Bounded(c, here')
  BY <1>1, <1>2, PolicyTypes, ModeChanges
<1>4. /\ open' \in [Conversations -> {None} \cup Policy!PolicyRecords]
      /\ \A j \in Conversations : open'[j] # None <=> open[j] # None
      /\ \A j \in Conversations : open'[j] # None =>
           /\ open'[j].fetchList = open[j].fetchList
           /\ \A c : Policy!Bounded(c, open[j]) => Policy!Bounded(c, open'[j])
  <2>1. CASE chat = None
    BY <1>1, <2>1, PolicyTypes
  <2>2. CASE chat # None
    <3>1. chat \in Conversations /\ open[chat] \in Policy!PolicyRecords
      BY <2>2, PolicyTypes, PolicyPartsNow
    <3>2. PICK q \in Policy!PolicyRecords :
            /\ q = [open[chat] EXCEPT !.mode = m] /\ q.fetchList = open[chat].fetchList
            /\ \A c : Policy!Bounded(c, open[chat]) => Policy!Bounded(c, q)
      BY <1>2, <3>1, ModeChanges
    <3>3. open' = [open EXCEPT ![chat] = q]
      BY <1>1, <2>2, <3>2
    <3>4. q # None /\ open[chat] # None
      BY <3>1, PolicyFacts
    <3>5. open'[chat] = q /\ \A j \in Conversations : j # chat => open'[j] = open[j]
      BY <3>1, <3>3, PolicyTypes
    <3> QED
      BY <3>1, <3>2, <3>3, <3>4, <3>5, PolicyTypes
  <2> QED
    BY <2>1, <2>2
<1>5. ASSUME reloads' = 0
      PROVE  /\ Policy!OnlyGranted(base)' /\ Policy!OnlyGranted(here)'
             /\ \A j \in Conversations : open'[j] # None => since'[j] = ceiling'
             /\ Policy!HostsAreGranted'
  <2>1. /\ Policy!OnlyGranted(base) /\ Policy!OnlyGranted(here)
        /\ \A j \in Conversations : open[j] # None => since[j] = ceiling /\ Policy!OnlyGranted(open[j])
    BY <1>1, <1>5, PolicyPartsNow
  <2>2. Policy!OnlyGranted(base)' /\ Policy!OnlyGranted(here)'
    BY <1>1, <1>3, <2>1, GrantedStays
  <2>3. \A j \in Conversations : open'[j] # None =>
          open'[j].fetchList \subseteq
            granted' \cup (IF ceiling'.fetchList = None THEN {} ELSE ceiling'.fetchList)
    BY <1>1, <1>4, <2>1, GrantedStays
  <2> QED
    BY <1>1, <1>4, <2>1, <2>2, <2>3, HostsAfter
<1>6. Policy!Bounded(ceiling', IF next' = None \/ next' = Same THEN here' ELSE next')
  BY <1>1, <1>3, PolicyPartsNow
<1>7. /\ Policy!Bounded(ceiling', base') /\ granted' = Policy!Restricted(granted', ceiling')
      /\ (next' = None <=> reloads' = 0) /\ (chat' # None => open'[chat'] # None)
  BY <1>1, <1>4, PolicyPartsNow, PolicyTypes
<1>8. \A j \in Conversations : open'[j] # None =>
        since'[j] \in Ceilings /\ Policy!Bounded(since'[j], open'[j])
  BY <1>1, <1>4, PolicyPartsNow
<1> QED
  BY <1>1, <1>3, <1>4, <1>5, <1>6, <1>7, <1>8, PolicyTypes, PolicyParts

\* Hosts are granted to the project, or removed.
LEMMA EverywhereStep ==
    ASSUME Policy!IInv, NEW gone \in SUBSET Hosts, NEW come \in SUBSET Hosts,
           Policy!Everywhere(gone, come), UNCHANGED <<ceiling, next, chat, since, reloads>>,
           saved' \in SUBSET Hosts, granted' \in SUBSET Hosts,
           granted' = Policy!Restricted(granted', ceiling), granted \ gone \subseteq granted',
           come \subseteq granted'
    PROVE  Policy!IInv'
<1> DEFINE listed == IF ceiling.fetchList = None THEN {} ELSE ceiling.fetchList
<1>1. ASSUME NEW p \in Policy!PolicyRecords
      PROVE  /\ Policy!Rehosted(p, gone, come) \in Policy!PolicyRecords
             /\ \A c : Policy!Bounded(c, p) => Policy!Bounded(c, Policy!Rehosted(p, gone, come))
             /\ Policy!OnlyGranted(p) => Policy!Rehosted(p, gone, come).fetchList \subseteq granted' \cup listed
  <2>1. PICK hosts : hosts = (p.fetchList \ gone) \cup come
    OBVIOUS
  <2>2. hosts \in SUBSET Hosts
    BY <2>1, PolicyFields
  <2>3. PICK q : q = [p EXCEPT !.fetchList = hosts]
    OBVIOUS
  <2>4. /\ q \in Policy!PolicyRecords /\ q.fetchList = hosts
        /\ \A c : Policy!Bounded(c, p) => Policy!Bounded(c, q)
    BY <2>2, <2>3, HostsChange
  <2>5. Policy!Rehosted(p, gone, come) = q
    BY <2>1, <2>3 DEF Policy!Rehosted
  <2>6. Policy!OnlyGranted(p) => hosts \subseteq granted' \cup listed
    BY <2>1 DEF Policy!OnlyGranted
  <2> QED
    BY <2>4, <2>5, <2>6
<1>2. /\ base' = Policy!Rehosted(base, gone, come) /\ here' = Policy!Rehosted(here, gone, come)
      /\ open' = [k \in Conversations |->
                    IF open[k] = None THEN None ELSE Policy!Rehosted(open[k], gone, come)]
  BY DEF Policy!Everywhere
<1>3. /\ base' \in Policy!PolicyRecords /\ here' \in Policy!PolicyRecords
      /\ \A c : /\ Policy!Bounded(c, base) => Policy!Bounded(c, base')
                /\ Policy!Bounded(c, here) => Policy!Bounded(c, here')
      /\ Policy!OnlyGranted(base) => base'.fetchList \subseteq granted' \cup listed
      /\ Policy!OnlyGranted(here) => here'.fetchList \subseteq granted' \cup listed
  BY <1>1, <1>2, PolicyTypes
<1>4. ASSUME NEW j \in Conversations
      PROVE  /\ open'[j] \in {None} \cup Policy!PolicyRecords /\ (open'[j] # None <=> open[j] # None)
             /\ open'[j] # None =>
                  /\ \A c : Policy!Bounded(c, open[j]) => Policy!Bounded(c, open'[j])
                  /\ Policy!OnlyGranted(open[j]) => open'[j].fetchList \subseteq granted' \cup listed
  <2>1. CASE open[j] = None
    BY <1>2, <2>1
  <2>2. CASE open[j] # None
    <3>1. PICK p \in Policy!PolicyRecords : p = open[j]
      BY <2>2, PolicyTypes
    <3>2. open'[j] = Policy!Rehosted(p, gone, come)
      BY <1>2, <2>2, <3>1
    <3> QED
      BY <1>1, <2>2, <3>1, <3>2, PolicyFacts
  <2> QED
    BY <2>1, <2>2
<1>5. open' \in [Conversations -> {None} \cup Policy!PolicyRecords]
  BY <1>2, <1>4
<1>6. ASSUME reloads' = 0
      PROVE  /\ Policy!OnlyGranted(base)' /\ Policy!OnlyGranted(here)'
             /\ \A j \in Conversations : open'[j] # None => since'[j] = ceiling'
             /\ Policy!HostsAreGranted'
  <2>1. /\ Policy!OnlyGranted(base) /\ Policy!OnlyGranted(here)
        /\ \A j \in Conversations : open[j] # None => since[j] = ceiling /\ Policy!OnlyGranted(open[j])
    BY <1>6, PolicyPartsNow
  <2>2. Policy!OnlyGranted(base)' /\ Policy!OnlyGranted(here)'
    BY <1>3, <2>1 DEF Policy!OnlyGranted
  <2>3. Policy!HostsAreGranted'
    BY <1>4, <2>1, HostsAfter
  <2> QED
    BY <1>4, <2>1, <2>2, <2>3
<1>7. Policy!Bounded(ceiling', IF next' = None \/ next' = Same THEN here' ELSE next')
  BY <1>3, PolicyPartsNow
<1>8. /\ Policy!Bounded(ceiling', base') /\ granted' = Policy!Restricted(granted', ceiling')
      /\ (next' = None <=> reloads' = 0) /\ (chat' # None => open'[chat'] # None)
  BY <1>3, <1>4, PolicyPartsNow, PolicyTypes
<1>9. \A j \in Conversations : open'[j] # None =>
        since'[j] \in Ceilings /\ Policy!Bounded(since'[j], open'[j])
  BY <1>4, PolicyPartsNow
<1> QED
  BY <1>3, <1>5, <1>6, <1>7, <1>8, <1>9, PolicyTypes, PolicyParts

LEMMA GrantSteps ==
    ASSUME Policy!IInv, Policy!Grant \/ Policy!Remove
    PROVE  Policy!IInv'
<1>1. CASE Policy!Grant
  <2>1. PICK h, hosts :
          /\ h \in Hosts
          /\ hosts = Policy!Restricted(granted \cup {h}, ceiling)
          /\ saved' = saved \cup {h} /\ granted' = hosts /\ Policy!Everywhere({}, hosts \ granted)
    BY <1>1 DEF Policy!Grant
  <2>2. UNCHANGED <<ceiling, next, chat, since, reloads>>
    BY <1>1 DEF Policy!Grant
  <2>3. granted \cup {h} \in SUBSET Hosts /\ saved' \in SUBSET Hosts
    BY <2>1, PolicyTypes
  <2>4. hosts \in SUBSET Hosts /\ Policy!Restricted(hosts, ceiling) = hosts
    BY <2>1, <2>3, PolicyTypes, HostsAreRestricted
  <2>5. granted \subseteq hosts
    <3>1. granted = Policy!Restricted(granted, ceiling)
      BY PolicyPartsNow
    <3> QED
      BY <2>1, <3>1 DEF Policy!Restricted
  <2>6. hosts \ granted \in SUBSET Hosts /\ {} \in SUBSET Hosts
    BY <2>4
  <2> QED
    BY <2>1, <2>2, <2>3, <2>4, <2>5, <2>6, EverywhereStep
<1>2. CASE Policy!Remove
  <2>1. PICK h, hosts :
          /\ h \in saved
          /\ hosts = Policy!Restricted(Configured \cup (saved \ {h}), ceiling)
          /\ saved' = saved \ {h} /\ granted' = hosts /\ Policy!Everywhere(granted, hosts)
    BY <1>2 DEF Policy!Remove
  <2>2. UNCHANGED <<ceiling, next, chat, since, reloads>>
    BY <1>2 DEF Policy!Remove
  <2>3. Configured \cup (saved \ {h}) \in SUBSET Hosts /\ saved' \in SUBSET Hosts
    BY <2>1, PolicyTypes, PolicyFacts
  <2>4. hosts \in SUBSET Hosts /\ Policy!Restricted(hosts, ceiling) = hosts
    BY <2>1, <2>3, PolicyTypes, HostsAreRestricted
  <2> QED
    BY <2>1, <2>2, <2>3, <2>4, PolicyTypes, EverywhereStep
<1> QED
  BY <1>1, <1>2

LEMMA PolicyStep ==
    ASSUME Policy!IInv, [Policy!Next]_policyVars
    PROVE  Policy!IInv'
<1>1. CASE UNCHANGED policyVars
  BY <1>1, PolicyNoChange
<1>2. CASE \/ Policy!Reload \/ Policy!EndConversation \/ Policy!SelectMode
           \/ Policy!Grant \/ Policy!Remove
  BY <1>2, ReloadStep, EndConversationStep, SelectModeStep, GrantSteps
<1>3. ASSUME NEW k \in Conversations,
             \/ Policy!Start(k) \/ Policy!Reopen(k) \/ Policy!Switch(k) \/ Policy!Close(k)
             \/ Policy!StartSpec(k)
      PROVE  Policy!IInv'
  BY <1>3, OpeningSteps, SwitchStep, CloseConversationStep
<1> QED
  BY <1>1, <1>2, <1>3 DEF Policy!Next

LEMMA PolicyInvariant == Spec => [](part = "policies" => Policy!IInv)
<1>1. Init => (part = "policies" => Policy!IInv)
  BY PolicyInit
<1>2. (part = "policies" => Policy!IInv) /\ [Next]_vars => (part = "policies" => Policy!IInv)'
  BY OnePartMoves, PolicyStep
<1> QED
  BY <1>1, <1>2, PTL DEF Spec

\* The subagents of a conversation are within what its policy is within.
LEMMA DispatchedAre ==
    ASSUME Policy!IInv, NEW k \in Conversations, open[k] # None, NEW a \in Policy!Dispatched(k)
    PROVE  /\ a.role \in Policy!PolicyRecords /\ a.role.tree = open[k].tree
           /\ a.policy \in {Policy!Narrowed(open[k], a.role),
                            Policy!Rerooted(Policy!Narrowed(open[k], a.role), "agent worktree")}
           /\ a.policy \in Policy!PolicyRecords
           /\ \A c : Policy!Bounded(c, open[k]) => Policy!Bounded(c, a.policy)
<1>1. open[k] \in Policy!PolicyRecords
  BY PolicyTypes
<1>2. PICK r \in {open[k]} \cup Policy!RolesFor(k) :
        \/ a = [role |-> r, policy |-> Policy!Narrowed(open[k], r)]
        \/ a = [role |-> r, policy |-> Policy!Rerooted(Policy!Narrowed(open[k], r), "agent worktree")]
  BY DEF Policy!Dispatched
<1>3. r \in Policy!PolicyRecords /\ r.tree = open[k].tree
  BY <1>1, <1>2, PolicyFacts DEF Policy!RolesFor
<1>4. /\ a.role = r
      /\ a.policy \in {Policy!Narrowed(open[k], r),
                       Policy!Rerooted(Policy!Narrowed(open[k], r), "agent worktree")}
  <2>1. PICK n, m : /\ n = Policy!Narrowed(open[k], r)
                    /\ m = Policy!Rerooted(Policy!Narrowed(open[k], r), "agent worktree")
    OBVIOUS
  <2>2. a = [role |-> r, policy |-> n] \/ a = [role |-> r, policy |-> m]
    BY <1>2, <2>1, Zenon
  <2>3. a.role = r /\ a.policy \in {n, m}
    BY <2>2
  <2> QED
    BY <2>1, <2>3, Zenon
<1>5. PICK n \in Policy!PolicyRecords :
        /\ n = Policy!Narrowed(open[k], r)
        /\ \A c : Policy!Bounded(c, open[k]) => Policy!Bounded(c, n)
  BY <1>1, <1>3, NarrowedIsBounded
<1>6. "agent worktree" \in Policy!Trees
  BY DEF Policy!Trees
<1>7. /\ Policy!Rerooted(n, "agent worktree") \in Policy!PolicyRecords
      /\ \A c : Policy!Bounded(c, n) => Policy!Bounded(c, Policy!Rerooted(n, "agent worktree"))
  BY <1>6, TreeChanges
<1> QED
  BY <1>3, <1>4, <1>5, <1>7

\* No reload, grant, change of mode, narrowing or worktree lets a conversation
\* or its subagents past the owner's ceiling of its time; a subagent does
\* unasked what its role may do; and only granted hosts are fetched from
\* unasked (permissions.py, config.py, run.py, leader.py).
THEOREM PoliciesAllHold == Spec => []PoliciesHold
<1>1. Policy!IInv => Policy!LimitsHold
  <2> SUFFICES ASSUME Policy!IInv, NEW k \in Conversations, open[k] # None
               PROVE  /\ Policy!Admits(since[k], open[k])
                      /\ \A a \in Policy!Dispatched(k) : Policy!Admits(since[k], a.policy)
    BY DEF Policy!LimitsHold
  <2>1. since[k] \in Ceilings /\ open[k] \in Policy!PolicyRecords /\ Policy!Bounded(since[k], open[k])
    BY PolicyTypes, PolicyPartsNow
  <2> QED
    BY <2>1, DispatchedAre, BoundedAdmits
<1>2. Policy!IInv => Policy!RolesHold
  <2> SUFFICES ASSUME Policy!IInv, NEW k \in Conversations, open[k] # None,
                      NEW a \in Policy!Dispatched(k), a.policy.mode = "allow"
               PROVE  Policy!MayDo(a.policy, Policy!Rerooted(a.role, a.policy.tree))
    BY DEF Policy!RolesHold
  <2>1. PICK r, p : r = a.role /\ p = a.policy
    OBVIOUS
  <2>2. /\ r \in Policy!PolicyRecords /\ r.tree = open[k].tree
        /\ p \in {Policy!Narrowed(open[k], r), Policy!Rerooted(Policy!Narrowed(open[k], r), "agent worktree")}
    BY <2>1, DispatchedAre
  <2>3. open[k] \in Policy!PolicyRecords /\ p.mode = "allow"
    BY <2>1, PolicyTypes
  <2> QED
    BY <2>1, <2>2, <2>3, NarrowedMayDo
<1>3. Policy!IInv => Policy!HostsAreGranted
  BY DEF Policy!IInv, Policy!HostsAreGranted
<1>4. (part = "policies" => Policy!IInv) => PoliciesHold
  BY <1>1, <1>2, <1>3 DEF PoliciesHold, Policy!PoliciesHold
<1> QED
  BY <1>4, PolicyInvariant, PTL


-----------------------------------------------------------------------------
(* What the frames of a client answer.                                      *)

LEMMA IdsOfAppend ==
    ASSUME NEW q \in Seq(Mcp!Frame), NEW f \in Mcp!Frame
    PROVE  /\ Append(q, f) \in Seq(Mcp!Frame)
           /\ Mcp!Ids(Append(q, f)) \subseteq Mcp!Ids(q) \cup {f.id}
           /\ ~Mcp!IsAnswer(f) => Mcp!Ids(Append(q, f)) = Mcp!Ids(q)
           /\ Mcp!Single(q) /\ (f.id \notin Mcp!Ids(q) \/ ~Mcp!IsAnswer(f))
                => Mcp!Single(Append(q, f))
<1>1. /\ DOMAIN q = 1 .. Len(q) /\ DOMAIN Append(q, f) = 1 .. Len(q) + 1 /\ Len(q) \in Nat
      /\ \A i \in 1 .. Len(q) : Append(q, f)[i] = q[i]
      /\ Append(q, f)[Len(q) + 1] = f
  OBVIOUS
<1>2. \A i \in 1 .. Len(q) + 1 : i \in 1 .. Len(q) \/ i = Len(q) + 1
  BY <1>1
<1>3. \A i \in 1 .. Len(q) : i \in 1 .. Len(q) + 1
  BY <1>1
<1>4. Mcp!Ids(Append(q, f)) \subseteq Mcp!Ids(q) \cup {f.id}
  BY <1>1, <1>2 DEF Mcp!Ids
<1>5. ~Mcp!IsAnswer(f) => Mcp!Ids(Append(q, f)) = Mcp!Ids(q)
  BY <1>1, <1>2, <1>3 DEF Mcp!Ids
<1>6. \A i \in 1 .. Len(q) : Mcp!IsAnswer(q[i]) => q[i].id \in Mcp!Ids(q)
  BY <1>1 DEF Mcp!Ids
<1>7. Mcp!Single(q) /\ (f.id \notin Mcp!Ids(q) \/ ~Mcp!IsAnswer(f)) => Mcp!Single(Append(q, f))
  <2> SUFFICES ASSUME Mcp!Single(q), f.id \notin Mcp!Ids(q) \/ ~Mcp!IsAnswer(f),
                      NEW i \in 1 .. Len(q) + 1, NEW j \in 1 .. Len(q) + 1,
                      Mcp!IsAnswer(Append(q, f)[i]), Mcp!IsAnswer(Append(q, f)[j]),
                      Append(q, f)[i].id = Append(q, f)[j].id
               PROVE  i = j
    BY <1>1 DEF Mcp!Single
  <2>1. CASE i \in 1 .. Len(q) /\ j \in 1 .. Len(q)
    BY <1>1, <2>1 DEF Mcp!Single
  <2>2. CASE i = Len(q) + 1 /\ j \in 1 .. Len(q)
    BY <1>1, <1>6, <2>2
  <2>3. CASE i \in 1 .. Len(q) /\ j = Len(q) + 1
    BY <1>1, <1>6, <2>3
  <2> QED
    BY <1>2, <2>1, <2>2, <2>3
<1> QED
  BY <1>4, <1>5, <1>7

LEMMA IdsAreNumbers ==
    ASSUME NEW q \in Seq(Mcp!Frame)
    PROVE  Mcp!Ids(q) \subseteq Nat
<1>1. \A i \in DOMAIN q : q[i].id \in Nat
  <2>1. \A i \in DOMAIN q : q[i] \in Mcp!Frame
    OBVIOUS
  <2> QED
    BY <2>1 DEF Mcp!Frame
<1> QED
  BY <1>1 DEF Mcp!Ids

LEMMA IdsOfTail ==
    ASSUME NEW q \in Seq(Mcp!Frame), q # <<>>
    PROVE  /\ Tail(q) \in Seq(Mcp!Frame) /\ Head(q) \in Mcp!Frame
           /\ Mcp!Ids(Tail(q)) \subseteq Mcp!Ids(q)
           /\ Mcp!IsAnswer(Head(q)) => Head(q).id \in Mcp!Ids(q)
           /\ Mcp!Single(q) =>
                /\ Mcp!Single(Tail(q))
                /\ Mcp!IsAnswer(Head(q)) => Head(q).id \notin Mcp!Ids(Tail(q))
<1>1. /\ Tail(q) \in Seq(Mcp!Frame) /\ Len(q) \in Nat /\ Len(q) > 0
      /\ Head(q) = q[1] /\ DOMAIN q = 1 .. Len(q) /\ DOMAIN Tail(q) = 1 .. Len(q) - 1
  OBVIOUS
<1>2. \A i \in 1 .. Len(q) - 1 : Tail(q)[i] = q[i + 1]
  BY <1>1
<1>3. /\ 1 \in 1 .. Len(q)
      /\ \A i \in 1 .. Len(q) - 1 : i + 1 \in 1 .. Len(q) /\ i + 1 # 1
  BY <1>1
<1>4. Head(q) \in Mcp!Frame
  BY <1>1, <1>3
<1>5. Mcp!Ids(Tail(q)) \subseteq Mcp!Ids(q)
  BY <1>1, <1>2, <1>3 DEF Mcp!Ids
<1>6. Mcp!IsAnswer(Head(q)) => Head(q).id \in Mcp!Ids(q)
  BY <1>1, <1>3 DEF Mcp!Ids
<1>7. ASSUME Mcp!Single(q)
      PROVE  Mcp!Single(Tail(q))
  <2>1. \A i, j \in 1 .. Len(q) - 1 :
          Mcp!IsAnswer(q[i + 1]) /\ Mcp!IsAnswer(q[j + 1]) /\ q[i + 1].id = q[j + 1].id
            => i + 1 = j + 1
    BY <1>1, <1>3, <1>7 DEF Mcp!Single
  <2>2. \A i, j \in 1 .. Len(q) - 1 : i + 1 = j + 1 => i = j
    OBVIOUS
  <2> QED
    BY <1>1, <1>2, <2>1, <2>2 DEF Mcp!Single
<1>8. ASSUME Mcp!Single(q), Mcp!IsAnswer(Head(q))
      PROVE  Head(q).id \notin Mcp!Ids(Tail(q))
  BY <1>1, <1>2, <1>3, <1>8 DEF Mcp!Single, Mcp!Ids
<1> QED
  BY <1>1, <1>4, <1>5, <1>6, <1>7, <1>8

-----------------------------------------------------------------------------
(* The calls of the tools of a server: McpServer.                           *)

LEMMA McpTypes ==
    ASSUME Mcp!IInv
    PROVE  /\ poolOpen \in BOOLEAN /\ current \in 0 .. made /\ made \in 1 .. MaxClients
           /\ current \in 0 .. MaxClients /\ made \in Nat /\ MaxClients \in Nat
           /\ starter \subseteq Callers
           /\ ready \subseteq Mcp!Clients /\ strayed = {}
           /\ mcpProcess \in [Mcp!Clients -> {"none", "running", "exited", "closed"}]
           /\ lastId \in [Mcp!Clients -> Nat] /\ cancelled \in [Mcp!Clients -> SUBSET Nat]
           /\ asked \in [Mcp!Clients -> SUBSET Nat]
           /\ frames \in [Mcp!Clients -> Seq(Mcp!Frame)]
           /\ locked \in [Mcp!Clients -> SUBSET Callers]
           /\ call \in [Callers -> Mcp!Calls]
           /\ Mcp!Clients = 1 .. MaxClients
BY McpParameters DEF Mcp!IInv, Mcp!Typing, Mcp!Clients, Mcp!McpAssumption, Mcp!ServerIsKept,
   Mcp!LateAnswersPass

LEMMA McpInit == Init => Mcp!IInv
<1> SUFFICES ASSUME Mcp!Init
             PROVE  Mcp!IInv
  BY DEF Init
<1>1. /\ poolOpen = TRUE /\ current = 1 /\ starter = {} /\ made = 1
      /\ ready \subseteq {1} /\ lastId = [g \in Mcp!Clients |-> 0]
      /\ cancelled = [g \in Mcp!Clients |-> {}] /\ frames = [g \in Mcp!Clients |-> <<>>]
      /\ asked = [g \in Mcp!Clients |-> {}] /\ locked = [g \in Mcp!Clients |-> {}]
      /\ strayed = {} /\ call = [c \in Callers |-> Mcp!NoCall]
      /\ mcpProcess \in [Mcp!Clients -> {"none", "running"}]
      /\ \A g \in Mcp!Clients : g # 1 => mcpProcess[g] = "none"
  BY DEF Mcp!Init
<1>2. 1 \in Mcp!Clients /\ Mcp!Clients = 1 .. MaxClients /\ MaxClients \in Nat
  BY McpParameters DEF Mcp!Clients, Mcp!McpAssumption
<1>3. Mcp!NoCall \in Mcp!Calls /\ Mcp!NoCall.stage = "idle"
  BY <1>2 DEF Mcp!NoCall, Mcp!Calls
<1>4. Mcp!Typing
  <2>1. frames \in [Mcp!Clients -> Seq(Mcp!Frame)]
    BY <1>1
  <2> QED
    BY <1>1, <1>2, <1>3, <2>1 DEF Mcp!Typing
<1>5. Mcp!Locks
  BY <1>1, <1>3 DEF Mcp!Locks, Mcp!Starting
<1>6. Mcp!Ids(<<>>) = {} /\ Mcp!Single(<<>>)
  BY DEF Mcp!Ids, Mcp!Single
<1>7. \A g \in Mcp!Clients : Mcp!Expected(g)
  BY <1>1, <1>2, <1>6 DEF Mcp!Expected
<1>8. Mcp!ServerIsKept
  BY <1>1 DEF Mcp!ServerIsKept, Mcp!LateAnswersPass, Mcp!NoProcessIsLeft
<1> QED
  BY <1>4, <1>5, <1>7, <1>8 DEF Mcp!IInv

\* A process ends: it runs no more, and nothing more is answered.
LEMMA EndOfClient ==
    ASSUME Mcp!IInv, NEW g \in 0 .. MaxClients, NEW how \in {"exited", "closed"},
           Mcp!EndOf(g, how)
    PROVE  /\ mcpProcess' \in [Mcp!Clients -> {"none", "running", "exited", "closed"}]
           /\ frames' \in [Mcp!Clients -> Seq(Mcp!Frame)]
           /\ \A h \in Mcp!Clients :
                /\ mcpProcess'[h] = "none" <=> mcpProcess[h] = "none"
                /\ mcpProcess'[h] = "running" <=> mcpProcess[h] = "running" /\ h # g
                /\ Mcp!Ids(frames'[h]) = Mcp!Ids(frames[h])
                /\ Mcp!Single(frames'[h])
                /\ mcpProcess[h] = "none" => frames'[h] = frames[h]
<1> DEFINE eof == [kind |-> "eof", id |-> 0]
<1>1. /\ mcpProcess' = [mcpProcess EXCEPT ![g] = IF @ = "none" THEN @ ELSE how]
      /\ frames' = [frames EXCEPT ![g] = IF mcpProcess[g] = "running" THEN Append(@, eof) ELSE @]
  BY DEF Mcp!EndOf
<1>2. eof \in Mcp!Frame /\ ~Mcp!IsAnswer(eof)
  BY DEF Mcp!Frame, Mcp!IsAnswer
<1> HIDE DEF eof
<1>3. \A h \in Mcp!Clients : frames[h] \in Seq(Mcp!Frame) /\ Mcp!Single(frames[h])
  BY McpTypes DEF Mcp!IInv, Mcp!Expected
<1>4. \A h \in Mcp!Clients : Append(frames[h], eof) \in Seq(Mcp!Frame)
  BY <1>2, <1>3, IdsOfAppend
<1>5. mcpProcess' \in [Mcp!Clients -> {"none", "running", "exited", "closed"}]
  BY <1>1, McpTypes
<1>6. frames' \in [Mcp!Clients -> Seq(Mcp!Frame)]
  BY <1>1, <1>4, McpTypes
<1>7. ASSUME NEW h \in Mcp!Clients
      PROVE  /\ mcpProcess'[h] = "none" <=> mcpProcess[h] = "none"
             /\ mcpProcess'[h] = "running" <=> mcpProcess[h] = "running" /\ h # g
             /\ \/ frames'[h] = frames[h]
                \/ frames'[h] = Append(frames[h], eof) /\ mcpProcess[h] = "running"
  <2>1. CASE h = g
    <3>1. /\ mcpProcess'[h] = IF mcpProcess[h] = "none" THEN mcpProcess[h] ELSE how
          /\ mcpProcess[h] \in {"none", "running", "exited", "closed"}
      BY <1>1, <2>1, McpTypes
    <3>2. frames'[h] = IF mcpProcess[h] = "running" THEN Append(frames[h], eof) ELSE frames[h]
      BY <1>1, <2>1, McpTypes
    <3>3. mcpProcess'[h] = "none" <=> mcpProcess[h] = "none"
      BY <3>1
    <3>4. mcpProcess'[h] # "running"
      BY <3>1
    <3> QED
      BY <2>1, <3>2, <3>3, <3>4
  <2>2. CASE h # g
    <3>1. mcpProcess'[h] = mcpProcess[h]
      BY <1>1, <2>2, McpTypes
    <3>2. frames'[h] = frames[h]
      BY <1>1, <2>2, McpTypes
    <3> QED
      BY <2>2, <3>1, <3>2
  <2> QED
    BY <2>1, <2>2
<1>8. ASSUME NEW h \in Mcp!Clients
      PROVE  /\ Mcp!Ids(Append(frames[h], eof)) = Mcp!Ids(frames[h])
             /\ Mcp!Single(Append(frames[h], eof))
  BY <1>2, <1>3, IdsOfAppend
<1> QED
  BY <1>3, <1>5, <1>6, <1>7, <1>8

\* What is expected of a client stays so where nothing more may be answered, and
\* whatever is waited for or given up still is.
LEMMA ExpectedKept ==
    ASSUME NEW g, Mcp!Expected(g), UNCHANGED made,
           mcpProcess'[g] = "none" <=> mcpProcess[g] = "none",
           mcpProcess[g] = "none" => frames'[g] = frames[g],
           asked'[g] \subseteq asked[g], lastId'[g] = lastId[g],
           Mcp!Ids(frames'[g]) \subseteq Mcp!Ids(frames[g]), Mcp!Single(frames'[g]),
           mcpProcess'[g] = "running" \/ locked'[g] # {} =>
             /\ mcpProcess[g] = "running" \/ locked[g] # {}
             /\ cancelled[g] \subseteq cancelled'[g]
             /\ \A c \in locked[g] : \/ call[c].id \in cancelled'[g]
                                     \/ c \in locked'[g] /\ call'[c].id = call[c].id
    PROVE  Mcp!Expected(g)'
BY DEF Mcp!Expected

\* A request is over: what the caller does next.
LEMMA EndsOfCall ==
    ASSUME Mcp!IInv, NEW c \in Callers, NEW ok \in BOOLEAN, Mcp!Ends(c, ok)
    PROVE  /\ call' \in [Callers -> Mcp!Calls]
           /\ \A d \in Callers : d # c => call'[d] = call[d]
           /\ call'[c].client = call[c].client /\ call'[c].id = call[c].id
           /\ call[c].kind = "call" => call'[c].stage = "done"
           /\ call[c].kind # "call" =>
                \/ call'[c].stage = "listed"
                \/ call'[c].stage = "asking" /\ call'[c].kind # "call"
<1>1. call[c] \in Mcp!Calls
  BY McpTypes
<1> DEFINE stage_ == IF call[c].kind = "call" THEN "done"
                     ELSE IF ok /\ call[c].kind = "initialize" THEN "asking" ELSE "listed"
           kind_ == IF ok /\ call[c].kind = "initialize" THEN "list" ELSE call[c].kind
<1>2. call' = [call EXCEPT ![c].ok = ok, ![c].stage = stage_, ![c].kind = kind_]
  BY DEF Mcp!Ends
<1>3. stage_ \in {"done", "asking", "listed"} /\ kind_ \in {"call", "initialize", "list"}
  BY <1>1 DEF Mcp!Calls
<1>4. /\ call[c].kind # "call" => kind_ # "call"
      /\ call[c].kind = "call" => stage_ = "done"
      /\ call[c].kind # "call" => stage_ \in {"asking", "listed"}
  OBVIOUS
<1> HIDE DEF stage_, kind_
<1>5. /\ call' \in [Callers -> Mcp!Calls]
      /\ \A d \in Callers : d # c => call'[d] = call[d]
      /\ call'[c].client = call[c].client /\ call'[c].id = call[c].id
      /\ call'[c].stage = stage_ /\ call'[c].kind = kind_
  <2>1. PICK r : r = [call[c] EXCEPT !.ok = ok, !.stage = stage_, !.kind = kind_]
    OBVIOUS
  <2>2. /\ r \in Mcp!Calls /\ r.client = call[c].client /\ r.id = call[c].id
        /\ r.stage = stage_ /\ r.kind = kind_
    BY <1>1, <1>3, <2>1 DEF Mcp!Calls
  <2>3. call' = [call EXCEPT ![c] = r]
    BY <1>2, <2>1
  <2> QED
    BY <2>2, <2>3, McpTypes
<1> QED
  BY <1>4, <1>5

\* A caller that waits for nothing before or after the step disturbs no lock of
\* a client.
LEMMA LocksOfClientsKept ==
    ASSUME Mcp!Locks, NEW c \in Callers, UNCHANGED locked,
           \A d \in Callers : d # c => call'[d] = call[d],
           call[c].stage # "waiting", call'[c].stage # "waiting"
    PROVE  /\ \A d \in Callers, g \in Mcp!Clients :
                d \in locked'[g] <=> call'[d].stage = "waiting" /\ call'[d].client = g
           /\ \A g \in Mcp!Clients : \A d, e \in locked'[g] : d = e
           /\ \A g \in Mcp!Clients : \A d \in locked[g] : d \in Callers => call'[d] = call[d]
BY DEF Mcp!Locks

\* Whoever has the lock of a client waits for it, with its request.
LEMMA WaitersAreKept ==
    ASSUME Mcp!IInv, NEW c \in Callers, \A d \in Callers : d # c => call'[d] = call[d],
           call[c].stage # "waiting", NEW g \in Mcp!Clients
    PROVE  Mcp!Expected(g) /\ \A d \in locked[g] : d \in Callers /\ call'[d].id = call[d].id
<1>1. locked[g] \subseteq Callers /\ c \notin locked[g]
  BY McpTypes DEF Mcp!IInv, Mcp!Locks
<1> QED
  BY <1>1 DEF Mcp!IInv

\* While one does not wait for a client it starts, only the pool's runs.
LEMMA RunningIsCurrent ==
    ASSUME Mcp!IInv, \A c \in starter : call[c].client \in {0, current}
    PROVE  \A g \in Mcp!Clients : mcpProcess[g] = "running" => g = current
<1>1. \A g \in Mcp!Clients : g # 0
  BY McpTypes
<1> QED
  BY <1>1 DEF Mcp!IInv, Mcp!ServerIsKept, Mcp!NoProcessIsLeft

LEMMA EnsureStep ==
    ASSUME Mcp!IInv, NEW c \in Callers, Mcp!Ensure(c)
    PROVE  Mcp!IInv'
<1>1. /\ call[c].stage = "idle" /\ starter = {} /\ starter' = {c}
      /\ call' = [call EXCEPT ![c] = [Mcp!NoCall EXCEPT !.stage = "ensuring"]]
      /\ UNCHANGED <<poolOpen, current, made, mcpProcess, ready, lastId, cancelled, frames,
                     asked, locked, strayed>>
  BY DEF Mcp!Ensure, Mcp!clientVars
<1>2. PICK r \in Mcp!Calls : /\ r = [Mcp!NoCall EXCEPT !.stage = "ensuring"]
                             /\ r.stage = "ensuring" /\ r.client = 0
  <2>1. PICK r : r = [Mcp!NoCall EXCEPT !.stage = "ensuring"]
    OBVIOUS
  <2>2. r \in Mcp!Calls /\ r.stage = "ensuring" /\ r.client = 0
    <3>1. 0 \in 0 .. MaxClients
      BY McpTypes
    <3> QED
      BY <2>1, <3>1 DEF Mcp!NoCall, Mcp!Calls
  <2> QED
    BY <2>1, <2>2
<1>3. /\ call' \in [Callers -> Mcp!Calls] /\ call'[c] = r
      /\ \A d \in Callers : d # c => call'[d] = call[d]
  BY <1>1, <1>2, McpTypes
<1>4. Mcp!Typing'
  BY <1>1, <1>3 DEF Mcp!IInv, Mcp!Typing
<1>5. Mcp!Locks'
  <2>1. /\ \A d \in Callers, g \in Mcp!Clients :
             d \in locked'[g] <=> call'[d].stage = "waiting" /\ call'[d].client = g
        /\ \A g \in Mcp!Clients : \A d, e \in locked'[g] : d = e
    BY <1>1, <1>2, <1>3, LocksOfClientsKept DEF Mcp!IInv
  <2> QED
    BY <1>1, <1>2, <1>3, <2>1 DEF Mcp!IInv, Mcp!Locks, Mcp!Starting
<1>6. ASSUME NEW g \in Mcp!Clients
      PROVE  Mcp!Expected(g)'
  <2>1. Mcp!Expected(g) /\ \A d \in locked[g] : d \in Callers /\ call'[d].id = call[d].id
    BY <1>1, <1>3, WaitersAreKept
  <2> QED
    BY <1>1, <2>1 DEF Mcp!Expected
<1>7. Mcp!ServerIsKept'
  BY <1>1 DEF Mcp!IInv, Mcp!ServerIsKept, Mcp!LateAnswersPass, Mcp!NoProcessIsLeft
<1> QED
  BY <1>4, <1>5, <1>6, <1>7 DEF Mcp!IInv

LEMMA CheckedStep ==
    ASSUME Mcp!IInv, NEW c \in Callers, Mcp!Checked(c)
    PROVE  Mcp!IInv'
<1>1. /\ call[c].stage \in {"ensuring", "started"} /\ starter' = {}
      /\ UNCHANGED <<poolOpen, current, made, mcpProcess, ready, lastId, cancelled, frames,
                     asked, locked, strayed>>
  BY DEF Mcp!Checked, Mcp!clientVars
<1>2. PICK r \in Mcp!Calls :
        /\ call' = [call EXCEPT ![c] = r]
        /\ \/ r.stage = "done"
           \/ r.stage = "approving" /\ r.kind = "call" /\ r.client \in 1 .. made
  <2>1. CASE Mcp!Serves(current) /\ call' = [call EXCEPT ![c] =
               [Mcp!NoCall EXCEPT !.stage = "approving", !.client = current]]
    <3>1. current \in 1 .. made /\ current \in 0 .. MaxClients
      BY <2>1, McpTypes DEF Mcp!Serves
    <3>2. PICK r : r = [Mcp!NoCall EXCEPT !.stage = "approving", !.client = current]
      OBVIOUS
    <3>3. r \in Mcp!Calls /\ r.stage = "approving" /\ r.kind = "call" /\ r.client = current
      BY <3>1, <3>2 DEF Mcp!NoCall, Mcp!Calls
    <3> QED
      BY <2>1, <3>1, <3>2, <3>3
  <2>2. CASE Mcp!Goes(c, "done")
    <3>1. PICK r : r = [call[c] EXCEPT !.stage = "done"]
      OBVIOUS
    <3>2. r \in Mcp!Calls /\ r.stage = "done"
      BY <3>1, McpTypes DEF Mcp!Calls
    <3>3. call' = [call EXCEPT ![c] = r]
      BY <2>2, <3>1 DEF Mcp!Goes
    <3> QED
      BY <3>2, <3>3
  <2> QED
    BY <2>1, <2>2 DEF Mcp!Checked
<1>3. /\ call' \in [Callers -> Mcp!Calls] /\ call'[c] = r
      /\ \A d \in Callers : d # c => call'[d] = call[d]
  BY <1>2, McpTypes
<1>4. Mcp!Typing'
  BY <1>1, <1>3 DEF Mcp!IInv, Mcp!Typing
<1>5. starter = {c}
  BY <1>1, McpTypes DEF Mcp!IInv, Mcp!Locks, Mcp!Starting
<1>6. Mcp!Locks'
  <2>1. /\ \A d \in Callers, g \in Mcp!Clients :
             d \in locked'[g] <=> call'[d].stage = "waiting" /\ call'[d].client = g
        /\ \A g \in Mcp!Clients : \A d, e \in locked'[g] : d = e
    BY <1>1, <1>2, <1>3, LocksOfClientsKept DEF Mcp!IInv
  <2> QED
    BY <1>1, <1>2, <1>3, <1>5, <2>1 DEF Mcp!IInv, Mcp!Locks, Mcp!Starting
<1>7. ASSUME NEW g \in Mcp!Clients
      PROVE  Mcp!Expected(g)'
  <2>1. Mcp!Expected(g) /\ \A d \in locked[g] : d \in Callers /\ call'[d].id = call[d].id
    BY <1>1, <1>3, WaitersAreKept
  <2> QED
    BY <1>1, <2>1 DEF Mcp!Expected
<1>8. Mcp!ServerIsKept'
  <2>1. \A g \in Mcp!Clients : mcpProcess[g] = "running" => g = current
    <3>1. call[c].client \in {0, current}
      BY <1>1 DEF Mcp!IInv, Mcp!Locks
    <3> QED
      BY <1>5, <3>1, RunningIsCurrent
  <2> QED
    BY <1>1, <2>1 DEF Mcp!IInv, Mcp!ServerIsKept, Mcp!LateAnswersPass, Mcp!NoProcessIsLeft
<1> QED
  BY <1>4, <1>6, <1>7, <1>8 DEF Mcp!IInv

\* The process of a client that is started is a new one.
LEMMA ConnectStep ==
    ASSUME Mcp!IInv, NEW c \in Callers, Mcp!Connect(c)
    PROVE  Mcp!IInv'
<1> DEFINE n == made + 1
<1>1. /\ call[c].stage = "ensuring" /\ made < MaxClients /\ made' = n
      /\ UNCHANGED <<poolOpen, current, starter, ready, lastId, cancelled, frames, asked,
                     locked, strayed>>
  BY DEF Mcp!Connect
<1>2. n \in Mcp!Clients /\ n \in Nat /\ n > made /\ n # 0
  BY <1>1, McpTypes
<1>3. PICK r \in Mcp!Calls, p \in {"none", "running"} :
        /\ call' = [call EXCEPT ![c] = r] /\ r.client = n
        /\ (r.stage = "asking" /\ r.kind # "call") \/ r.stage = "listed"
        /\ mcpProcess' = [mcpProcess EXCEPT ![n] = p]
  <2>0. n \in 0 .. MaxClients
    BY <1>2, McpTypes
  <2>1. CASE /\ mcpProcess' = [mcpProcess EXCEPT ![n] = "running"]
             /\ call' = [call EXCEPT ![c] = [Mcp!NoCall EXCEPT !.stage = "asking",
                                               !.client = n, !.kind = "initialize"]]
    <3>1. PICK r : r = [Mcp!NoCall EXCEPT !.stage = "asking", !.client = n, !.kind = "initialize"]
      OBVIOUS
    <3>2. r \in Mcp!Calls /\ r.stage = "asking" /\ r.kind = "initialize" /\ r.client = n
      BY <2>0, <3>1 DEF Mcp!NoCall, Mcp!Calls
    <3> QED
      BY <2>1, <3>1, <3>2
  <2>2. CASE /\ UNCHANGED mcpProcess
             /\ call' = [call EXCEPT ![c] = [Mcp!NoCall EXCEPT !.stage = "listed", !.client = n]]
    <3>1. PICK r : r = [Mcp!NoCall EXCEPT !.stage = "listed", !.client = n]
      OBVIOUS
    <3>2. r \in Mcp!Calls /\ r.stage = "listed" /\ r.client = n
      BY <2>0, <3>1 DEF Mcp!NoCall, Mcp!Calls
    <3>3. mcpProcess[n] = "none"
      BY <1>2 DEF Mcp!IInv, Mcp!Expected
    <3>4. mcpProcess' = [mcpProcess EXCEPT ![n] = "none"]
      BY <2>2, <3>3, McpTypes
    <3> QED
      BY <2>2, <3>1, <3>2, <3>4
  <2> QED
    BY <1>1, <2>1, <2>2 DEF Mcp!Connect
<1> HIDE DEF n
<1>4. /\ call' \in [Callers -> Mcp!Calls] /\ call'[c] = r
      /\ \A d \in Callers : d # c => call'[d] = call[d]
  BY <1>3, McpTypes
<1>5. /\ mcpProcess' \in [Mcp!Clients -> {"none", "running", "exited", "closed"}]
      /\ mcpProcess'[n] = p /\ \A g \in Mcp!Clients : g # n => mcpProcess'[g] = mcpProcess[g]
  BY <1>2, <1>3, McpTypes
<1>6. Mcp!Typing'
  <2>1. current \in 0 .. made' /\ made' \in Mcp!Clients
    BY <1>1, <1>2, McpTypes
  <2> QED
    BY <1>1, <1>4, <1>5, <2>1 DEF Mcp!IInv, Mcp!Typing
<1>7. starter = {c}
  BY <1>1, McpTypes DEF Mcp!IInv, Mcp!Locks, Mcp!Starting
<1>8. Mcp!Locks'
  <2>1. /\ \A d \in Callers, g \in Mcp!Clients :
             d \in locked'[g] <=> call'[d].stage = "waiting" /\ call'[d].client = g
        /\ \A g \in Mcp!Clients : \A d, e \in locked'[g] : d = e
    BY <1>1, <1>3, <1>4, LocksOfClientsKept DEF Mcp!IInv
  <2>2. n \in 1 .. made' /\ \A x \in 1 .. made : x \in 1 .. made'
    BY <1>1, <1>2, McpTypes
  <2>3. \A d \in Callers : d \in starter' <=> Mcp!Starting(d)'
    BY <1>1, <1>3, <1>4, <1>7 DEF Mcp!IInv, Mcp!Locks, Mcp!Starting
  <2>4. \A d \in Callers :
          /\ call'[d].stage \in {"approving", "asking", "waiting", "listed", "started"} =>
               call'[d].client \in 1 .. made'
          /\ call'[d].stage = "ensuring" => call'[d].client = 0
          /\ call'[d].stage = "approving" => call'[d].kind = "call"
          /\ call'[d].stage = "started" => call'[d].client = current'
    BY <1>1, <1>3, <1>4, <2>2 DEF Mcp!IInv, Mcp!Locks
  <2>5. \A d, e \in starter' : d = e
    BY <1>1, <1>7
  <2> QED
    BY <2>1, <2>3, <2>4, <2>5 DEF Mcp!Locks
<1>9. ASSUME NEW g \in Mcp!Clients
      PROVE  Mcp!Expected(g)'
  <2>1. Mcp!Expected(g) /\ \A d \in locked[g] : d \in Callers /\ call'[d].id = call[d].id
    BY <1>1, <1>4, WaitersAreKept
  <2>2. CASE g # n
    <3>1. mcpProcess'[g] = mcpProcess[g] /\ (g > made' => g > made)
      BY <1>1, <1>2, <1>5, <2>2, McpTypes
    <3> QED
      BY <1>1, <2>1, <3>1 DEF Mcp!Expected
  <2>3. CASE g = n
    <3>1. mcpProcess[n] = "none" /\ frames[n] = <<>> /\ asked[n] = {} /\ Mcp!Single(frames[n])
      BY <1>2, <2>1, <2>3 DEF Mcp!Expected
    <3>2. Mcp!Ids(<<>>) = {}
      BY DEF Mcp!Ids
    <3>3. ~(n > made')
      BY <1>1, <1>2
    <3> QED
      BY <1>1, <2>3, <3>1, <3>2, <3>3 DEF Mcp!Expected
  <2> QED
    BY <2>2, <2>3
<1>10. Mcp!ServerIsKept'
  <2>1. \A g \in Mcp!Clients : mcpProcess[g] = "running" => g = current
    <3>1. call[c].client \in {0, current}
      BY <1>1 DEF Mcp!IInv, Mcp!Locks
    <3> QED
      BY <1>7, <3>1, RunningIsCurrent
  <2>2. c \in starter' /\ call'[c].client = n
    BY <1>1, <1>3, <1>4, <1>7
  <2> QED
    BY <1>1, <1>5, <2>1, <2>2 DEF Mcp!IInv, Mcp!ServerIsKept, Mcp!LateAnswersPass, Mcp!NoProcessIsLeft
<1> QED
  BY <1>6, <1>8, <1>9, <1>10 DEF Mcp!IInv

\* The client that was started takes the place of the pool's, which is closed.
LEMMA InstallStep ==
    ASSUME Mcp!IInv, NEW c \in Callers, Mcp!Install(c)
    PROVE  Mcp!IInv'
<1> DEFINE g == call[c].client
<1>1. /\ call[c].stage = "listed" /\ Mcp!EndOf(current, "closed") /\ current' = g
      /\ ready' = (IF call[c].ok THEN ready \cup {g} ELSE ready) /\ Mcp!Goes(c, "started")
      /\ UNCHANGED <<poolOpen, starter, made, lastId, cancelled, asked, locked, strayed>>
  BY DEF Mcp!Install
<1>2. g \in 1 .. made /\ g \in Mcp!Clients
  <2>1. g \in 1 .. made
    BY <1>1 DEF Mcp!IInv, Mcp!Locks
  <2> QED
    BY <2>1, McpTypes
<1>3. PICK r \in Mcp!Calls : /\ call' = [call EXCEPT ![c] = r] /\ r.stage = "started"
                             /\ r.client = g
  <2>1. PICK r : r = [call[c] EXCEPT !.stage = "started"]
    OBVIOUS
  <2>2. r \in Mcp!Calls /\ r.stage = "started" /\ r.client = g
    BY <2>1, McpTypes DEF Mcp!Calls
  <2>3. call' = [call EXCEPT ![c] = r]
    BY <1>1, <2>1 DEF Mcp!Goes
  <2> QED
    BY <2>2, <2>3
<1>4. /\ call' \in [Callers -> Mcp!Calls] /\ call'[c] = r
      /\ \A d \in Callers : d # c => call'[d] = call[d]
  BY <1>3, McpTypes
<1>5. /\ mcpProcess' \in [Mcp!Clients -> {"none", "running", "exited", "closed"}]
      /\ frames' \in [Mcp!Clients -> Seq(Mcp!Frame)]
      /\ \A h \in Mcp!Clients :
           /\ mcpProcess'[h] = "none" <=> mcpProcess[h] = "none"
           /\ mcpProcess'[h] = "running" <=> mcpProcess[h] = "running" /\ h # current
           /\ Mcp!Ids(frames'[h]) = Mcp!Ids(frames[h]) /\ Mcp!Single(frames'[h])
           /\ mcpProcess[h] = "none" => frames'[h] = frames[h]
  BY <1>1, EndOfClient, McpTypes
<1> HIDE DEF g
<1>6. Mcp!Typing'
  <2>1. current' \in 0 .. made' /\ ready' \subseteq Mcp!Clients
    BY <1>1, <1>2, McpTypes
  <2> QED
    BY <1>1, <1>4, <1>5, <2>1 DEF Mcp!IInv, Mcp!Typing
<1>7. starter = {c}
  BY <1>1, McpTypes DEF Mcp!IInv, Mcp!Locks, Mcp!Starting
<1>8. Mcp!Locks'
  <2>1. /\ \A d \in Callers, h \in Mcp!Clients :
             d \in locked'[h] <=> call'[d].stage = "waiting" /\ call'[d].client = h
        /\ \A h \in Mcp!Clients : \A d, e \in locked'[h] : d = e
    BY <1>1, <1>3, <1>4, LocksOfClientsKept DEF Mcp!IInv
  <2>2. \A d \in Callers : d # c => call[d].stage # "started"
    BY <1>7 DEF Mcp!IInv, Mcp!Locks, Mcp!Starting
  <2> QED
    BY <1>1, <1>2, <1>3, <1>4, <1>7, <2>1, <2>2 DEF Mcp!IInv, Mcp!Locks, Mcp!Starting
<1>9. ASSUME NEW h \in Mcp!Clients
      PROVE  Mcp!Expected(h)'
  <2>1. Mcp!Expected(h) /\ \A d \in locked[h] : d \in Callers /\ call'[d].id = call[d].id
    BY <1>1, <1>4, WaitersAreKept
  <2>2. /\ mcpProcess'[h] = "none" <=> mcpProcess[h] = "none"
        /\ mcpProcess[h] = "none" => frames'[h] = frames[h]
        /\ Mcp!Ids(frames'[h]) \subseteq Mcp!Ids(frames[h]) /\ Mcp!Single(frames'[h])
        /\ mcpProcess'[h] = "running" => mcpProcess[h] = "running"
    BY <1>5
  <2> QED
    BY <1>1, <2>1, <2>2, ExpectedKept
<1>10. Mcp!ServerIsKept'
  <2>1. \A h \in Mcp!Clients : mcpProcess'[h] = "running" => h = g
    BY <1>5, <1>7 DEF Mcp!IInv, Mcp!ServerIsKept, Mcp!NoProcessIsLeft, g
  <2> QED
    BY <1>1, <2>1 DEF Mcp!IInv, Mcp!ServerIsKept, Mcp!LateAnswersPass, Mcp!NoProcessIsLeft
<1> QED
  BY <1>6, <1>8, <1>9, <1>10 DEF Mcp!IInv

LEMMA ApprovedStep ==
    ASSUME Mcp!IInv, NEW c \in Callers, Mcp!Approved(c)
    PROVE  Mcp!IInv'
<1>1. /\ call[c].stage = "approving" /\ (Mcp!Goes(c, "asking") \/ Mcp!Goes(c, "done"))
      /\ UNCHANGED <<poolOpen, current, starter, made, mcpProcess, ready, lastId, cancelled,
                     frames, asked, locked, strayed>>
  BY DEF Mcp!Approved, Mcp!poolVars, Mcp!clientVars
<1>2. call[c].kind = "call" /\ call[c].client \in 1 .. made
  BY <1>1 DEF Mcp!Approved, Mcp!IInv, Mcp!Locks
<1>3. PICK r \in Mcp!Calls : /\ call' = [call EXCEPT ![c] = r] /\ r.stage \in {"asking", "done"}
                             /\ r.client = call[c].client /\ r.kind = "call"
  <2>1. PICK stage_ \in {"asking", "done"} : Mcp!Goes(c, stage_)
    BY <1>1
  <2>2. PICK r : r = [call[c] EXCEPT !.stage = stage_]
    OBVIOUS
  <2>3. r \in Mcp!Calls /\ r.stage = stage_ /\ r.client = call[c].client /\ r.kind = "call"
    BY <1>2, <2>1, <2>2, McpTypes DEF Mcp!Calls
  <2>4. call' = [call EXCEPT ![c] = r]
    BY <2>1, <2>2 DEF Mcp!Goes
  <2> QED
    BY <2>1, <2>3, <2>4
<1>4. /\ call' \in [Callers -> Mcp!Calls] /\ call'[c] = r
      /\ \A d \in Callers : d # c => call'[d] = call[d]
  BY <1>3, McpTypes
<1>5. Mcp!Typing'
  BY <1>1, <1>4 DEF Mcp!IInv, Mcp!Typing
<1>6. call[c].stage = "approving" /\ c \notin starter
  BY DEF Mcp!Approved, Mcp!IInv, Mcp!Locks, Mcp!Starting
<1>7. Mcp!Locks'
  <2>1. /\ \A d \in Callers, h \in Mcp!Clients :
             d \in locked'[h] <=> call'[d].stage = "waiting" /\ call'[d].client = h
        /\ \A h \in Mcp!Clients : \A d, e \in locked'[h] : d = e
    BY <1>1, <1>3, <1>4, <1>6, LocksOfClientsKept DEF Mcp!IInv
  <2> QED
    BY <1>1, <1>2, <1>3, <1>4, <1>6, <2>1 DEF Mcp!IInv, Mcp!Locks, Mcp!Starting
<1>8. ASSUME NEW h \in Mcp!Clients
      PROVE  Mcp!Expected(h)'
  <2>1. Mcp!Expected(h) /\ \A d \in locked[h] : d \in Callers /\ call'[d].id = call[d].id
    BY <1>4, <1>6, WaitersAreKept
  <2> QED
    BY <1>1, <2>1 DEF Mcp!Expected
<1>9. Mcp!ServerIsKept'
  <2>1. \A d \in starter : d \in Callers /\ d # c
    BY <1>6, McpTypes
  <2> QED
    BY <1>1, <1>4, <2>1
       DEF Mcp!IInv, Mcp!ServerIsKept, Mcp!LateAnswersPass, Mcp!NoProcessIsLeft
<1> QED
  BY <1>5, <1>7, <1>8, <1>9 DEF Mcp!IInv

LEMMA ReturnStep ==
    ASSUME Mcp!IInv, NEW c \in Callers, Mcp!Return(c)
    PROVE  Mcp!IInv'
<1>1. /\ call[c].stage = "done" /\ call' = [call EXCEPT ![c] = Mcp!NoCall]
      /\ UNCHANGED <<poolOpen, current, starter, made, mcpProcess, ready, lastId, cancelled,
                     frames, asked, locked, strayed>>
  BY DEF Mcp!Return, Mcp!poolVars, Mcp!clientVars
<1>2. Mcp!NoCall \in Mcp!Calls /\ Mcp!NoCall.stage = "idle"
  <2>1. 0 \in 0 .. MaxClients
    BY McpTypes
  <2> QED
    BY <2>1 DEF Mcp!NoCall, Mcp!Calls
<1>3. /\ call' \in [Callers -> Mcp!Calls] /\ call'[c] = Mcp!NoCall
      /\ \A d \in Callers : d # c => call'[d] = call[d]
  BY <1>1, <1>2, McpTypes
<1>4. Mcp!Typing'
  BY <1>1, <1>3 DEF Mcp!IInv, Mcp!Typing
<1>5. c \notin starter
  BY <1>1 DEF Mcp!IInv, Mcp!Locks, Mcp!Starting
<1>6. Mcp!Locks'
  <2>1. /\ \A d \in Callers, h \in Mcp!Clients :
             d \in locked'[h] <=> call'[d].stage = "waiting" /\ call'[d].client = h
        /\ \A h \in Mcp!Clients : \A d, e \in locked'[h] : d = e
    BY <1>1, <1>2, <1>3, LocksOfClientsKept DEF Mcp!IInv
  <2> QED
    BY <1>1, <1>2, <1>3, <1>5, <2>1 DEF Mcp!IInv, Mcp!Locks, Mcp!Starting
<1>7. ASSUME NEW h \in Mcp!Clients
      PROVE  Mcp!Expected(h)'
  <2>1. Mcp!Expected(h) /\ \A d \in locked[h] : d \in Callers /\ call'[d].id = call[d].id
    BY <1>1, <1>3, WaitersAreKept
  <2> QED
    BY <1>1, <2>1 DEF Mcp!Expected
<1>8. Mcp!ServerIsKept'
  <2>1. \A d \in starter : d \in Callers /\ d # c
    BY <1>5, McpTypes
  <2> QED
    BY <1>1, <1>3, <2>1
       DEF Mcp!IInv, Mcp!ServerIsKept, Mcp!LateAnswersPass, Mcp!NoProcessIsLeft
<1> QED
  BY <1>4, <1>6, <1>7, <1>8 DEF Mcp!IInv

\* Steps of the server and of the pool: no call changes.
LEMMA ClosePoolStep ==
    ASSUME Mcp!IInv, Mcp!ClosePool
    PROVE  Mcp!IInv'
<1>1. /\ starter = {} /\ poolOpen' = FALSE /\ current' = 0 /\ Mcp!EndOf(current, "closed")
      /\ UNCHANGED <<starter, made, ready, lastId, cancelled, asked, locked, call, strayed>>
  BY DEF Mcp!ClosePool
<1>2. /\ mcpProcess' \in [Mcp!Clients -> {"none", "running", "exited", "closed"}]
      /\ frames' \in [Mcp!Clients -> Seq(Mcp!Frame)]
      /\ \A h \in Mcp!Clients :
           /\ mcpProcess'[h] = "none" <=> mcpProcess[h] = "none"
           /\ mcpProcess'[h] = "running" <=> mcpProcess[h] = "running" /\ h # current
           /\ Mcp!Ids(frames'[h]) = Mcp!Ids(frames[h]) /\ Mcp!Single(frames'[h])
           /\ mcpProcess[h] = "none" => frames'[h] = frames[h]
  BY <1>1, EndOfClient, McpTypes
<1>3. Mcp!Typing'
  <2>1. 0 \in 0 .. made
    BY McpTypes
  <2> QED
    BY <1>1, <1>2, <2>1 DEF Mcp!IInv, Mcp!Typing
<1>4. Mcp!Locks'
  BY <1>1 DEF Mcp!IInv, Mcp!Locks, Mcp!Starting
<1>5. ASSUME NEW h \in Mcp!Clients
      PROVE  Mcp!Expected(h)'
  <2>1. Mcp!Expected(h)
    BY DEF Mcp!IInv
  <2>2. /\ mcpProcess'[h] = "none" <=> mcpProcess[h] = "none"
        /\ mcpProcess[h] = "none" => frames'[h] = frames[h]
        /\ Mcp!Ids(frames'[h]) \subseteq Mcp!Ids(frames[h]) /\ Mcp!Single(frames'[h])
        /\ mcpProcess'[h] = "running" => mcpProcess[h] = "running"
    BY <1>2
  <2> QED
    BY <1>1, <2>1, <2>2, ExpectedKept
<1>6. Mcp!ServerIsKept'
  <2>1. \A h \in Mcp!Clients : mcpProcess'[h] # "running"
    BY <1>1, <1>2 DEF Mcp!IInv, Mcp!ServerIsKept, Mcp!NoProcessIsLeft
  <2> QED
    BY <1>1, <2>1 DEF Mcp!IInv, Mcp!ServerIsKept, Mcp!LateAnswersPass, Mcp!NoProcessIsLeft
<1> QED
  BY <1>3, <1>4, <1>5, <1>6 DEF Mcp!IInv

LEMMA ExitsStep ==
    ASSUME Mcp!IInv, NEW g \in Mcp!Clients, Mcp!Exits(g)
    PROVE  Mcp!IInv'
<1>1. /\ Mcp!EndOf(g, "exited")
      /\ UNCHANGED <<poolOpen, current, starter, made, ready, lastId, cancelled, asked, locked,
                     call, strayed>>
  BY DEF Mcp!Exits, Mcp!poolVars
<1>2. /\ mcpProcess' \in [Mcp!Clients -> {"none", "running", "exited", "closed"}]
      /\ frames' \in [Mcp!Clients -> Seq(Mcp!Frame)]
      /\ \A h \in Mcp!Clients :
           /\ mcpProcess'[h] = "none" <=> mcpProcess[h] = "none"
           /\ mcpProcess'[h] = "running" => mcpProcess[h] = "running"
           /\ Mcp!Ids(frames'[h]) = Mcp!Ids(frames[h]) /\ Mcp!Single(frames'[h])
           /\ mcpProcess[h] = "none" => frames'[h] = frames[h]
  <2>1. g \in 0 .. MaxClients
    BY McpTypes
  <2> QED
    BY <1>1, <2>1, EndOfClient
<1>3. Mcp!Typing'
  BY <1>1, <1>2 DEF Mcp!IInv, Mcp!Typing
<1>4. Mcp!Locks'
  BY <1>1 DEF Mcp!IInv, Mcp!Locks, Mcp!Starting
<1>5. ASSUME NEW h \in Mcp!Clients
      PROVE  Mcp!Expected(h)'
  <2>1. Mcp!Expected(h)
    BY DEF Mcp!IInv
  <2>2. /\ mcpProcess'[h] = "none" <=> mcpProcess[h] = "none"
        /\ mcpProcess[h] = "none" => frames'[h] = frames[h]
        /\ Mcp!Ids(frames'[h]) \subseteq Mcp!Ids(frames[h]) /\ Mcp!Single(frames'[h])
        /\ mcpProcess'[h] = "running" => mcpProcess[h] = "running"
    BY <1>2
  <2> QED
    BY <1>1, <2>1, <2>2, ExpectedKept
<1>6. Mcp!ServerIsKept'
  BY <1>1, <1>2 DEF Mcp!IInv, Mcp!ServerIsKept, Mcp!LateAnswersPass, Mcp!NoProcessIsLeft
<1> QED
  BY <1>3, <1>4, <1>5, <1>6 DEF Mcp!IInv

\* An answer leaves the requests the server has; nothing else it sends is one.
LEMMA SendStep ==
    ASSUME Mcp!IInv, NEW g \in Mcp!Clients, NEW f \in Mcp!Frame,
           Mcp!IsAnswer(f) => f.id \in asked[g], Mcp!Send(g, f)
    PROVE  Mcp!IInv'
<1>1. /\ mcpProcess[g] = "running" /\ frames' = [frames EXCEPT ![g] = Append(@, f)]
      /\ asked' = [asked EXCEPT ![g] = @ \ {f.id}]
      /\ UNCHANGED <<poolOpen, current, starter, made, mcpProcess, ready, lastId, cancelled,
                     locked, call, strayed>>
  BY DEF Mcp!Send, Mcp!poolVars
<1>2. frames[g] \in Seq(Mcp!Frame) /\ Mcp!Expected(g) /\ asked[g] \subseteq Nat
  BY McpTypes DEF Mcp!IInv
<1>3. /\ Append(frames[g], f) \in Seq(Mcp!Frame) /\ Mcp!Single(Append(frames[g], f))
      /\ Mcp!Ids(Append(frames[g], f)) \subseteq Mcp!Ids(frames[g]) \cup {f.id}
      /\ ~Mcp!IsAnswer(f) => Mcp!Ids(Append(frames[g], f)) = Mcp!Ids(frames[g])
  <2>1. Mcp!Single(frames[g]) /\ (f.id \notin Mcp!Ids(frames[g]) \/ ~Mcp!IsAnswer(f))
    BY <1>2 DEF Mcp!Expected
  <2> QED
    BY <1>2, <2>1, IdsOfAppend
<1>4. /\ frames' \in [Mcp!Clients -> Seq(Mcp!Frame)] /\ asked' \in [Mcp!Clients -> SUBSET Nat]
      /\ frames'[g] = Append(frames[g], f) /\ asked'[g] = asked[g] \ {f.id}
      /\ \A h \in Mcp!Clients : h # g => frames'[h] = frames[h] /\ asked'[h] = asked[h]
  BY <1>1, <1>2, <1>3, McpTypes
<1>5. Mcp!Typing'
  BY <1>1, <1>4 DEF Mcp!IInv, Mcp!Typing
<1>6. Mcp!Locks'
  BY <1>1 DEF Mcp!IInv, Mcp!Locks, Mcp!Starting
<1>7. ASSUME NEW h \in Mcp!Clients, h # g
      PROVE  Mcp!Expected(h)'
  <2>1. Mcp!Expected(h) /\ frames'[h] = frames[h] /\ asked'[h] = asked[h]
    BY <1>4, <1>7 DEF Mcp!IInv
  <2>2. Mcp!Single(frames[h])
    BY <2>1 DEF Mcp!Expected
  <2> QED
    BY <1>1, <2>1, <2>2, ExpectedKept
<1>8. Mcp!Expected(g)'
  <2>1. /\ Mcp!Ids(frames'[g]) \cup asked'[g] \subseteq Mcp!Ids(frames[g]) \cup asked[g]
        /\ Mcp!Ids(frames'[g]) \cap asked'[g] = {} /\ Mcp!Single(frames'[g])
    BY <1>2, <1>3, <1>4 DEF Mcp!Expected
  <2> QED
    BY <1>1, <1>2, <2>1 DEF Mcp!Expected
<1>9. Mcp!ServerIsKept'
  BY <1>1 DEF Mcp!IInv, Mcp!ServerIsKept, Mcp!LateAnswersPass, Mcp!NoProcessIsLeft
<1> QED
  BY <1>5, <1>6, <1>7, <1>8, <1>9 DEF Mcp!IInv

LEMMA ServerSteps ==
    ASSUME Mcp!IInv, NEW g \in Mcp!Clients, Mcp!Answers(g) \/ Mcp!Interrupts(g) \/ Mcp!Exits(g)
    PROVE  Mcp!IInv'
<1>1. CASE Mcp!Answers(g)
  <2>1. PICK id \in asked[g], kind \in {"answer", "error"} : Mcp!Send(g, [kind |-> kind, id |-> id])
    BY <1>1 DEF Mcp!Answers
  <2>2. [kind |-> kind, id |-> id] \in Mcp!Frame
    BY McpTypes DEF Mcp!Frame
  <2> QED
    BY <2>1, <2>2, SendStep
<1>2. CASE Mcp!Interrupts(g)
  <2>1. PICK kind \in {"request", "junk"} : Mcp!Send(g, [kind |-> kind, id |-> 0])
    BY <1>2 DEF Mcp!Interrupts
  <2>2. [kind |-> kind, id |-> 0] \in Mcp!Frame /\ ~Mcp!IsAnswer([kind |-> kind, id |-> 0])
    BY DEF Mcp!Frame, Mcp!IsAnswer
  <2> QED
    BY <2>1, <2>2, SendStep
<1> QED
  BY <1>1, <1>2, ExitsStep

\* The end of a request gives the client's lock back, and keeps the start lock.
LEMMA LocksAtEnd ==
    ASSUME Mcp!IInv, NEW c \in Callers, NEW ok \in BOOLEAN, Mcp!Ends(c, ok),
           call[c].stage \in {"asking", "waiting"}, UNCHANGED <<starter, made, current>>,
           \/ (call[c].stage = "asking" /\ UNCHANGED locked)
           \/ (call[c].stage = "waiting" /\ locked' = [locked EXCEPT ![call[c].client] = {}])
    PROVE  /\ Mcp!Locks' /\ locked' \in [Mcp!Clients -> SUBSET Callers]
           /\ \A h \in Mcp!Clients : \/ h = call[c].client /\ call[c].stage = "waiting"
                                        /\ locked[h] = {c} /\ locked'[h] = {}
                                     \/ locked'[h] = locked[h] /\ c \notin locked[h]
<1>1. /\ call' \in [Callers -> Mcp!Calls]
      /\ \A d \in Callers : d # c => call'[d] = call[d]
      /\ call'[c].client = call[c].client
      /\ call'[c].stage \in {"done", "listed", "asking"}
      /\ call[c].kind = "call" => call'[c].stage = "done"
      /\ call[c].kind # "call" =>
           call'[c].stage = "listed" \/ (call'[c].stage = "asking" /\ call'[c].kind # "call")
  <2>1. /\ call' \in [Callers -> Mcp!Calls]
        /\ \A d \in Callers : d # c => call'[d] = call[d]
        /\ call'[c].client = call[c].client
        /\ call[c].kind = "call" => call'[c].stage = "done"
        /\ call[c].kind # "call" =>
             call'[c].stage = "listed" \/ (call'[c].stage = "asking" /\ call'[c].kind # "call")
    BY EndsOfCall
  <2>2. call'[c].stage \in {"done", "listed", "asking"}
    BY <2>1
  <2> QED
    BY <2>1, <2>2
<1>2. call[c].client \in 1 .. made /\ call[c].client \in Mcp!Clients
  <2>1. call[c].client \in 1 .. made
    BY DEF Mcp!IInv, Mcp!Locks
  <2> QED
    BY <2>1, McpTypes
<1>3. ASSUME NEW h \in Mcp!Clients
      PROVE  /\ locked'[h] \subseteq Callers
             /\ \/ h = call[c].client /\ call[c].stage = "waiting"
                   /\ locked[h] = {c} /\ locked'[h] = {}
                \/ locked'[h] = locked[h] /\ c \notin locked[h]
  <2>1. CASE call[c].stage = "asking"
    BY <2>1, McpTypes DEF Mcp!IInv, Mcp!Locks
  <2>2. CASE call[c].stage = "waiting" /\ h # call[c].client
    BY <2>2, McpTypes DEF Mcp!IInv, Mcp!Locks
  <2>3. CASE call[c].stage = "waiting" /\ h = call[c].client
    <3>1. c \in locked[h] /\ \A d \in locked[h] : d = c
      BY <2>3 DEF Mcp!IInv, Mcp!Locks
    <3>2. locked'[h] = {}
      BY <2>3, McpTypes
    <3> QED
      BY <2>3, <3>1, <3>2
  <2> QED
    BY <2>1, <2>2, <2>3
<1>4. locked' \in [Mcp!Clients -> SUBSET Callers]
  BY <1>2, McpTypes
<1>5. \A d \in Callers, h \in Mcp!Clients :
        d \in locked'[h] <=> call'[d].stage = "waiting" /\ call'[d].client = h
  <2> SUFFICES ASSUME NEW d \in Callers, NEW h \in Mcp!Clients
               PROVE  d \in locked'[h] <=> call'[d].stage = "waiting" /\ call'[d].client = h
    OBVIOUS
  <2>1. d \in locked[h] <=> call[d].stage = "waiting" /\ call[d].client = h
    BY DEF Mcp!IInv, Mcp!Locks
  <2>2. CASE d = c
    <3>1. call'[d].stage # "waiting"
      BY <1>1, <2>2
    <3> QED
      BY <1>3, <2>2, <3>1
  <2>3. CASE d # c
    <3>1. call'[d] = call[d]
      BY <1>1, <2>3
    <3> QED
      BY <1>3, <2>1, <2>3, <3>1
  <2> QED
    BY <2>2, <2>3
<1>6. \A h \in Mcp!Clients : \A d, e \in locked'[h] : d = e
  BY <1>3 DEF Mcp!IInv, Mcp!Locks
<1>7. \A d \in Callers : Mcp!Starting(d)' <=> Mcp!Starting(d)
  BY <1>1 DEF Mcp!Starting
<1>8. \A d \in Callers :
        /\ call'[d].stage \in {"approving", "asking", "waiting", "listed", "started"} =>
             call'[d].client \in 1 .. made
        /\ call'[d].stage = "ensuring" => call'[d].client = 0
        /\ call'[d].stage = "approving" => call'[d].kind = "call"
        /\ call'[d].stage = "started" => call'[d].client = current
  BY <1>1, <1>2 DEF Mcp!IInv, Mcp!Locks
<1>9. Mcp!Locks'
  BY <1>5, <1>6, <1>7, <1>8 DEF Mcp!IInv, Mcp!Locks
<1> QED
  BY <1>3, <1>4, <1>9

\* No process starts: those that run are the pool's, or that which is started.
LEMMA ServerKept ==
    ASSUME Mcp!IInv, NEW c \in Callers, call'[c].client = call[c].client,
           \A d \in Callers : d # c => call'[d] = call[d],
           UNCHANGED <<starter, current>>, strayed' = {},
           \A h \in Mcp!Clients : mcpProcess'[h] = "running" => mcpProcess[h] = "running"
    PROVE  Mcp!ServerIsKept'
<1>1. \A d \in starter : call'[d].client = call[d].client
  BY McpTypes
<1> QED
  BY <1>1 DEF Mcp!IInv, Mcp!ServerIsKept, Mcp!LateAnswersPass, Mcp!NoProcessIsLeft

LEMMA TimesOutStep ==
    ASSUME Mcp!IInv, NEW c \in Callers, Mcp!TimesOut(c)
    PROVE  Mcp!IInv'
<1> DEFINE g == call[c].client
<1>1. /\ call[c].stage = "waiting" /\ cancelled' = [cancelled EXCEPT ![g] = @ \cup {call[c].id}]
      /\ locked' = [locked EXCEPT ![g] = {}] /\ Mcp!Ends(c, FALSE)
      /\ Mcp!EndOf(g, "closed") \/ UNCHANGED <<mcpProcess, frames>>
      /\ UNCHANGED <<poolOpen, current, starter, made, ready, lastId, asked, strayed>>
  BY DEF Mcp!TimesOut, Mcp!Fails, Mcp!poolVars, Mcp!Stays
<1>2. g \in 1 .. made /\ g \in Mcp!Clients /\ g \in 0 .. MaxClients /\ call[c].id \in Nat
  <2>1. g \in 1 .. made
    BY <1>1 DEF Mcp!IInv, Mcp!Locks
  <2>2. call[c].id \in Nat
    BY McpTypes DEF Mcp!Calls
  <2> QED
    BY <2>1, <2>2, McpTypes
<1>3. /\ mcpProcess' \in [Mcp!Clients -> {"none", "running", "exited", "closed"}]
      /\ frames' \in [Mcp!Clients -> Seq(Mcp!Frame)]
      /\ \A h \in Mcp!Clients :
           /\ mcpProcess'[h] = "none" <=> mcpProcess[h] = "none"
           /\ mcpProcess'[h] = "running" => mcpProcess[h] = "running"
           /\ Mcp!Ids(frames'[h]) \subseteq Mcp!Ids(frames[h]) /\ Mcp!Single(frames'[h])
           /\ mcpProcess[h] = "none" => frames'[h] = frames[h]
  <2>1. CASE Mcp!EndOf(g, "closed")
    BY <1>2, <2>1, EndOfClient
  <2>2. CASE UNCHANGED <<mcpProcess, frames>>
    BY <2>2, McpTypes DEF Mcp!IInv, Mcp!Expected
  <2> QED
    BY <1>1, <2>1, <2>2
<1>4. /\ call' \in [Callers -> Mcp!Calls] /\ call'[c].client = call[c].client
      /\ \A d \in Callers : d # c => call'[d] = call[d]
  BY <1>1, EndsOfCall
<1>5. /\ Mcp!Locks' /\ locked' \in [Mcp!Clients -> SUBSET Callers]
      /\ \A h \in Mcp!Clients : \/ h = g /\ locked[h] = {c} /\ locked'[h] = {}
                                \/ locked'[h] = locked[h] /\ c \notin locked[h]
  BY <1>1, LocksAtEnd
<1>6. /\ cancelled' \in [Mcp!Clients -> SUBSET Nat]
      /\ cancelled'[g] = cancelled[g] \cup {call[c].id}
      /\ \A h \in Mcp!Clients : h # g => cancelled'[h] = cancelled[h]
  <2>1. cancelled[g] \cup {call[c].id} \in SUBSET Nat
    BY <1>2, McpTypes
  <2> QED
    BY <1>1, <1>2, <2>1, McpTypes
<1> HIDE DEF g
<1>7. Mcp!Typing'
  BY SMTT(30), <1>1, <1>3, <1>4, <1>5, <1>6 DEF Mcp!IInv, Mcp!Typing
<1>8. ASSUME NEW h \in Mcp!Clients
      PROVE  Mcp!Expected(h)'
  <2>1. Mcp!Expected(h) /\ cancelled[h] \subseteq cancelled'[h] /\ locked[h] \subseteq Callers
    BY <1>6, McpTypes DEF Mcp!IInv
  <2>2. \A d \in locked[h] : \/ call[d].id \in cancelled'[h]
                             \/ d \in locked'[h] /\ call'[d].id = call[d].id
    BY <1>4, <1>5, <1>6, <2>1
  <2>3. mcpProcess'[h] = "running" \/ locked'[h] # {} => mcpProcess[h] = "running" \/ locked[h] # {}
    BY <1>3, <1>5
  <2>4. /\ mcpProcess'[h] = "none" <=> mcpProcess[h] = "none"
        /\ mcpProcess[h] = "none" => frames'[h] = frames[h]
        /\ Mcp!Ids(frames'[h]) \subseteq Mcp!Ids(frames[h]) /\ Mcp!Single(frames'[h])
    BY <1>3
  <2> QED
    BY <1>1, <2>1, <2>2, <2>3, <2>4, ExpectedKept
<1>9. Mcp!ServerIsKept'
  BY <1>1, <1>3, <1>4, ServerKept, McpTypes
<1> QED
  BY <1>5, <1>7, <1>8, <1>9 DEF Mcp!IInv

\* A new request has a new number.
LEMMA AskStep ==
    ASSUME Mcp!IInv, NEW c \in Callers, Mcp!Ask(c)
    PROVE  Mcp!IInv'
<1>0. PICK g, id : g = call[c].client /\ id = lastId[g] + 1
  OBVIOUS
<1>1. /\ call[c].stage = "asking" /\ locked[g] = {} /\ lastId' = [lastId EXCEPT ![g] = id]
      /\ UNCHANGED <<poolOpen, current, starter, made, ready, cancelled, strayed>>
  BY <1>0 DEF Mcp!Ask, Mcp!poolVars
<1>2. g \in 1 .. made /\ g \in Mcp!Clients /\ g \in 0 .. MaxClients
  <2>1. g \in 1 .. made
    BY <1>0, <1>1 DEF Mcp!IInv, Mcp!Locks
  <2> QED
    BY <2>1, McpTypes
<1>3. lastId[g] \in Nat /\ id \in Nat
  BY <1>0, <1>2, McpTypes
<1>4. /\ lastId' \in [Mcp!Clients -> Nat] /\ lastId'[g] = id
      /\ \A h \in Mcp!Clients : h # g => lastId'[h] = lastId[h]
  BY <1>1, <1>2, <1>3, McpTypes
<1>5. CASE /\ mcpProcess[g] = "running" /\ Mcp!Stays
           /\ call' = [call EXCEPT ![c].stage = "waiting", ![c].id = id]
           /\ asked' = [asked EXCEPT ![g] = @ \cup {id}]
           /\ locked' = [locked EXCEPT ![g] = {c}]
  <2>1. UNCHANGED <<mcpProcess, frames>>
    BY <1>5 DEF Mcp!Stays
  <2>2. PICK r \in Mcp!Calls : /\ call' = [call EXCEPT ![c] = r] /\ r.stage = "waiting"
                               /\ r.id = id /\ r.client = g /\ r.kind = call[c].kind
    <3>1. PICK r : r = [call[c] EXCEPT !.stage = "waiting", !.id = id]
      OBVIOUS
    <3>2. r \in Mcp!Calls /\ r.stage = "waiting" /\ r.id = id /\ r.client = g
          /\ r.kind = call[c].kind
      BY <1>0, <1>3, <3>1, McpTypes DEF Mcp!Calls
    <3>3. call' = [call EXCEPT ![c] = r]
      BY <1>5, <3>1
    <3> QED
      BY <3>2, <3>3
  <2>3. /\ call' \in [Callers -> Mcp!Calls] /\ call'[c] = r
        /\ \A d \in Callers : d # c => call'[d] = call[d]
    BY <2>2, McpTypes
  <2>4. /\ locked' \in [Mcp!Clients -> SUBSET Callers] /\ locked'[g] = {c}
        /\ \A h \in Mcp!Clients : h # g => locked'[h] = locked[h]
    BY <1>2, <1>5, McpTypes
  <2>5. /\ asked' \in [Mcp!Clients -> SUBSET Nat] /\ asked'[g] = asked[g] \cup {id}
        /\ \A h \in Mcp!Clients : h # g => asked'[h] = asked[h]
    <3>1. asked[g] \cup {id} \in SUBSET Nat
      BY <1>2, <1>3, McpTypes
    <3> QED
      BY <1>2, <1>5, <3>1, McpTypes
  <2>6. Mcp!Typing'
    BY <1>1, <1>4, <2>1, <2>3, <2>4, <2>5 DEF Mcp!IInv, Mcp!Typing
  <2>7. Mcp!Locks'
    <3>1. \A d \in Callers, h \in Mcp!Clients :
            d \in locked'[h] <=> call'[d].stage = "waiting" /\ call'[d].client = h
      <4> SUFFICES ASSUME NEW d \in Callers, NEW h \in Mcp!Clients
                   PROVE  d \in locked'[h] <=> call'[d].stage = "waiting" /\ call'[d].client = h
        OBVIOUS
      <4>1. d \in locked[h] <=> call[d].stage = "waiting" /\ call[d].client = h
        BY DEF Mcp!IInv, Mcp!Locks
      <4>2. CASE d = c
        BY <1>0, <1>1, <2>2, <2>3, <2>4, <4>1, <4>2
      <4>3. CASE d # c
        <5>1. call'[d] = call[d]
          BY <2>3, <4>3
        <5> QED
          BY <1>1, <2>4, <4>1, <4>3, <5>1
      <4> QED
        BY <4>2, <4>3
    <3>2. \A h \in Mcp!Clients : \A d, e \in locked'[h] : d = e
      BY <2>4 DEF Mcp!IInv, Mcp!Locks
    <3>3. \A d \in Callers : Mcp!Starting(d)' <=> Mcp!Starting(d)
      BY <1>0, <1>1, <2>2, <2>3 DEF Mcp!Starting
    <3>4. \A d \in Callers :
            /\ call'[d].stage \in {"approving", "asking", "waiting", "listed", "started"} =>
                 call'[d].client \in 1 .. made
            /\ call'[d].stage = "ensuring" => call'[d].client = 0
            /\ call'[d].stage = "approving" => call'[d].kind = "call"
            /\ call'[d].stage = "started" => call'[d].client = current
      BY <1>2, <2>2, <2>3 DEF Mcp!IInv, Mcp!Locks
    <3> QED
      BY <1>1, <3>1, <3>2, <3>3, <3>4 DEF Mcp!IInv, Mcp!Locks
  <2>8. ASSUME NEW h \in Mcp!Clients, h # g
        PROVE  Mcp!Expected(h)'
    <3>1. \A d \in locked[h] : d \in Callers /\ call'[d].id = call[d].id
      BY <1>1, <2>3, WaitersAreKept
    <3> QED
      BY <1>1, <1>4, <2>1, <2>4, <2>5, <2>8, <3>1 DEF Mcp!IInv, Mcp!Expected
  <2>9. Mcp!Expected(g)'
    <3>1. /\ Mcp!Expected(g) /\ asked[g] \subseteq Nat /\ mcpProcess[g] = "running"
          /\ Mcp!Ids(frames[g]) \cup asked[g] \subseteq cancelled[g]
      BY <1>1, <1>2, <1>5, McpTypes DEF Mcp!IInv, Mcp!Expected
    <3>2. \A i \in Mcp!Ids(frames[g]) \cup asked[g] : i <= lastId[g] /\ i \in Nat
      <4>1. Mcp!Ids(frames[g]) \subseteq Nat
        <5>1. frames[g] \in Seq(Mcp!Frame)
          BY <1>2, McpTypes
        <5> QED
          BY <5>1, IdsAreNumbers
      <4> QED
        BY <3>1, <4>1 DEF Mcp!Expected
    <3>3. /\ id \notin Mcp!Ids(frames[g])
          /\ \A i \in Mcp!Ids(frames[g]) \cup asked[g] : i <= id
      BY <1>0, <1>3, <3>2
    <3>4. \A i \in Mcp!Ids(frames'[g]) \cup asked'[g] : i <= lastId'[g]
      BY <1>3, <1>4, <2>1, <2>5, <3>3
    <3>5. /\ Mcp!Ids(frames'[g]) \cup asked'[g] \subseteq cancelled'[g] \cup {id}
          /\ {call'[d].id : d \in locked'[g]} = {id}
      BY <1>1, <2>1, <2>2, <2>3, <2>4, <2>5, <3>1
    <3>6. ~(g > made) /\ Mcp!Single(frames[g]) /\ Mcp!Ids(frames[g]) \cap asked[g] = {}
      BY <1>2, <3>1, McpTypes DEF Mcp!Expected
    <3>7. mcpProcess'[g] # "none" /\ ~(g > made')
      BY <1>1, <2>1, <3>1, <3>6
    <3>8. Mcp!Single(frames'[g]) /\ Mcp!Ids(frames'[g]) \cap asked'[g] = {}
      BY <2>1, <2>5, <3>3, <3>6
    <3> QED
      BY <3>4, <3>5, <3>7, <3>8 DEF Mcp!Expected
  <2>10. Mcp!ServerIsKept'
    BY <1>0, <1>1, <2>1, <2>2, <2>3, ServerKept, McpTypes
  <2> QED
    BY <2>6, <2>7, <2>8, <2>9, <2>10 DEF Mcp!IInv
<1>6. CASE /\ mcpProcess[g] # "running" /\ \E closes_ \in BOOLEAN : Mcp!Fails(c, closes_)
           /\ UNCHANGED <<asked, locked>>
  <2>1. Mcp!Ends(c, FALSE) /\ (Mcp!EndOf(g, "closed") \/ UNCHANGED <<mcpProcess, frames>>)
    BY <1>0, <1>6 DEF Mcp!Fails, Mcp!Stays
  <2>2. /\ mcpProcess' \in [Mcp!Clients -> {"none", "running", "exited", "closed"}]
        /\ frames' \in [Mcp!Clients -> Seq(Mcp!Frame)]
        /\ \A h \in Mcp!Clients :
             /\ mcpProcess'[h] = "none" <=> mcpProcess[h] = "none"
             /\ mcpProcess'[h] = "running" => mcpProcess[h] = "running"
             /\ Mcp!Ids(frames'[h]) \subseteq Mcp!Ids(frames[h]) /\ Mcp!Single(frames'[h])
             /\ mcpProcess[h] = "none" => frames'[h] = frames[h]
    <3>1. CASE Mcp!EndOf(g, "closed")
      BY <1>2, <3>1, EndOfClient
    <3>2. CASE UNCHANGED <<mcpProcess, frames>>
      BY <3>2, McpTypes DEF Mcp!IInv, Mcp!Expected
    <3> QED
      BY <2>1, <3>1, <3>2
  <2>3. /\ call' \in [Callers -> Mcp!Calls] /\ call'[c].client = call[c].client
        /\ \A d \in Callers : d # c => call'[d] = call[d]
    BY <2>1, EndsOfCall
  <2>4. Mcp!Locks'
    BY <1>1, <1>6, <2>1, LocksAtEnd
  <2>5. Mcp!Typing'
    BY <1>1, <1>4, <1>6, <2>2, <2>3 DEF Mcp!IInv, Mcp!Typing
  <2>6. ASSUME NEW h \in Mcp!Clients
        PROVE  Mcp!Expected(h)'
    <3>1. Mcp!Expected(h) /\ \A d \in locked[h] : d \in Callers /\ call'[d].id = call[d].id
      BY <1>1, <2>3, WaitersAreKept
    <3>2. /\ mcpProcess'[h] = "none" <=> mcpProcess[h] = "none"
          /\ mcpProcess[h] = "none" => frames'[h] = frames[h]
          /\ Mcp!Ids(frames'[h]) \subseteq Mcp!Ids(frames[h]) /\ Mcp!Single(frames'[h])
          /\ mcpProcess'[h] = "running" => mcpProcess[h] = "running"
      BY <2>2
    <3>3. CASE h # g
      <4>1. lastId'[h] = lastId[h]
        BY <1>4, <3>3
      <4> QED
        BY <1>1, <1>6, <3>1, <3>2, <4>1, ExpectedKept
    <3>4. CASE h = g
      <4>1. mcpProcess'[g] # "running" /\ locked'[g] = {}
        BY <1>1, <1>6, <3>2, <3>4
      <4>2. ~(g > made) /\ asked[g] \subseteq Nat /\ Mcp!Ids(frames[g]) \subseteq Nat
        <5>1. frames[g] \in Seq(Mcp!Frame)
          BY <1>2, McpTypes
        <5> QED
          BY <1>2, <5>1, McpTypes, IdsAreNumbers
      <4>3. \A i \in Mcp!Ids(frames'[g]) \cup asked'[g] : i <= lastId'[g]
        <5>1. \A i \in Mcp!Ids(frames[g]) \cup asked[g] : i <= lastId[g] /\ i \in Nat
          BY <3>1, <3>4, <4>2 DEF Mcp!Expected
        <5> QED
          BY <1>3, <1>4, <1>6, <3>2, <3>4, <5>1, <1>0
      <4> QED
        BY <1>1, <1>6, <3>1, <3>2, <3>4, <4>1, <4>2, <4>3 DEF Mcp!Expected
    <3> QED
      BY <3>3, <3>4
  <2>7. Mcp!ServerIsKept'
    BY <1>1, <2>2, <2>3, ServerKept, McpTypes
  <2> QED
    BY <2>4, <2>5, <2>6, <2>7 DEF Mcp!IInv
<1> QED
  BY <1>0, <1>5, <1>6 DEF Mcp!Ask

\* A frame that is read is dropped, is the answer, or ends the client: an
\* answer of a request that was given up is none of the last.
LEMMA ReadStep ==
    ASSUME Mcp!IInv, NEW c \in Callers, Mcp!Read(c)
    PROVE  Mcp!IInv'
<1>0. PICK g, f, q : g = call[c].client /\ f = Head(frames[g]) /\ q = Tail(frames[g])
  OBVIOUS
<1>1. /\ call[c].stage = "waiting" /\ frames[g] # <<>>
      /\ Mcp!Dropped(c, f) \/ Mcp!Late(c, f) \/ Mcp!Wanted(c, f) \/ Mcp!Bad(c, f)
      /\ UNCHANGED <<poolOpen, current, starter, made, ready, lastId, asked>>
  BY <1>0 DEF Mcp!Read, Mcp!poolVars
<1>2. g \in 1 .. made /\ g \in Mcp!Clients /\ Mcp!Expected(g) /\ mcpProcess[g] # "none"
  <2>1. g \in 1 .. made
    BY <1>0, <1>1 DEF Mcp!IInv, Mcp!Locks
  <2>2. g \in Mcp!Clients
    BY <2>1, McpTypes
  <2>3. Mcp!Expected(g)
    BY <2>2 DEF Mcp!IInv
  <2> QED
    BY <1>1, <2>1, <2>2, <2>3 DEF Mcp!Expected
<1>3. /\ q \in Seq(Mcp!Frame) /\ f \in Mcp!Frame /\ Mcp!Ids(q) \subseteq Mcp!Ids(frames[g])
      /\ Mcp!Single(q)
      /\ Mcp!IsAnswer(f) => f.id \in Mcp!Ids(frames[g]) /\ f.id \notin Mcp!Ids(q)
  <2>1. frames[g] \in Seq(Mcp!Frame) /\ Mcp!Single(frames[g])
    BY <1>2, McpTypes DEF Mcp!Expected
  <2> QED
    BY <1>0, <1>1, <2>1, IdsOfTail
<1>4. /\ frames' \in [Mcp!Clients -> Seq(Mcp!Frame)]
      /\ Mcp!Ids(frames'[g]) \subseteq Mcp!Ids(q) /\ Mcp!Single(frames'[g])
      /\ \A h \in Mcp!Clients : h # g => frames'[h] = frames[h]
  <2>1. PICK e : e = [kind |-> "eof", id |-> 0]
    OBVIOUS
  <2>2. e \in Mcp!Frame /\ ~Mcp!IsAnswer(e)
    BY <2>1 DEF Mcp!Frame, Mcp!IsAnswer
  <2>3. /\ Append(q, e) \in Seq(Mcp!Frame) /\ Mcp!Ids(Append(q, e)) = Mcp!Ids(q)
        /\ Mcp!Single(Append(q, e))
    BY <1>3, <2>2, IdsOfAppend
  <2>4. PICK x \in {q, Append(q, e)} : frames' = [frames EXCEPT ![g] = x]
    BY <1>0, <2>1 DEF Mcp!Read
  <2>5. x \in Seq(Mcp!Frame) /\ Mcp!Ids(x) = Mcp!Ids(q) /\ Mcp!Single(x)
    BY <1>3, <2>3, <2>4
  <2> QED
    BY <1>2, <2>4, <2>5, McpTypes
<1>5. locked[g] = {c}
  BY <1>0, <1>1, <1>2, McpTypes DEF Mcp!IInv, Mcp!Locks
<1>6. /\ Mcp!Ids(frames[g]) \cup asked[g] \subseteq cancelled[g] \cup {call[c].id}
      /\ Mcp!Ids(frames[g]) \cap asked[g] = {}
  BY <1>2, <1>5 DEF Mcp!Expected
<1>7. /\ ~(g > made') /\ asked'[g] = asked[g] /\ lastId'[g] = lastId[g]
      /\ Mcp!Ids(frames'[g]) \cap asked'[g] = {}
      /\ \A id \in Mcp!Ids(frames'[g]) \cup asked'[g] : id <= lastId'[g]
  <2>1. ~(g > made)
    BY <1>2, McpTypes
  <2>2. \A id \in Mcp!Ids(frames[g]) \cup asked[g] : id <= lastId[g]
    BY <1>2 DEF Mcp!Expected
  <2> QED
    BY <1>1, <1>3, <1>4, <1>6, <2>1, <2>2
<1>8. CASE Mcp!Dropped(c, f)
  <2>1. UNCHANGED <<cancelled, mcpProcess, locked, call, strayed>>
    BY <1>8 DEF Mcp!Dropped
  <2>2. Mcp!Typing'
    BY <1>1, <1>4, <2>1 DEF Mcp!IInv, Mcp!Typing
  <2>3. Mcp!Locks'
    BY <1>1, <2>1 DEF Mcp!IInv, Mcp!Locks, Mcp!Starting
  <2>4. Mcp!Expected(g)'
    BY <1>1, <1>2, <1>3, <1>4, <2>1, ExpectedKept
  <2>5. \A h \in Mcp!Clients : h # g => Mcp!Expected(h)'
    BY <1>1, <1>4, <2>1 DEF Mcp!IInv, Mcp!Expected
  <2>6. Mcp!ServerIsKept'
    BY <1>1, <2>1 DEF Mcp!IInv, Mcp!ServerIsKept, Mcp!LateAnswersPass, Mcp!NoProcessIsLeft
  <2> QED
    BY <2>2, <2>3, <2>4, <2>5, <2>6 DEF Mcp!IInv
<1>9. CASE Mcp!Late(c, f)
  <2>1. /\ Mcp!IsAnswer(f) /\ cancelled' = [cancelled EXCEPT ![g] = @ \ {f.id}]
        /\ UNCHANGED <<mcpProcess, locked, call, strayed>>
    BY <1>0, <1>9 DEF Mcp!Late, Mcp!IsAnswer
  <2>2. /\ cancelled' \in [Mcp!Clients -> SUBSET Nat] /\ cancelled'[g] = cancelled[g] \ {f.id}
        /\ \A h \in Mcp!Clients : h # g => cancelled'[h] = cancelled[h]
    <3>1. cancelled[g] \ {f.id} \in SUBSET Nat
      BY <1>2, McpTypes
    <3> QED
      BY <1>2, <2>1, <3>1, McpTypes
  <2>3. Mcp!Typing'
    BY <1>1, <1>4, <2>1, <2>2 DEF Mcp!IInv, Mcp!Typing
  <2>4. Mcp!Locks'
    BY <1>1, <2>1 DEF Mcp!IInv, Mcp!Locks, Mcp!Starting
  <2>5. Mcp!Expected(g)'
    <3>1. Mcp!Ids(frames'[g]) \cup asked'[g] \subseteq cancelled'[g] \cup {call[c].id}
      BY <1>3, <1>4, <1>6, <1>7, <2>1, <2>2
    <3>2. {call'[d].id : d \in locked'[g]} = {call[c].id}
      BY <1>5, <2>1
    <3>3. mcpProcess'[g] # "none"
      BY <1>2, <2>1
    <3> QED
      BY <1>4, <1>7, <3>1, <3>2, <3>3 DEF Mcp!Expected
  <2>6. \A h \in Mcp!Clients : h # g => Mcp!Expected(h)'
    BY <1>1, <1>4, <2>1, <2>2 DEF Mcp!IInv, Mcp!Expected
  <2>7. Mcp!ServerIsKept'
    BY <1>1, <2>1 DEF Mcp!IInv, Mcp!ServerIsKept, Mcp!LateAnswersPass, Mcp!NoProcessIsLeft
  <2> QED
    BY <2>3, <2>4, <2>5, <2>6, <2>7 DEF Mcp!IInv
\* The request is over.
<1>10. ASSUME NEW ok \in BOOLEAN, Mcp!Ends(c, ok), locked' = [locked EXCEPT ![g] = {}],
              UNCHANGED cancelled, strayed' = {},
              mcpProcess' \in [Mcp!Clients -> {"none", "running", "exited", "closed"}],
              \A h \in Mcp!Clients : h # g => mcpProcess'[h] = mcpProcess[h],
              \/ mcpProcess'[g] \in {"exited", "closed"}
              \/ mcpProcess'[g] = mcpProcess[g] /\ Mcp!IsAnswer(f) /\ f.id = call[c].id
       PROVE  Mcp!IInv'
  <2>1. /\ call' \in [Callers -> Mcp!Calls] /\ call'[c].client = call[c].client
        /\ \A d \in Callers : d # c => call'[d] = call[d]
    BY <1>10, EndsOfCall
  <2>2. /\ Mcp!Locks' /\ locked' \in [Mcp!Clients -> SUBSET Callers]
        /\ \A h \in Mcp!Clients : \/ h = call[c].client /\ call[c].stage = "waiting"
                                     /\ locked[h] = {c} /\ locked'[h] = {}
                                  \/ locked'[h] = locked[h] /\ c \notin locked[h]
    BY <1>0, <1>1, <1>10, LocksAtEnd
  <2>3. Mcp!Typing'
    BY <1>1, <1>4, <1>10, <2>1, <2>2 DEF Mcp!IInv, Mcp!Typing
  <2>4. Mcp!Expected(g)'
    <3>1. mcpProcess'[g] # "none" /\ locked'[g] = {}
      BY <1>2, <1>5, <1>10, <2>2
    <3>2. mcpProcess'[g] = "running" =>
            Mcp!Ids(frames'[g]) \cup asked'[g] \subseteq cancelled'[g]
      BY <1>3, <1>4, <1>6, <1>7, <1>10
    <3> QED
      BY <1>4, <1>7, <3>1, <3>2 DEF Mcp!Expected
  <2>5. ASSUME NEW h \in Mcp!Clients, h # g
        PROVE  Mcp!Expected(h)'
    <3>1. locked'[h] = locked[h] /\ c \notin locked[h] /\ locked[h] \subseteq Callers
      BY <1>0, <2>2, <2>5, McpTypes
    <3>2. \A d \in locked[h] : call'[d] = call[d]
      BY <2>1, <3>1
    <3>3. /\ Mcp!Expected(h) /\ frames'[h] = frames[h] /\ mcpProcess'[h] = mcpProcess[h]
          /\ asked'[h] = asked[h] /\ lastId'[h] = lastId[h] /\ cancelled'[h] = cancelled[h]
      BY <1>1, <1>4, <1>10, <2>5 DEF Mcp!IInv
    <3>4. Mcp!Single(frames[h])
      BY <3>3 DEF Mcp!Expected
    <3> QED
      BY <1>1, <3>1, <3>2, <3>3, <3>4, ExpectedKept
  <2>6. Mcp!ServerIsKept'
    <3>1. \A h \in Mcp!Clients : mcpProcess'[h] = "running" => mcpProcess[h] = "running"
      BY <1>10
    <3> QED
      BY <1>1, <1>10, <2>1, <3>1, ServerKept
  <2> QED
    BY <2>2, <2>3, <2>4, <2>5, <2>6 DEF Mcp!IInv
<1>11. CASE Mcp!Wanted(c, f)
  <2>1. /\ Mcp!IsAnswer(f) /\ f.id = call[c].id /\ Mcp!Ends(c, TRUE)
        /\ locked' = [locked EXCEPT ![g] = {}] /\ UNCHANGED <<cancelled, mcpProcess, strayed>>
    BY <1>0, <1>11 DEF Mcp!Wanted, Mcp!IsAnswer
  <2> QED
    BY <1>10, <2>1, McpTypes
<1>12. CASE Mcp!Bad(c, f)
  <2>1. /\ Mcp!Ends(c, FALSE) /\ locked' = [locked EXCEPT ![g] = {}] /\ UNCHANGED cancelled
        /\ mcpProcess' = [mcpProcess EXCEPT ![g] =
             IF f.kind = "request" /\ call[c].kind = "call" THEN @ ELSE "closed"]
    BY <1>0, <1>12 DEF Mcp!Bad
  <2>2. ~(Mcp!IsAnswer(f) /\ f.id \notin cancelled[g] /\ f.id # call[c].id)
    BY <1>3, <1>6
  <2>3. strayed' = strayed
    BY <1>0, <1>12, <2>2 DEF Mcp!Bad, Mcp!IsAnswer
  <2>4. f.kind = "request" => mcpProcess[g] # "running"
    BY <1>0, <1>12 DEF Mcp!Bad
  <2>5. PICK p : /\ p = IF f.kind = "request" /\ call[c].kind = "call" THEN mcpProcess[g]
                        ELSE "closed"
                 /\ mcpProcess' = [mcpProcess EXCEPT ![g] = p]
    BY <2>1
  <2>6. p \in {"exited", "closed"}
    <3>1. mcpProcess[g] \in {"none", "running", "exited", "closed"}
      BY <1>2, McpTypes
    <3> QED
      BY <1>2, <2>4, <2>5, <3>1
  <2>7. /\ mcpProcess' \in [Mcp!Clients -> {"none", "running", "exited", "closed"}]
        /\ mcpProcess'[g] = p
        /\ \A h \in Mcp!Clients : h # g => mcpProcess'[h] = mcpProcess[h]
    BY <1>2, <2>5, <2>6, McpTypes
  <2> QED
    BY <1>10, <2>1, <2>3, <2>6, <2>7, McpTypes
<1> QED
  BY <1>1, <1>8, <1>9, <1>11, <1>12

LEMMA McpStep ==
    ASSUME Mcp!IInv, [Mcp!Next]_mcpVars
    PROVE  Mcp!IInv'
<1>1. CASE UNCHANGED mcpVars
  <2> USE <1>1 DEF mcpVars
  <2>1. Mcp!Typing'
    BY DEF Mcp!IInv, Mcp!Typing
  <2>2. Mcp!Locks'
    BY DEF Mcp!IInv, Mcp!Locks, Mcp!Starting
  <2>3. \A g \in Mcp!Clients : Mcp!Expected(g)'
    BY DEF Mcp!IInv, Mcp!Expected
  <2>4. Mcp!ServerIsKept'
    BY DEF Mcp!IInv, Mcp!ServerIsKept, Mcp!LateAnswersPass, Mcp!NoProcessIsLeft
  <2> QED
    BY <2>1, <2>2, <2>3, <2>4 DEF Mcp!IInv
<1>2. ASSUME NEW c \in Callers,
             \/ Mcp!Ensure(c) \/ Mcp!Checked(c) \/ Mcp!Connect(c) \/ Mcp!Install(c)
             \/ Mcp!Approved(c) \/ Mcp!Ask(c) \/ Mcp!Read(c) \/ Mcp!TimesOut(c)
             \/ Mcp!Return(c)
      PROVE  Mcp!IInv'
  BY <1>2, EnsureStep, CheckedStep, ConnectStep, InstallStep, ApprovedStep, AskStep, ReadStep,
     TimesOutStep, ReturnStep
<1>3. ASSUME NEW g \in Mcp!Clients,
             Mcp!Answers(g) \/ Mcp!Interrupts(g) \/ Mcp!Exits(g)
      PROVE  Mcp!IInv'
  BY <1>3, ServerSteps
<1>4. CASE Mcp!ClosePool
  BY <1>4, ClosePoolStep
<1> QED
  BY <1>1, <1>2, <1>3, <1>4 DEF Mcp!Next

LEMMA McpInvariant == Spec => [](part = "mcp" => Mcp!IInv)
<1>1. Init => (part = "mcp" => Mcp!IInv)
  BY McpInit
<1>2. (part = "mcp" => Mcp!IInv) /\ [Next]_vars => (part = "mcp" => Mcp!IInv)'
  BY OnePartMoves, McpStep
<1> QED
  BY <1>1, <1>2, PTL DEF Spec

\* However many callers share a server, and however late or out of order it
\* answers, dies and is started again: an answer that comes after its request's
\* time closes no client, and every process that runs is the pool's or is being
\* started (mcp.py, mcp_pool.py).
THEOREM ServersAreKept == Spec => []ServerIsKept
<1>1. (part = "mcp" => Mcp!IInv) => ServerIsKept
  BY DEF Mcp!IInv, ServerIsKept
<1> QED
  BY <1>1, McpInvariant, PTL

-----------------------------------------------------------------------------
(* What a leader is told of its subagents: SubagentNotices.                 *)

LEMMA NoticeTypes ==
    ASSUME Notice!IInv
    PROVE  /\ at \in Notice!Listening \cup {"idle", "ending", "cancelling", "joining"}
           /\ again \in BOOLEAN /\ answered \in BOOLEAN /\ accepts \in BOOLEAN /\ run \in Nat
           /\ names \subseteq Names /\ pool \in [Names -> Notice!Dispatches \cup {0}]
           /\ record \in [Notice!Dispatches -> Notice!Records]
           /\ live \subseteq Notice!Dispatches /\ closes \subseteq Names
           /\ questions \in [Notice!Questions -> [by : Notice!Dispatches \cup {0},
                                                  delivered : BOOLEAN, waited : BOOLEAN]]
           /\ resultsTold \in [Notice!Dispatches -> Nat]
           /\ \A d \in Notice!Dispatches : d \in Nat /\ d # 0
BY NoticeParameters DEF Notice!IInv, Notice!Typing, Notice!Dispatches, Notice!NoticeAssumption

LEMMA NoticeInit == Init => Notice!IInv
<1> SUFFICES ASSUME Notice!Init
             PROVE  Notice!IInv
  BY DEF Init
<1> USE DEF Notice!Init
<1>1. Notice!Typing
  BY DEF Notice!Typing, Notice!Records
<1>2. \A d \in Notice!Dispatches : Notice!RecordAgrees(d)
  BY DEF Notice!RecordAgrees
<1>3. Notice!Pooled /\ Notice!Ends /\ Notice!Places
  BY DEF Notice!Pooled, Notice!Ends, Notice!Places, Notice!Listening, Notice!Asked
<1>4. Notice!Queued /\ Notice!Telling /\ Notice!Awaited /\ Notice!GoesHaveNews
  BY DEF Notice!Queued, Notice!Telling, Notice!Awaited, Notice!GoesHaveNews
<1> QED
  BY <1>1, <1>2, <1>3, <1>4 DEF Notice!IInv, Notice!WorkIsAwaited

\* What is said of records, names and questions rests on nothing else.
LEMMA NothingTold ==
    ASSUME UNCHANGED <<run, names, pool, record, live, questions, resultsTold>>
    PROVE  /\ \A d : Notice!RecordAgrees(d)' <=> Notice!RecordAgrees(d)
           /\ \A d : Notice!Collectable(d)' <=> Notice!Collectable(d)
           /\ \A q : Notice!Open(q)' <=> Notice!Open(q)
           /\ Notice!Pooled' <=> Notice!Pooled
           /\ Notice!Undelivered' <=> Notice!Undelivered
           /\ Notice!Leftover' <=> Notice!Leftover
           /\ Notice!Asked' = Notice!Asked /\ Notice!Made' = Notice!Made
BY DEF Notice!RecordAgrees, Notice!Collectable, Notice!Open, Notice!Pooled,
       Notice!Undelivered, Notice!Leftover, Notice!Asked, Notice!Made

\* The leader goes to another place, and nobody tells it anything.
LEMMA LeaderMoves ==
    ASSUME Notice!IInv, UNCHANGED <<run, queue, accepts, names, pool, record, live, closes, questions, resultsTold>>,
           again' \in BOOLEAN, answered' \in BOOLEAN,
           \/ at \in {"boundary", "asking", "tools", "waiting", "deciding"} /\ at' = "closing"
                /\ ~again' /\ ~answered'
           \/ at = "asking" /\ at' \in {"tools", "waiting"} /\ UNCHANGED <<again, answered>>
           \/ at = "tools" /\ at' = "boundary" /\ UNCHANGED <<again, answered>>
           \/ at = "waiting" /\ at' = "deciding" /\ UNCHANGED <<again, answered>>
                /\ (names = {} \/ queue # {} \/ Notice!Undelivered)
           \/ at = "deciding" /\ queue # {} /\ at' = "boundary" /\ UNCHANGED answered
           \/ at = "deciding" /\ queue = {} /\ at' \in {"closing", "boundary"} /\ UNCHANGED again
                /\ (at' = "boundary" => UNCHANGED answered)
    PROVE  Notice!IInv'
<1>1. Notice!Typing'
  BY NoticeTypes DEF Notice!Typing, Notice!Listening
<1>2. Notice!Places'
  BY NoticeTypes DEF Notice!IInv, Notice!Places, Notice!Listening
<1>3. Notice!Ends' /\ Notice!Queued'
  BY NothingTold, NoticeTypes DEF Notice!IInv, Notice!Ends, Notice!Queued, Notice!Places, Notice!Listening
<1>4. Notice!Telling'
  BY NothingTold DEF Notice!IInv, Notice!Telling, Notice!Places
<1>5. Notice!Awaited' /\ Notice!GoesHaveNews'
  BY NothingTold DEF Notice!IInv, Notice!Awaited, Notice!GoesHaveNews, Notice!Places
<1>6. Notice!WorkIsAwaited'
  <2> SUFFICES ASSUME answered', at' \in {"closing", "ending"}, ~Notice!Leftover
               PROVE  Notice!WorkIsAwaited'
    BY NothingTold DEF Notice!WorkIsAwaited
  <2>1. at = "deciding" /\ queue = {} /\ accepts
    BY DEF Notice!IInv, Notice!Places, Notice!Listening
  <2>2. \A d \in Notice!Dispatches : record[d].run = run => ~Notice!Collectable(d)
    BY <2>1 DEF Notice!IInv, Notice!Queued
  <2>3. \A d \in Notice!Dispatches : record[d].run = run \/ record[d].run < run
    <3> TAKE d \in Notice!Dispatches
    <3>1. record[d].run \in Nat /\ run \in Nat /\ record[d].run <= run
      BY NoticeTypes DEF Notice!IInv, Notice!RecordAgrees, Notice!Records
    <3> QED
      BY <3>1
  <2>4. ~Notice!Undelivered
    BY <2>2, <2>3, NoticeTypes DEF Notice!Undelivered, Notice!Leftover
  <2>5. names = {} /\ live = {}
    BY <2>1, <2>4 DEF Notice!IInv, Notice!Awaited, Notice!Pooled
  <2>6. ASSUME NEW d \in Notice!Made, record[d].run = run
        PROVE  resultsTold[d] = 1 \/ record[d].state \in {"closed", "failed"}
    <3>1. d \in Notice!Dispatches /\ record[d].state # "none"
      BY DEF Notice!Made
    <3>2. /\ Notice!RecordAgrees(d) /\ record[d] \in Notice!Records /\ ~Notice!Collectable(d)
      BY <2>2, <2>6, <3>1, NoticeTypes DEF Notice!IInv
    <3> QED
      BY <2>5, <3>1, <3>2 DEF Notice!RecordAgrees, Notice!Collectable, Notice!Records
  <2>7. \A q \in Notice!Asked : record[questions[q].by].run = run => ~Notice!Open(q)
    BY <2>1 DEF Notice!IInv, Notice!Queued
  <2> QED
    BY <2>5, <2>6, <2>7, NothingTold DEF Notice!WorkIsAwaited
<1> QED
  BY <1>1, <1>2, <1>3, <1>4, <1>5, <1>6, NothingTold DEF Notice!IInv

LEMMA LeaderSteps ==
    ASSUME Notice!IInv,
           Notice!Responds \/ Notice!EndTools \/ Notice!Interrupted \/ Notice!WaitedFor
             \/ Notice!Decides
    PROVE  Notice!IInv'
<1>1. again \in BOOLEAN /\ answered \in BOOLEAN
  BY NoticeTypes
<1>2. CASE Notice!Responds \/ Notice!EndTools \/ Notice!WaitedFor
  BY <1>1, <1>2, LeaderMoves DEF Notice!Responds, Notice!EndTools, Notice!WaitedFor, Notice!Goes
<1>3. CASE Notice!Interrupted
  BY <1>1, <1>3, LeaderMoves DEF Notice!Interrupted, Notice!Breaks, Notice!Goes
<1>4. CASE Notice!Decides
  BY <1>1, <1>4, LeaderMoves DEF Notice!Decides, Notice!Goes
<1> QED
  BY <1>2, <1>3, <1>4

LEMMA ChatStep ==
    ASSUME Notice!IInv, Notice!Chat
    PROVE  Notice!IInv'
<1>1. /\ at = "idle" /\ at' = "boundary" /\ run' = run + 1 /\ ~again' /\ ~answered'
      /\ again' \in BOOLEAN /\ answered' \in BOOLEAN
      /\ queue' = {} /\ accepts' = TRUE
      /\ UNCHANGED <<names, pool, record, live, closes, questions, resultsTold>>
  BY DEF Notice!Chat
<1>2. live = {} /\ names = {} /\ closes = {}
  BY <1>1 DEF Notice!IInv, Notice!Ends, Notice!Pooled
<1>3. Notice!Typing'
  BY <1>1, NoticeTypes DEF Notice!Typing, Notice!Listening
<1>4. Notice!Places'
  BY <1>1 DEF Notice!Places, Notice!Listening
<1>5. \A d \in Notice!Dispatches : record[d].run < run'
  <2> TAKE d \in Notice!Dispatches
  <2>1. record[d].run \in Nat /\ run \in Nat /\ record[d].run <= run
    BY NoticeTypes DEF Notice!IInv, Notice!RecordAgrees, Notice!Records
  <2> QED
    BY <1>1, <2>1
<1>6. \A d \in Notice!Dispatches : record[d].run # run' /\ record[d].run <= run'
  <2> TAKE d \in Notice!Dispatches
  <2>1. record[d].run \in Nat /\ run' \in Nat /\ record[d].run < run'
    BY <1>1, <1>5, NoticeTypes DEF Notice!Records
  <2> QED
    BY <2>1
<1>7. ASSUME NEW d \in Notice!Dispatches
      PROVE  Notice!RecordAgrees(d)'
  BY <1>1, <1>2, <1>6 DEF Notice!IInv, Notice!RecordAgrees
<1>8. Notice!Pooled' /\ Notice!Ends'
  BY <1>1, <1>2 DEF Notice!IInv, Notice!Pooled, Notice!Ends, Notice!Asked
<1>9. Notice!Queued'
  <2>1. \A q \in Notice!Asked' : record[questions[q].by].run # run'
    BY <1>1, <1>6, NoticeTypes DEF Notice!Asked
  <2>2. \A q \in Notice!Questions \ Notice!Asked : ~questions[q].delivered
    BY DEF Notice!IInv, Notice!Queued
  <2>3. Notice!Asked' = Notice!Asked
    BY <1>1 DEF Notice!Asked
  <2> QED
    BY <1>1, <1>6, <2>1, <2>2, <2>3 DEF Notice!Queued
<1>10. Notice!Telling' /\ Notice!Awaited' /\ Notice!GoesHaveNews' /\ Notice!WorkIsAwaited'
  BY <1>1 DEF Notice!Telling, Notice!Awaited, Notice!GoesHaveNews, Notice!WorkIsAwaited
<1> QED
  BY <1>3, <1>4, <1>7, <1>8, <1>9, <1>10 DEF Notice!IInv

\* The person's redirect.
LEMMA RedirectStep ==
    ASSUME Notice!IInv, Notice!Redirect
    PROVE  Notice!IInv'
<1>1. /\ accepts /\ queue' = queue \cup {[text |-> TRUE]}
      /\ UNCHANGED <<at, again, answered, run, accepts, names, pool, record, live, closes,
                     questions, resultsTold>>
  BY DEF Notice!Redirect, Notice!leaderVars
<1>2. \A d : [result |-> d] \in queue' => [result |-> d] \in queue
  BY <1>1
<1>3. Notice!Typing' /\ Notice!Places' /\ Notice!Ends'
  BY <1>1 DEF Notice!IInv, Notice!Typing, Notice!Places, Notice!Ends
<1>4. Notice!Queued'
  BY <1>1, <1>2, NothingTold DEF Notice!IInv, Notice!Queued
<1>5. Notice!Telling'
  BY <1>1, NothingTold DEF Notice!IInv, Notice!Telling
<1>6. Notice!Awaited' /\ Notice!GoesHaveNews' /\ Notice!WorkIsAwaited'
  BY <1>1, NothingTold DEF Notice!IInv, Notice!Awaited, Notice!GoesHaveNews, Notice!WorkIsAwaited
<1> QED
  BY <1>1, <1>3, <1>4, <1>5, <1>6, NothingTold DEF Notice!IInv

\* cancel_background begins, waits for one it closed, and ends.
LEMMA CancelSteps ==
    ASSUME Notice!IInv, Notice!CancelBackground \/ Notice!Joined \/ Notice!EndRun
    PROVE  Notice!IInv'
<1>1. /\ UNCHANGED <<run, again, answered, queue, accepts, names, pool, record, live, questions,
                     resultsTold>>
      /\ \/ at = "ending" /\ at' = "cancelling" /\ closes' = names
         \/ /\ at = "joining" /\ UNCHANGED closes /\ \A d \in live : record[d].state # "closed"
            /\ at' = IF accepts THEN "tools" ELSE "cancelling"
         \/ at = "cancelling" /\ closes = {} /\ at' = "idle" /\ UNCHANGED closes
  BY DEF Notice!CancelBackground, Notice!Joined, Notice!EndRun, Notice!Goes
<1>2. Notice!Typing' /\ Notice!Places'
  BY <1>1, NoticeTypes DEF Notice!IInv, Notice!Typing, Notice!Places, Notice!Listening
<1>3. Notice!Ends'
  <2>1. CASE at = "ending"
    <3>1. \A n \in names : pool[n] # 0
      BY NoticeTypes DEF Notice!IInv, Notice!Pooled
    <3> QED
      BY <1>1, <2>1, <3>1 DEF Notice!IInv, Notice!Ends, Notice!Pooled, Notice!Places
  <2>2. CASE at = "joining"
    BY <1>1, <2>2 DEF Notice!IInv, Notice!Ends
  <2>3. CASE at = "cancelling"
    BY <1>1, <2>3 DEF Notice!IInv, Notice!Ends, Notice!Places
  <2> QED
    BY <1>1, <2>1, <2>2, <2>3
<1>4. Notice!Queued'
  BY <1>1, NothingTold DEF Notice!IInv, Notice!Queued
<1>5. /\ Notice!Telling' /\ Notice!Awaited' /\ Notice!GoesHaveNews' /\ Notice!WorkIsAwaited'
  BY <1>1, NothingTold DEF Notice!Telling, Notice!Awaited, Notice!GoesHaveNews, Notice!WorkIsAwaited
<1> QED
  BY <1>1, <1>2, <1>3, <1>4, <1>5, NothingTold DEF Notice!IInv

\* Results that are given to the leader: once each, and what was told stays so.
LEMMA CollectKeeps ==
    ASSUME Notice!IInv, NEW D \in SUBSET Notice!Dispatches, Notice!Collect(D),
           \A d \in D : Notice!Collectable(d), UNCHANGED <<run, live>>
    PROVE  /\ record' \in [Notice!Dispatches -> Notice!Records]
           /\ resultsTold' \in [Notice!Dispatches -> Nat]
           /\ \A d \in Notice!Dispatches :
                /\ record'[d].name = record[d].name /\ record'[d].state = record[d].state
                /\ record'[d].result = record[d].result /\ record'[d].run = record[d].run
                /\ record'[d].delivered = (record[d].delivered \/ d \in D)
                /\ resultsTold[d] = 1 => resultsTold'[d] = 1
                /\ Notice!Collectable(d)' <=> Notice!Collectable(d) /\ d \notin D
                /\ Notice!RecordAgrees(d)'
<1>1. ASSUME NEW d \in Notice!Dispatches
      PROVE  /\ record'[d] \in Notice!Records
             /\ resultsTold'[d] \in Nat
             /\ record'[d].name = record[d].name /\ record'[d].state = record[d].state
             /\ record'[d].result = record[d].result /\ record'[d].run = record[d].run
             /\ record'[d].delivered = (record[d].delivered \/ d \in D)
             /\ resultsTold'[d] = IF d \in D THEN resultsTold[d] + 1 ELSE resultsTold[d]
  <2>1. record[d] \in Notice!Records /\ resultsTold[d] \in Nat
    BY NoticeTypes
  <2>2. record'[d] = IF d \in D THEN [record[d] EXCEPT !.delivered = TRUE] ELSE record[d]
    BY DEF Notice!Collect
  <2>3. resultsTold'[d] = IF d \in D THEN resultsTold[d] + 1 ELSE resultsTold[d]
    BY DEF Notice!Collect
  <2>4. CASE d \in D
    <3>1. PICK r : r = [record[d] EXCEPT !.delivered = TRUE]
      OBVIOUS
    <3>2. /\ r \in Notice!Records /\ r.delivered = TRUE /\ r.name = record[d].name
          /\ r.state = record[d].state /\ r.result = record[d].result /\ r.run = record[d].run
      BY <2>1, <3>1 DEF Notice!Records
    <3>3. record'[d] = r /\ resultsTold'[d] = resultsTold[d] + 1
      BY <2>2, <2>3, <2>4, <3>1
    <3>4. record'[d].delivered = (record[d].delivered \/ d \in D)
      BY <2>4, <3>2, <3>3
    <3> QED
      BY <2>1, <2>3, <3>2, <3>3, <3>4
  <2>5. CASE d \notin D
    <3>1. record[d].delivered \in BOOLEAN
      BY <2>1 DEF Notice!Records
    <3>2. record'[d] = record[d] /\ resultsTold'[d] = resultsTold[d]
      BY <2>2, <2>3, <2>5
    <3>3. record'[d].delivered = (record[d].delivered \/ d \in D)
      BY <2>5, <3>1, <3>2
    <3> QED
      BY <2>1, <2>3, <3>2, <3>3
  <2> QED
    BY <2>4, <2>5
<1>2. /\ record' \in [Notice!Dispatches -> Notice!Records]
      /\ resultsTold' \in [Notice!Dispatches -> Nat]
  BY <1>1 DEF Notice!Collect
<1>3. ASSUME NEW d \in Notice!Dispatches
      PROVE  /\ Notice!Collectable(d)' <=> Notice!Collectable(d) /\ d \notin D
             /\ resultsTold[d] = 1 => resultsTold'[d] = 1
             /\ Notice!RecordAgrees(d)'
  <2>1. d \in D => resultsTold[d] = 0 /\ record[d].state # "closed" /\ record[d].result
    BY DEF Notice!IInv, Notice!RecordAgrees, Notice!Collectable
  <2>2. Notice!RecordAgrees(d)
    BY DEF Notice!IInv
  <2>3. Notice!Collectable(d)' <=> Notice!Collectable(d) /\ d \notin D
    BY <1>1 DEF Notice!Collectable
  <2>4. CASE d \in D
    <3>1. resultsTold'[d] = 1 /\ record'[d].delivered /\ record'[d].result
      <4>1. resultsTold'[d] = 1
        BY <1>1, <2>1, <2>4
      <4>2. record'[d].delivered = (record[d].delivered \/ TRUE)
        BY <1>1, <2>4, Zenon
      <4>3. record'[d].delivered
        BY <4>2, Zenon
      <4>4. record'[d].result
        BY <1>1, <2>1, <2>4, Zenon
      <4> QED
        BY <4>1, <4>3, <4>4
    <3>2. record[d].state = "finished"
      <4>1. record[d].state \in {"none", "running", "failed", "finished", "closed"}
        BY NoticeTypes DEF Notice!Records
      <4>2. record[d].result /\ record[d].state # "closed"
        BY <2>1, <2>4, Zenon
      <4>3. record[d].state \notin {"none", "running", "failed"}
        BY <2>2, <4>2, Zenon DEF Notice!RecordAgrees
      <4> QED
        BY <4>1, <4>2, <4>3
    <3>3. record'[d].state = "finished" /\ d \notin live'
      BY <1>1, <2>1, <2>2, <3>2 DEF Notice!RecordAgrees
    <3> QED
      BY <1>1, <2>2, <2>3, <3>1, <3>3 DEF Notice!RecordAgrees
  <2>5. CASE d \notin D
    <3>1. record'[d].delivered = record[d].delivered
      BY <1>1, <2>5, NoticeTypes DEF Notice!Records
    <3> QED
      BY <1>1, <2>2, <2>3, <2>5, <3>1 DEF Notice!RecordAgrees
  <2> QED
    BY <2>4, <2>5
<1> QED
  BY <1>1, <1>2, <1>3

\* take_redirects and close_redirects: the notices are said.
LEMMA ResolveKeeps ==
    ASSUME Notice!IInv, Notice!Resolve, UNCHANGED <<run, names, pool, live, closes>>, accepts' => accepts
    PROVE  /\ queue' = {}
           /\ record' \in [Notice!Dispatches -> Notice!Records]
           /\ resultsTold' \in [Notice!Dispatches -> Nat]
           /\ questions' \in [Notice!Questions -> [by : Notice!Dispatches \cup {0},
                                                   delivered : BOOLEAN, waited : BOOLEAN]]
           /\ \A d \in Notice!Dispatches :
                /\ record'[d].state = record[d].state /\ record'[d].run = record[d].run
                /\ Notice!RecordAgrees(d)' /\ (resultsTold[d] = 1 => resultsTold'[d] = 1)
           /\ Notice!Pooled' /\ Notice!Queued' /\ (Notice!Leftover => Notice!Leftover')
           /\ Notice!Made' = Notice!Made /\ Notice!Asked' = Notice!Asked
           /\ \A q \in Notice!Asked : /\ questions'[q].by = questions[q].by
                                      /\ Notice!Open(q)' => Notice!Open(q)
<1> DEFINE D == Notice!Results(queue)
<1>1. /\ Notice!Collect(D) /\ queue' = {}
      /\ questions' = [q \in Notice!Questions |-> IF q \in Notice!Told(queue)
                         THEN [questions[q] EXCEPT !.delivered = TRUE] ELSE questions[q]]
  BY DEF Notice!Resolve
<1>2. /\ D \in SUBSET Notice!Dispatches /\ \A d \in D : Notice!Collectable(d)
      /\ \A d \in Notice!Dispatches : d \in D <=> [result |-> d] \in queue /\ Notice!Collectable(d)
  BY DEF Notice!Results
<1> HIDE DEF D
<1>3. /\ record' \in [Notice!Dispatches -> Notice!Records]
      /\ resultsTold' \in [Notice!Dispatches -> Nat]
      /\ \A d \in Notice!Dispatches :
           /\ record'[d].name = record[d].name /\ record'[d].state = record[d].state
           /\ record'[d].run = record[d].run
           /\ resultsTold[d] = 1 => resultsTold'[d] = 1
           /\ Notice!Collectable(d)' <=> Notice!Collectable(d) /\ d \notin D
           /\ Notice!RecordAgrees(d)'
  BY <1>1, <1>2, CollectKeeps
<1>4. ASSUME NEW q \in Notice!Questions
      PROVE  /\ questions'[q] \in [by : Notice!Dispatches \cup {0}, delivered : BOOLEAN,
                                   waited : BOOLEAN]
             /\ questions'[q].by = questions[q].by
             /\ questions'[q].delivered = (questions[q].delivered \/ q \in Notice!Told(queue))
  <2>1. questions[q] \in [by : Notice!Dispatches \cup {0}, delivered : BOOLEAN, waited : BOOLEAN]
    BY NoticeTypes
  <2>2. questions'[q] = IF q \in Notice!Told(queue) THEN [questions[q] EXCEPT !.delivered = TRUE]
                        ELSE questions[q]
    BY <1>1
  <2>3. CASE q \in Notice!Told(queue)
    BY <2>1, <2>2, <2>3
  <2>4. CASE q \notin Notice!Told(queue)
    BY <2>1, <2>2, <2>4
  <2> QED
    BY <2>3, <2>4
<1>5. questions' \in [Notice!Questions -> [by : Notice!Dispatches \cup {0}, delivered : BOOLEAN,
                                           waited : BOOLEAN]]
  BY <1>1, <1>4
<1>6. Notice!Made' = Notice!Made /\ Notice!Asked' = Notice!Asked
  BY <1>3, <1>4 DEF Notice!Made, Notice!Asked
<1>7. \A q \in Notice!Asked : questions[q].by \in Notice!Dispatches /\ q \in Notice!Questions
  BY NoticeTypes DEF Notice!Asked
<1>8. \A q \in Notice!Asked : Notice!Open(q)' <=> Notice!Open(q) /\ q \notin Notice!Told(queue)
  BY <1>3, <1>4, <1>7 DEF Notice!Open
<1>9. Notice!Pooled'
  <2>1. \A n \in Names : pool[n] # 0 => pool[n] \in Notice!Dispatches
    BY NoticeTypes
  <2> QED
    BY <1>3, <1>4, <1>6, <1>7, <2>1 DEF Notice!IInv, Notice!Pooled
<1>10. Notice!Queued'
  <2>1. ASSUME accepts, NEW d \in Notice!Dispatches, record[d].run = run
        PROVE  ~Notice!Collectable(d)'
    BY <1>2, <1>3, <2>1 DEF Notice!IInv, Notice!Queued
  <2>2. ASSUME accepts, NEW q \in Notice!Asked, record[questions[q].by].run = run
        PROVE  ~Notice!Open(q)'
    BY <1>7, <1>8, <2>2 DEF Notice!IInv, Notice!Queued, Notice!Told
  <2>3. ASSUME NEW q \in Notice!Questions \ Notice!Asked
        PROVE  ~questions'[q].delivered
    <3>1. ~questions[q].delivered /\ q \notin Notice!Told(queue)
      BY DEF Notice!IInv, Notice!Queued, Notice!Told
    <3> QED
      BY <1>4, <3>1
  <2> QED
    BY <1>1, <1>3, <1>4, <1>6, <1>7, <2>1, <2>2, <2>3 DEF Notice!Queued
<1>11. ASSUME Notice!Leftover
       PROVE  Notice!Leftover'
  <2>1. PICK n \in Names : pool[n] # 0 /\ Notice!Collectable(pool[n]) /\ record[pool[n]].run < run
    BY <1>11 DEF Notice!Leftover
  <2>2. pool[n] \in Notice!Dispatches
    BY <2>1, NoticeTypes
  <2>3. record[pool[n]].run \in Nat /\ record[pool[n]].run # run
    BY <2>1, <2>2, NoticeTypes DEF Notice!Records
  <2>4. pool[n] \notin D
    BY <1>2, <2>2, <2>3 DEF Notice!IInv, Notice!Queued
  <2>5. Notice!Collectable(pool[n])'
    BY <1>3, <2>1, <2>2, <2>4
  <2> QED
    BY <1>3, <2>1, <2>2, <2>5 DEF Notice!Leftover
<1> QED
  BY <1>1, <1>3, <1>4, <1>5, <1>6, <1>7, <1>8, <1>9, <1>10, <1>11

LEMMA RedirectsAreRead ==
    ASSUME Notice!IInv, Notice!TakeRedirects \/ Notice!CloseRedirects
    PROVE  Notice!IInv'
<1>1. /\ Notice!Resolve /\ UNCHANGED <<run, answered, names, pool, live, closes>>
      /\ ~again' \/ UNCHANGED again
      /\ again' \in BOOLEAN /\ accepts' \in BOOLEAN /\ (accepts' => accepts)
      /\ \/ at = "boundary" /\ at' = "asking" /\ UNCHANGED accepts /\ ~again'
         \/ at = "closing" /\ at' = "ending" /\ ~accepts' /\ UNCHANGED again
  <2>1. again \in BOOLEAN /\ accepts \in BOOLEAN
    BY NoticeTypes
  <2>2. CASE Notice!TakeRedirects
    BY <2>1, <2>2 DEF Notice!TakeRedirects, Notice!Goes
  <2>3. CASE Notice!CloseRedirects
    BY <2>1, <2>3 DEF Notice!CloseRedirects, Notice!Goes
  <2> QED
    BY <2>2, <2>3
<1>2. /\ queue' = {}
      /\ record' \in [Notice!Dispatches -> Notice!Records]
      /\ resultsTold' \in [Notice!Dispatches -> Nat]
      /\ questions' \in [Notice!Questions -> [by : Notice!Dispatches \cup {0},
                                              delivered : BOOLEAN, waited : BOOLEAN]]
      /\ \A d \in Notice!Dispatches :
           /\ record'[d].state = record[d].state /\ record'[d].run = record[d].run
           /\ Notice!RecordAgrees(d)' /\ (resultsTold[d] = 1 => resultsTold'[d] = 1)
      /\ Notice!Pooled' /\ Notice!Queued' /\ (Notice!Leftover => Notice!Leftover')
      /\ Notice!Made' = Notice!Made /\ Notice!Asked' = Notice!Asked
      /\ \A q \in Notice!Asked : /\ questions'[q].by = questions[q].by
                                 /\ Notice!Open(q)' => Notice!Open(q)
  BY <1>1, ResolveKeeps
<1>3. Notice!Typing'
  BY <1>1, <1>2, NoticeTypes DEF Notice!Typing, Notice!Listening
<1>4. Notice!Places'
  BY <1>1 DEF Notice!IInv, Notice!Places, Notice!Listening
<1>5. Notice!Ends'
  BY <1>1, <1>2, NoticeTypes DEF Notice!IInv, Notice!Ends
<1>6. Notice!Telling' /\ Notice!Awaited' /\ Notice!GoesHaveNews'
  BY <1>1, <1>2 DEF Notice!Telling, Notice!Awaited, Notice!GoesHaveNews
<1>7. Notice!WorkIsAwaited'
  <2> SUFFICES ASSUME answered, at = "closing", ~Notice!Leftover
               PROVE  /\ live = {}
                      /\ \A d \in Notice!Made : record'[d].run = run =>
                           resultsTold'[d] = 1 \/ record'[d].state \in {"closed", "failed"}
                      /\ \A q \in Notice!Asked :
                           record'[questions'[q].by].run = run => ~Notice!Open(q)'
    BY <1>1, <1>2 DEF Notice!WorkIsAwaited
  <2>1. /\ live = {}
        /\ \A d \in Notice!Made : record[d].run = run =>
             resultsTold[d] = 1 \/ record[d].state \in {"closed", "failed"}
        /\ \A q \in Notice!Asked : record[questions[q].by].run = run => ~Notice!Open(q)
    BY DEF Notice!IInv, Notice!WorkIsAwaited
  <2>2. \A d \in Notice!Made : d \in Notice!Dispatches
    BY DEF Notice!Made
  <2>3. \A q \in Notice!Asked : questions[q].by \in Notice!Dispatches
    BY NoticeTypes DEF Notice!Asked
  <2> QED
    BY <1>2, <2>1, <2>2, <2>3
<1> QED
  BY <1>2, <1>3, <1>4, <1>5, <1>6, <1>7 DEF Notice!IInv

\* wait_subagents gives results and names questions.
LEMMA WaitSubagentsStep ==
    ASSUME Notice!IInv, NEW S \in SUBSET Names, Notice!WaitSubagents(S)
    PROVE  Notice!IInv'
<1> DEFINE D == {d \in Notice!Dispatches : Notice!Collectable(d) /\ \E n \in S : pool[n] = d}
           Q == {q \in Notice!Asked : /\ record[questions[q].by].name \in S
                                      /\ ~questions[q].delivered /\ ~questions[q].waited}
<1>1. /\ at = "tools" /\ Notice!Collect(D)
      /\ questions' = [q \in Notice!Questions |-> IF q \in Q
                         THEN [questions[q] EXCEPT !.waited = TRUE] ELSE questions[q]]
      /\ UNCHANGED <<at, again, answered, run, queue, accepts, names, pool, live, closes>>
  BY DEF Notice!WaitSubagents, Notice!leaderVars
<1>2. D \in SUBSET Notice!Dispatches /\ \A d \in D : Notice!Collectable(d)
  OBVIOUS
<1> HIDE DEF D, Q
<1>3. /\ record' \in [Notice!Dispatches -> Notice!Records]
      /\ resultsTold' \in [Notice!Dispatches -> Nat]
      /\ \A d \in Notice!Dispatches :
           /\ record'[d].name = record[d].name /\ record'[d].state = record[d].state
           /\ record'[d].run = record[d].run
           /\ Notice!Collectable(d)' <=> Notice!Collectable(d) /\ d \notin D
           /\ Notice!RecordAgrees(d)'
  BY <1>1, <1>2, CollectKeeps
<1>4. ASSUME NEW q \in Notice!Questions
      PROVE  /\ questions'[q] \in [by : Notice!Dispatches \cup {0}, delivered : BOOLEAN,
                                   waited : BOOLEAN]
             /\ questions'[q].by = questions[q].by
             /\ questions'[q].delivered = questions[q].delivered
  <2>1. questions[q] \in [by : Notice!Dispatches \cup {0}, delivered : BOOLEAN, waited : BOOLEAN]
    BY NoticeTypes
  <2>2. questions'[q] = [questions[q] EXCEPT !.waited = TRUE] \/ questions'[q] = questions[q]
    BY <1>1
  <2> QED
    BY <2>1, <2>2
<1>5. Notice!Typing'
  <2>1. questions' \in [Notice!Questions -> [by : Notice!Dispatches \cup {0}, delivered : BOOLEAN,
                                             waited : BOOLEAN]]
    BY <1>1, <1>4
  <2> QED
    BY <1>1, <1>3, <2>1, NoticeTypes DEF Notice!Typing
<1>6. Notice!Places' /\ Notice!Ends'
  BY <1>1, <1>3, NoticeTypes DEF Notice!IInv, Notice!Places, Notice!Ends
<1>7. Notice!Pooled'
  <2>1. \A n \in Names : pool[n] # 0 => pool[n] \in Notice!Dispatches
    BY NoticeTypes
  <2> QED
    BY <1>1, <1>3, <1>4, <2>1, NoticeTypes DEF Notice!IInv, Notice!Pooled, Notice!Asked
<1>8. Notice!Queued'
  <2>1. Notice!Asked' = Notice!Asked
    BY <1>4 DEF Notice!Asked
  <2>2. \A q \in Notice!Asked : questions[q].by \in Notice!Dispatches /\ q \in Notice!Questions
    BY NoticeTypes DEF Notice!Asked
  <2>3. \A q \in Notice!Asked : Notice!Open(q)' <=> Notice!Open(q)
    BY <1>3, <1>4, <2>2 DEF Notice!Open
  <2> QED
    BY <1>1, <1>3, <1>4, <2>1, <2>2, <2>3 DEF Notice!IInv, Notice!Queued
<1>9. Notice!Telling' /\ Notice!Awaited' /\ Notice!GoesHaveNews' /\ Notice!WorkIsAwaited'
  BY <1>1 DEF Notice!Telling, Notice!Awaited, Notice!GoesHaveNews, Notice!WorkIsAwaited
<1> QED
  BY <1>3, <1>5, <1>6, <1>7, <1>8, <1>9 DEF Notice!IInv

\* A subagent is closed, by the leader or by cancel_background.
LEMMA ClosingStep ==
    ASSUME Notice!IInv, NEW n \in Names, pool[n] # 0, Notice!Closes(n), at' = "joining",
           UNCHANGED <<run, again, answered, queue, accepts, names, pool, live, questions,
                       resultsTold>>,
           \/ at = "tools" /\ UNCHANGED closes
           \/ at = "cancelling" /\ closes' = closes \ {n}
    PROVE  Notice!IInv'
<1> DEFINE e == pool[n]
<1>1. e \in Notice!Dispatches /\ record[e] \in Notice!Records
  BY NoticeTypes
<1>2. /\ record'[e].state = "closed" /\ record'[e].delivered
      /\ record'[e].name = record[e].name /\ record'[e].run = record[e].run
      /\ record'[e].result = record[e].result /\ record' \in [Notice!Dispatches -> Notice!Records]
      /\ \A d \in Notice!Dispatches : d # e => record'[d] = record[d]
  <2>1. PICK r : r = [record[e] EXCEPT !.state = "closed", !.delivered = TRUE]
    OBVIOUS
  <2>2. /\ r \in Notice!Records /\ r.state = "closed" /\ r.delivered
        /\ r.name = record[e].name /\ r.run = record[e].run /\ r.result = record[e].result
    BY <1>1, <2>1 DEF Notice!Records
  <2>3. record' = [record EXCEPT ![e] = r]
    BY <2>1 DEF Notice!Closes
  <2> QED
    BY <1>1, <2>2, <2>3, NoticeTypes
<1>3. \A d \in Notice!Dispatches : /\ record'[d].name = record[d].name
                                   /\ record'[d].run = record[d].run
                                   /\ d # e => record'[d] = record[d]
  BY <1>2
<1>4. record[e].state # "none" /\ record[e].name = n
  BY <1>1 DEF Notice!IInv, Notice!Pooled
<1>5. \A d \in Notice!Dispatches : Notice!RecordAgrees(d)
  BY DEF Notice!IInv
<1> HIDE DEF e
<1>6. ASSUME NEW d \in Notice!Dispatches
      PROVE  Notice!RecordAgrees(d)'
  <2>1. CASE d = e
    BY <1>1, <1>2, <1>5, <2>1 DEF Notice!RecordAgrees
  <2>2. CASE d # e
    BY <1>3, <1>5, <2>2 DEF Notice!RecordAgrees
  <2> QED
    BY <2>1, <2>2
<1>7. Notice!Typing'
  BY <1>2, NoticeTypes DEF Notice!Typing, Notice!Listening
<1>8. Notice!Places'
  BY DEF Notice!IInv, Notice!Places, Notice!Listening
<1>9. Notice!Pooled'
  <2>1. \A m \in Names : pool[m] # 0 => pool[m] \in Notice!Dispatches
    BY NoticeTypes
  <2> QED
    BY <1>2, <1>3, <2>1, NoticeTypes DEF Notice!IInv, Notice!Pooled, Notice!Asked
<1>10. Notice!Ends'
  <2>1. at = "tools" => closes = {} /\ accepts
    BY DEF Notice!IInv, Notice!Ends, Notice!Places, Notice!Listening
  <2>2. at = "cancelling" => ~accepts /\ \A d \in live : \E m \in closes : pool[m] = d
    BY DEF Notice!IInv, Notice!Ends, Notice!Places
  <2>3. \A d \in live : \A m \in closes : pool[m] = d => record'[d].state = "closed" \/ m # n
    BY <1>2 DEF e
  <2> QED
    BY <2>1, <2>2, <2>3 DEF Notice!IInv, Notice!Ends
<1>11. Notice!Queued'
  <2>1. \A d \in Notice!Dispatches : Notice!Collectable(d)' => Notice!Collectable(d)
    BY <1>2, <1>3 DEF Notice!Collectable
  <2>2. \A q \in Notice!Asked : questions[q].by \in Notice!Dispatches
    BY NoticeTypes DEF Notice!Asked
  <2>3. \A q \in Notice!Asked : Notice!Open(q)' => Notice!Open(q)
    BY <1>2, <1>3, <2>2 DEF Notice!Open
  <2>4. Notice!Asked' = Notice!Asked
    BY DEF Notice!Asked
  <2> QED
    BY <1>3, <2>1, <2>2, <2>3, <2>4 DEF Notice!IInv, Notice!Queued
<1>12. Notice!Telling' /\ Notice!Awaited' /\ Notice!GoesHaveNews' /\ Notice!WorkIsAwaited'
  BY DEF Notice!Telling, Notice!Awaited, Notice!GoesHaveNews, Notice!WorkIsAwaited
<1> QED
  BY <1>6, <1>7, <1>8, <1>9, <1>10, <1>11, <1>12 DEF Notice!IInv

LEMMA ClosingSteps ==
    ASSUME Notice!IInv, Notice!CloseNext \/ \E n \in Names : Notice!CloseSubagent(n)
    PROVE  Notice!IInv'
<1>1. CASE Notice!CloseNext
  <2>1. PICK n \in closes : Notice!Closes(n) /\ closes' = closes \ {n}
    BY <1>1 DEF Notice!CloseNext
  <2>2. n \in Names /\ pool[n] # 0
    BY NoticeTypes DEF Notice!IInv, Notice!Ends
  <2> QED
    BY <1>1, <2>1, <2>2, ClosingStep DEF Notice!CloseNext, Notice!Goes
<1>2. ASSUME NEW n \in Names, Notice!CloseSubagent(n)
      PROVE  Notice!IInv'
  BY <1>2, ClosingStep DEF Notice!CloseSubagent, Notice!Goes
<1> QED
  BY <1>1, <1>2

\* A name gets a record of its own that is no background dispatch's.
LEMMA ForgottenStep ==
    ASSUME Notice!IInv, NEW n \in Names, Notice!DispatchForeground(n) \/ Notice!ForgetSubagent(n)
    PROVE  Notice!IInv'
<1>1. /\ at \in {"tools", "idle"} /\ n \notin names /\ pool' = [pool EXCEPT ![n] = 0]
      /\ UNCHANGED <<at, again, answered, run, queue, accepts, names, record, live, closes,
                     questions, resultsTold>>
  <2>1. at = "idle" => names = {}
    BY DEF Notice!IInv, Notice!Ends, Notice!Pooled
  <2> QED
    BY <2>1 DEF Notice!DispatchForeground, Notice!ForgetSubagent, Notice!leaderVars
<1>2. /\ pool' \in [Names -> Notice!Dispatches \cup {0}] /\ pool'[n] = 0
      /\ \A m \in Names : m # n => pool'[m] = pool[m]
  BY <1>1, NoticeTypes
<1>3. Notice!Typing' /\ Notice!Places'
  BY <1>1, <1>2, NoticeTypes DEF Notice!IInv, Notice!Typing, Notice!Places
<1>4. \A d \in Notice!Dispatches : Notice!RecordAgrees(d)'
  BY <1>1 DEF Notice!IInv, Notice!RecordAgrees
<1>5. Notice!Pooled'
  BY <1>1, <1>2, NoticeTypes DEF Notice!IInv, Notice!Pooled, Notice!Asked
<1>6. closes = {}
  BY <1>1 DEF Notice!IInv, Notice!Ends
<1>7. Notice!Ends'
  BY <1>1, <1>6 DEF Notice!IInv, Notice!Ends
<1>8. Notice!Queued'
  BY <1>1 DEF Notice!IInv, Notice!Queued, Notice!Collectable, Notice!Open, Notice!Asked
<1>9. Notice!Telling' /\ Notice!Awaited' /\ Notice!GoesHaveNews' /\ Notice!WorkIsAwaited'
  BY <1>1 DEF Notice!Telling, Notice!Awaited, Notice!GoesHaveNews, Notice!WorkIsAwaited
<1> QED
  BY <1>3, <1>4, <1>5, <1>7, <1>8, <1>9 DEF Notice!IInv

\* A background dispatch, which may fail at once.
LEMMA DispatchStep ==
    ASSUME Notice!IInv, NEW n \in Names, Notice!Dispatch(n)
    PROVE  Notice!IInv'
<1>1. /\ at = "tools" /\ n \notin names
      /\ UNCHANGED <<at, again, answered, run, queue, accepts, closes, questions, resultsTold>>
  BY DEF Notice!Dispatch, Notice!leaderVars
<1>2. PICK e \in Notice!Dispatches \ Notice!Made :
        /\ pool' = [pool EXCEPT ![n] = e]
        /\ \/ /\ record' = [record EXCEPT ![e].state = "running", ![e].run = run, ![e].name = n]
              /\ live' = live \cup {e} /\ names' = names \cup {n}
           \/ /\ record' = [record EXCEPT ![e].state = "failed", ![e].run = run, ![e].name = n]
              /\ UNCHANGED <<live, names>>
  BY DEF Notice!Dispatch
<1>3. /\ e \in Notice!Dispatches /\ record[e].state = "none" /\ e # 0
      /\ record[e] \in Notice!Records /\ run \in Nat
  BY NoticeTypes DEF Notice!Made
<1>4. PICK s \in {"running", "failed"} :
        /\ record' = [record EXCEPT ![e].state = s, ![e].run = run, ![e].name = n]
        /\ s = "running" => live' = live \cup {e} /\ names' = names \cup {n}
        /\ s = "failed" => UNCHANGED <<live, names>>
  BY <1>2
<1>5. /\ record' \in [Notice!Dispatches -> Notice!Records]
      /\ record'[e].state = s /\ record'[e].run = run /\ record'[e].name = n
      /\ record'[e].result = record[e].result /\ record'[e].delivered = record[e].delivered
      /\ \A d \in Notice!Dispatches : d # e => record'[d] = record[d]
  <2>1. PICK r : r = [record[e] EXCEPT !.state = s, !.run = run, !.name = n]
    OBVIOUS
  <2>2. /\ r \in Notice!Records /\ r.state = s /\ r.run = run /\ r.name = n
        /\ r.result = record[e].result /\ r.delivered = record[e].delivered
    BY <1>3, <2>1 DEF Notice!Records
  <2>3. record' = [record EXCEPT ![e] = r]
    BY <1>4, <2>1
  <2> QED
    BY <1>3, <2>2, <2>3, NoticeTypes
<1>6. /\ pool' \in [Names -> Notice!Dispatches \cup {0}] /\ pool'[n] = e
      /\ \A m \in Names : m # n => pool'[m] = pool[m]
  BY <1>2, NoticeTypes
<1>7. /\ \A d \in Notice!Dispatches : Notice!RecordAgrees(d)
      /\ \A m \in Names : pool[m] # e
      /\ e \notin live /\ live' \subseteq Notice!Dispatches /\ names' \subseteq Names
  <2>1. \A d \in Notice!Dispatches : Notice!RecordAgrees(d)
    BY DEF Notice!IInv
  <2>2. \A m \in Names : pool[m] # e
    BY <1>3 DEF Notice!IInv, Notice!Pooled
  <2>3. e \notin live
    BY <1>3, <2>1 DEF Notice!RecordAgrees
  <2> QED
    BY <1>3, <1>4, <2>1, <2>2, <2>3, NoticeTypes
<1>8. Notice!Typing'
  BY <1>1, <1>5, <1>6, <1>7, NoticeTypes DEF Notice!Typing
<1>9. Notice!Places'
  BY <1>1 DEF Notice!IInv, Notice!Places
<1>10. ASSUME NEW d \in Notice!Dispatches
       PROVE  Notice!RecordAgrees(d)'
  <2>1. CASE d = e
    <3>1. /\ ~record[e].result /\ ~record[e].delivered /\ resultsTold[e] = 0
      BY <1>3, <1>7 DEF Notice!RecordAgrees
    <3>2. /\ ~record'[e].result /\ ~record'[e].delivered
      BY <1>5, <3>1
    <3> QED
      BY <1>1, <1>3, <1>4, <1>5, <1>7, <2>1, <3>1, <3>2 DEF Notice!RecordAgrees
  <2>2. CASE d # e
    <3>1. d \in live' <=> d \in live
      BY <1>4, <2>2
    <3> QED
      BY <1>1, <1>5, <1>7, <2>2, <3>1 DEF Notice!RecordAgrees
  <2> QED
    BY <2>1, <2>2
<1>11. Notice!Pooled'
  <2>1. \A m \in Names : pool[m] # 0 => pool[m] \in Notice!Dispatches
    BY NoticeTypes
  <2>2. \A m \in Names : pool'[m] # 0 => record'[pool'[m]].state # "none" /\ record'[pool'[m]].name = m
    BY <1>4, <1>5, <1>6, <1>7, <2>1 DEF Notice!IInv, Notice!Pooled
  <2>3. \A m \in names' : pool'[m] \in live'
    BY <1>1, <1>4, <1>6, NoticeTypes DEF Notice!IInv, Notice!Pooled
  <2>4. \A d \in live : \E m \in names : m # n /\ pool'[m] = d
    BY <1>1, <1>6, NoticeTypes DEF Notice!IInv, Notice!Pooled
  <2>5. \A d \in live' : \E m \in names' : pool'[m] = d
    BY <1>4, <1>6, <2>4
  <2>6. \A q \in Notice!Asked' : record'[questions'[q].by].state # "none"
    BY <1>1, <1>4, <1>5, NoticeTypes DEF Notice!IInv, Notice!Pooled, Notice!Asked
  <2> QED
    BY <2>2, <2>3, <2>5, <2>6 DEF Notice!Pooled
<1>12. Notice!Ends'
  <2>1. closes = {} /\ accepts /\ \A d \in live : record[d].state # "closed"
    BY <1>1 DEF Notice!IInv, Notice!Ends, Notice!Places, Notice!Listening
  <2>2. \A d \in live' : record'[d].state # "closed"
    BY <1>4, <1>5, <1>7, <2>1, NoticeTypes
  <2> QED
    BY <1>1, <2>1, <2>2 DEF Notice!Ends
<1>13. Notice!Queued'
  <2>1. \A d \in Notice!Dispatches : Notice!Collectable(d)' => d # e /\ Notice!Collectable(d)
    BY <1>3, <1>5, <1>7 DEF Notice!Collectable, Notice!RecordAgrees
  <2>2. Notice!Asked' = Notice!Asked /\ \A q \in Notice!Asked : questions[q].by \in Notice!Dispatches
    BY <1>1, NoticeTypes DEF Notice!Asked
  <2>3. ASSUME accepts, NEW q \in Notice!Asked, Notice!Open(q)', record'[questions[q].by].run = run
        PROVE  [question |-> q] \in queue
    <3>1. questions[q].by # e
      BY <1>3 DEF Notice!IInv, Notice!Pooled
    <3> QED
      BY <1>1, <1>5, <2>2, <2>3, <3>1 DEF Notice!IInv, Notice!Queued, Notice!Open
  <2> QED
    BY <1>1, <1>5, <2>1, <2>2, <2>3 DEF Notice!IInv, Notice!Queued
<1>14. Notice!Telling' /\ Notice!Awaited' /\ Notice!GoesHaveNews' /\ Notice!WorkIsAwaited'
  BY <1>1 DEF Notice!Telling, Notice!Awaited, Notice!GoesHaveNews, Notice!WorkIsAwaited
<1> QED
  BY <1>8, <1>9, <1>10, <1>11, <1>12, <1>13, <1>14 DEF Notice!IInv

\* A subagent's dispatch ends.
LEMMA ReportStep ==
    ASSUME Notice!IInv, NEW e \in Notice!Dispatches, Notice!Report(e)
    PROVE  Notice!IInv'
<1>1. /\ e \in live /\ live' = live \ {e}
      /\ UNCHANGED <<at, again, answered, run, accepts, pool, closes, questions, resultsTold>>
  BY DEF Notice!Report, Notice!leaderVars
<1>2. PICK n \in names : pool[n] = e /\ names' = names \ {n}
  <2>1. \E m \in names : pool[m] = e
    BY <1>1 DEF Notice!IInv, Notice!Pooled
  <2> QED
    BY <2>1 DEF Notice!Report
<1>3. /\ record[e] \in Notice!Records /\ e # 0 /\ n \in Names
      /\ record[e].state \in {"running", "closed"} /\ ~record[e].result /\ record[e].run = run
  BY <1>1, NoticeTypes DEF Notice!IInv, Notice!RecordAgrees
<1>4. /\ \A m \in names' : m # n /\ m \in names /\ pool[m] \in live /\ pool[m] # e
      /\ \A d \in live' : \E m \in names' : pool[m] = d
  <2>1. \A m \in Names : pool[m] = e => record[e].name = m
    BY <1>3 DEF Notice!IInv, Notice!Pooled
  <2>2. \A m \in names : pool[m] = e => m = n
    BY <1>2, <2>1, NoticeTypes
  <2> QED
    BY <1>1, <1>2, <2>2 DEF Notice!IInv, Notice!Pooled
<1>5. /\ record' \in [Notice!Dispatches -> Notice!Records]
      /\ \A d \in Notice!Dispatches : d # e => record'[d] = record[d]
      /\ \A d \in Notice!Dispatches :
           record'[d].run = record[d].run /\ record'[d].name = record[d].name
      /\ record'[e].delivered = record[e].delivered
      /\ \/ /\ record[e].state = "closed" /\ record' = record /\ queue' = queue
         \/ /\ record[e].state = "running" /\ record'[e].state = "finished" /\ record'[e].result
            /\ queue' = IF accepts THEN queue \cup {[result |-> e]} ELSE queue
  <2>1. CASE record[e].state = "closed"
    BY <2>1, NoticeTypes DEF Notice!Report
  <2>2. CASE record[e].state = "running"
    <3>1. PICK r : r = [record[e] EXCEPT !.state = "finished", !.result = TRUE]
      OBVIOUS
    <3>2. /\ r \in Notice!Records /\ r.state = "finished" /\ r.result /\ r.name = record[e].name
          /\ r.run = record[e].run /\ r.delivered = record[e].delivered
      BY <1>3, <3>1 DEF Notice!Records
    <3>3. /\ record' = [record EXCEPT ![e] = r]
          /\ queue' = IF accepts THEN queue \cup {[result |-> e]} ELSE queue
      BY <2>2, <3>1 DEF Notice!Report, Notice!Enqueue
    <3>4. record' \in [Notice!Dispatches -> Notice!Records] /\ record'[e] = r
          /\ \A d \in Notice!Dispatches : d # e => record'[d] = record[d]
      BY <3>2, <3>3, NoticeTypes
    <3> QED
      BY <2>2, <3>2, <3>3, <3>4
  <2> QED
    BY <1>3, <2>1, <2>2
<1>6. \A d \in Notice!Dispatches : Notice!RecordAgrees(d)
  BY DEF Notice!IInv
<1>7. ASSUME NEW d \in Notice!Dispatches
      PROVE  Notice!RecordAgrees(d)'
  <2>1. CASE d = e
    BY <1>1, <1>3, <1>5, <1>6, <2>1 DEF Notice!RecordAgrees
  <2>2. CASE d # e
    BY <1>1, <1>5, <1>6, <2>2 DEF Notice!RecordAgrees
  <2> QED
    BY <2>1, <2>2
<1>8. Notice!Typing' /\ Notice!Places'
  BY <1>1, <1>2, <1>5, NoticeTypes DEF Notice!IInv, Notice!Typing, Notice!Places
<1>9. Notice!Pooled'
  <2>1. \A m \in Names : pool[m] # 0 => pool[m] \in Notice!Dispatches
    BY NoticeTypes
  <2>2. \A d \in Notice!Dispatches : record'[d].state = "none" => record[d].state = "none"
    BY <1>5
  <2>3. Notice!Asked' = Notice!Asked /\ \A q \in Notice!Asked : questions[q].by \in Notice!Dispatches
    BY <1>1, NoticeTypes DEF Notice!Asked
  <2> QED
    BY <1>1, <1>4, <1>5, <2>1, <2>2, <2>3 DEF Notice!IInv, Notice!Pooled
<1>10. Notice!Ends'
  BY <1>1, <1>5, NoticeTypes DEF Notice!IInv, Notice!Ends
\* What could be told still can, and now this result, too.
<1>11. \A d \in Notice!Dispatches :
         /\ Notice!Collectable(d) => Notice!Collectable(d)'
         /\ d # e => (Notice!Collectable(d)' <=> Notice!Collectable(d))
         /\ Notice!Collectable(e)' => [result |-> e] \in queue' \/ ~accepts
  BY <1>3, <1>5 DEF Notice!Collectable
<1>12. /\ Notice!Asked' = Notice!Asked
       /\ \A q \in Notice!Questions : questions[q].by \in Notice!Dispatches => (Notice!Open(q)' <=> Notice!Open(q))
       /\ \A q \in Notice!Asked : questions[q].by \in Notice!Dispatches /\ q \in Notice!Questions
  <2>1. \A d \in Notice!Dispatches : record'[d].state = "closed" <=> record[d].state = "closed"
    BY <1>5
  <2> QED
    BY <1>1, <2>1, NoticeTypes DEF Notice!Asked, Notice!Open
<1>13. /\ queue \subseteq queue'
       /\ \A x \in queue' : x \in queue \/ (x = [result |-> e] /\ Notice!Collectable(e)')
  <2>1. record[e].state = "running" => ~record[e].delivered
    BY <1>6 DEF Notice!RecordAgrees
  <2>2. record[e].state = "running" => Notice!Collectable(e)'
    BY <1>5, <2>1 DEF Notice!Collectable
  <2> QED
    BY <1>3, <1>5, <2>2
<1>14. Notice!Queued'
  <2>1. \A d \in Notice!Dispatches : [result |-> d] \in queue' => [result |-> d] \in queue \/ d = e
    BY <1>5
  <2> QED
    BY <1>1, <1>3, <1>5, <1>11, <1>12, <1>13, <2>1 DEF Notice!IInv, Notice!Queued
<1>15. Notice!Telling'
  <2> SUFFICES ASSUME at \in {"asking", "waiting", "deciding"} \/ (at = "boundary" /\ again),
                      NEW x \in queue
               PROVE  \/ x = [text |-> TRUE]
                      \/ \E d \in Notice!Dispatches : x = [result |-> d] /\ Notice!Collectable(d)'
                      \/ \E q \in Notice!Asked : x = [question |-> q] /\ Notice!Open(q)'
    <3>1. \A y \in queue' \ queue : y = [result |-> e] /\ Notice!Collectable(e)'
      BY <1>13
    <3> QED
      BY <1>1, <1>12, <3>1 DEF Notice!Telling
  <2>1. \/ x = [text |-> TRUE]
        \/ \E d \in Notice!Dispatches : x = [result |-> d] /\ Notice!Collectable(d)
        \/ \E q \in Notice!Asked : x = [question |-> q] /\ Notice!Open(q)
    BY DEF Notice!IInv, Notice!Telling
  <2>2. CASE x = [text |-> TRUE]
    BY <2>2
  <2>3. ASSUME NEW d \in Notice!Dispatches, x = [result |-> d], Notice!Collectable(d)
        PROVE  x = [result |-> d] /\ Notice!Collectable(d)'
    BY <1>11, <2>3
  <2>4. ASSUME NEW q \in Notice!Asked, x = [question |-> q], Notice!Open(q)
        PROVE  x = [question |-> q] /\ Notice!Open(q)'
    BY <1>12, <2>4 DEF Notice!Open
  <2> QED
    BY <2>1, <2>2, <2>3, <2>4
<1>16. Notice!Awaited' /\ Notice!GoesHaveNews'
  <2>1. Notice!Undelivered => Notice!Undelivered'
    BY <1>1, <1>11, NoticeTypes DEF Notice!Undelivered
  <2> QED
    BY <1>1, <1>2, <1>13, <2>1 DEF Notice!IInv, Notice!Awaited, Notice!GoesHaveNews
<1>17. Notice!WorkIsAwaited'
  <2>1. Notice!Leftover => Notice!Leftover'
    BY <1>1, <1>5, <1>11, NoticeTypes DEF Notice!Leftover
  <2> QED
    BY <1>1, <2>1 DEF Notice!IInv, Notice!WorkIsAwaited
<1> QED
  BY <1>7, <1>8, <1>9, <1>10, <1>14, <1>15, <1>16, <1>17 DEF Notice!IInv

\* A subagent asks its leader.
LEMMA QuestionStep ==
    ASSUME Notice!IInv, NEW d \in Notice!Dispatches, Notice!Ask(d)
    PROVE  Notice!IInv'
<1>1. /\ d \in live /\ record[d].state # "closed"
      /\ UNCHANGED <<at, again, answered, run, accepts, names, pool, record, live, closes,
                     resultsTold>>
  BY DEF Notice!Ask, Notice!leaderVars
<1>2. PICK p \in Notice!Questions \ Notice!Asked :
        /\ questions' = [questions EXCEPT ![p].by = d]
        /\ queue' = IF accepts THEN queue \cup {[question |-> p]} ELSE queue
  BY DEF Notice!Ask, Notice!Enqueue
<1>3. /\ questions' \in [Notice!Questions -> [by : Notice!Dispatches \cup {0},
                                              delivered : BOOLEAN, waited : BOOLEAN]]
      /\ questions'[p].by = d /\ \A q \in Notice!Questions : q # p => questions'[q] = questions[q]
  <2>1. PICK r : r = [questions[p] EXCEPT !.by = d]
    OBVIOUS
  <2>2. /\ r \in [by : Notice!Dispatches \cup {0}, delivered : BOOLEAN, waited : BOOLEAN]
        /\ r.by = d
    BY <2>1, NoticeTypes
  <2>3. questions' = [questions EXCEPT ![p] = r]
    BY <1>2, <2>1
  <2> QED
    BY <2>2, <2>3, NoticeTypes
<1>4. Notice!Asked' = Notice!Asked \cup {p} /\ p \notin Notice!Asked
  <2>1. d # 0 /\ p \in Notice!Questions
    BY NoticeTypes
  <2>2. \A q \in Notice!Questions : q \in Notice!Asked' <=> q \in Notice!Asked \/ q = p
    BY <1>2, <1>3, <2>1 DEF Notice!Asked
  <2> QED
    BY <1>2, <2>1, <2>2 DEF Notice!Asked
<1>5. /\ \A e \in Notice!Dispatches : Notice!RecordAgrees(e)
      /\ record[d].state = "running" /\ record[d].run = run
  BY <1>1 DEF Notice!IInv, Notice!RecordAgrees
<1>6. \A e \in Notice!Dispatches : Notice!RecordAgrees(e)'
  BY <1>1, <1>5 DEF Notice!RecordAgrees
<1>7. Notice!Typing' /\ Notice!Places' /\ Notice!Ends'
  BY <1>1, <1>3, NoticeTypes DEF Notice!IInv, Notice!Typing, Notice!Places, Notice!Ends
<1>8. \A q \in Notice!Asked : questions'[q] = questions[q] /\ q \in Notice!Questions
  BY <1>3, <1>4 DEF Notice!Asked
<1>9. Notice!Pooled'
  BY <1>1, <1>3, <1>4, <1>5, <1>8 DEF Notice!IInv, Notice!Pooled
<1>10. /\ \A e : Notice!Collectable(e)' <=> Notice!Collectable(e)
       /\ \A q \in Notice!Asked : Notice!Open(q)' <=> Notice!Open(q)
  BY <1>1, <1>8 DEF Notice!Collectable, Notice!Open
<1>11. queue \subseteq queue' /\ \A x \in queue' : x \in queue \/ x = [question |-> p]
  BY <1>2
<1>12. Notice!Queued'
  <2>1. \A e : [result |-> e] \in queue' => [result |-> e] \in queue
    BY <1>2
  <2>2. accepts => [question |-> p] \in queue'
    BY <1>2
  <2>3. ASSUME NEW q \in Notice!Questions \ Notice!Asked'
        PROVE  ~questions'[q].delivered /\ [question |-> q] \notin queue'
    <3>1. q \in Notice!Questions \ Notice!Asked /\ q # p
      BY <1>4
    <3>2. ~questions[q].delivered /\ [question |-> q] \notin queue
      BY <3>1 DEF Notice!IInv, Notice!Queued
    <3>3. [question |-> q] # [question |-> p]
      BY <3>1
    <3> QED
      BY <1>3, <1>11, <3>1, <3>2, <3>3
  <2> QED
    BY <1>1, <1>4, <1>8, <1>10, <1>11, <2>1, <2>2, <2>3 DEF Notice!IInv, Notice!Queued
<1>13. Notice!Telling'
  <2> SUFFICES ASSUME at \in {"asking", "waiting", "deciding"} \/ (at = "boundary" /\ again),
                      NEW x \in queue'
               PROVE  \/ x = [text |-> TRUE]
                      \/ \E e \in Notice!Dispatches : x = [result |-> e] /\ Notice!Collectable(e)'
                      \/ \E q \in Notice!Asked' : x = [question |-> q] /\ Notice!Open(q)'
    BY <1>1 DEF Notice!Telling
  <2>1. CASE x \in queue
    BY <1>4, <1>10, <2>1 DEF Notice!IInv, Notice!Telling
  <2>2. CASE x = [question |-> p]
    <3>3. questions'[p].delivered = questions[p].delivered /\ ~questions[p].delivered
      BY <1>2, NoticeTypes DEF Notice!IInv, Notice!Queued
    <3>4. Notice!Open(p)'
      BY <1>1, <1>3, <3>3 DEF Notice!Open
    <3> QED
      BY <1>4, <2>2, <3>4
  <2> QED
    BY <1>11, <2>1, <2>2
<1>14. Notice!Awaited' /\ Notice!GoesHaveNews'
  <2>1. Notice!Undelivered' <=> Notice!Undelivered
    BY <1>1, <1>10 DEF Notice!Undelivered
  <2> QED
    BY <1>1, <1>11, <2>1 DEF Notice!IInv, Notice!Awaited, Notice!GoesHaveNews
<1>15. Notice!WorkIsAwaited'
  <2>1. Notice!Leftover' <=> Notice!Leftover
    BY <1>1, <1>10 DEF Notice!Leftover
  <2> QED
    BY <1>1, <2>1 DEF Notice!IInv, Notice!WorkIsAwaited
<1> QED
  BY <1>6, <1>7, <1>9, <1>12, <1>13, <1>14, <1>15 DEF Notice!IInv

LEMMA NoticeStep ==
    ASSUME Notice!IInv, [Notice!Next]_noticeVars
    PROVE  Notice!IInv'
<1>1. CASE UNCHANGED noticeVars
  <2> USE <1>1 DEF noticeVars
  <2>1. Notice!Typing' /\ Notice!Places' /\ Notice!Ends'
    BY DEF Notice!IInv, Notice!Typing, Notice!Places, Notice!Ends
  <2>2. Notice!Queued' /\ Notice!Telling'
    BY NothingTold DEF Notice!IInv, Notice!Queued, Notice!Telling
  <2>3. Notice!Awaited' /\ Notice!GoesHaveNews' /\ Notice!WorkIsAwaited'
    BY NothingTold DEF Notice!IInv, Notice!Awaited, Notice!GoesHaveNews, Notice!WorkIsAwaited
  <2> QED
    BY <2>1, <2>2, <2>3, NothingTold DEF Notice!IInv
<1>2. CASE \/ Notice!Chat \/ Notice!TakeRedirects \/ Notice!Responds \/ Notice!EndTools
           \/ Notice!Interrupted \/ Notice!WaitedFor \/ Notice!Decides \/ Notice!CloseRedirects
           \/ Notice!CancelBackground \/ Notice!CloseNext \/ Notice!Joined \/ Notice!EndRun
           \/ Notice!Redirect
  BY <1>2, ChatStep, RedirectsAreRead, LeaderSteps, CancelSteps, ClosingSteps, RedirectStep
<1>3. ASSUME NEW n \in Names,
             \/ Notice!Dispatch(n) \/ Notice!DispatchForeground(n) \/ Notice!CloseSubagent(n)
             \/ Notice!ForgetSubagent(n)
      PROVE  Notice!IInv'
  BY <1>3, DispatchStep, ForgottenStep, ClosingSteps
<1>4. ASSUME NEW S \in SUBSET Names, Notice!WaitSubagents(S)
      PROVE  Notice!IInv'
  BY <1>4, WaitSubagentsStep
<1>5. ASSUME NEW d \in Notice!Dispatches, Notice!Report(d) \/ Notice!Ask(d)
      PROVE  Notice!IInv'
  BY <1>5, ReportStep, QuestionStep
<1> QED
  BY <1>1, <1>2, <1>3, <1>4, <1>5 DEF Notice!Next

LEMMA NoticeInvariant == Spec => [](part = "notices" => Notice!IInv)
<1>1. Init => (part = "notices" => Notice!IInv)
  BY NoticeInit
<1>2. (part = "notices" => Notice!IInv) /\ [Next]_vars => (part = "notices" => Notice!IInv)'
  BY OnePartMoves, NoticeStep
<1> QED
  BY <1>1, <1>2, PTL DEF Spec

\* A leader is told every result and question of its subagents once, however
\* notices, wait_subagents, closings and new dispatches overtake each other; it
\* answers for good only when nobody works for it any more, and goes on after an
\* answer only with news (leader.py, agent_run.py, agent_loop.py).
THEOREM NoticesAllArrive == Spec => []NoticesArrive
<1>1. Notice!IInv => Notice!ToldOnce
  BY DEF Notice!IInv, Notice!RecordAgrees, Notice!ToldOnce
<1>2. Notice!IInv => Notice!GoesOnWithNews
  <2> SUFFICES ASSUME Notice!IInv, at = "boundary", again
               PROVE  Notice!Says(queue)
    BY DEF Notice!GoesOnWithNews
  <2>1. PICK x \in queue : \/ x = [text |-> TRUE]
                           \/ \E d \in Notice!Dispatches : x = [result |-> d] /\ Notice!Collectable(d)
                           \/ \E q \in Notice!Asked : x = [question |-> q] /\ Notice!Open(q)
    BY DEF Notice!IInv, Notice!Telling, Notice!GoesHaveNews
  <2>2. \A q \in Notice!Asked : q \in Notice!Questions
    BY DEF Notice!Asked
  <2> QED
    BY <2>1, <2>2 DEF Notice!Says, Notice!Results, Notice!Told
<1>3. (part = "notices" => Notice!IInv) => NoticesArrive
  BY <1>1, <1>2 DEF Notice!IInv, NoticesArrive, Notice!NoticesArrive
<1> QED
  BY <1>3, NoticeInvariant, PTL
=============================================================================
