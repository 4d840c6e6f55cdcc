------------------------------ MODULE McpServer ------------------------------
(***************************************************************************)
(* The calls that agents make to the tools of one MCP server over its      *)
(* process's pipes (symphonai_api/mcp.py, McpClient and McpTool), and the  *)
(* pool that starts the server, starts it again when it is gone, and       *)
(* closes it (symphonai_api/mcp_pool.py).                                  *)
(*                                                                         *)
(* A client is one process of the server with its requests; a request      *)
(* holds the client's lock until its answer is read from the frames the    *)
(* reader thread queues, its time is over, or the client fails.  The       *)
(* server answers a request at most once, when it likes and in any order,  *)
(* sends requests and notifications of its own, may send what is no        *)
(* message, and may exit.  Servers behind a URL, with an answer per        *)
(* connection and a sign-in, are not modelled, nor a second server, whose  *)
(* start is a thread of its own.                                           *)
(***************************************************************************)
EXTENDS Naturals, Sequences, FiniteSets

CONSTANTS
    Callers,     \* agents, of one conversation or of several
    MaxClients,  \* bound: processes started
    MaxRequests, \* bound: requests of a client
    MaxFrames    \* bound: frames queued and not read

VARIABLES
    poolOpen,   \* the pool was started and not closed (_started)
    current,    \* the client the pool has, 0 for none (clients)
    starter,    \* who holds the pool's start lock, {} for nobody
    made,       \* how many clients there were
    process,    \* "none", "running", "exited" or "closed" of a client
    ready,      \* the clients whose start succeeded (auth_state, _server_tools)
    lastId,     \* the last request id of a client (_next_id - 1)
    cancelled,  \* requests given up whose answers may come (_cancelled_ids)
    frames,     \* what the reader queued of a client (_frames)
    asked,      \* requests the server has and did not answer
    locked,     \* the caller that holds a client's request lock, {} for none
    call,       \* what a caller does
    strayed     \* clients closed for an answer to no request

mcpVars == <<poolOpen, current, starter, made, process, ready, lastId, cancelled,
             frames, asked, locked, call, strayed>>
clientVars == <<process, ready, lastId, cancelled, frames, asked, locked, strayed>>
poolVars == <<poolOpen, current, starter, made>>

Clients == 1 .. MaxClients
NoCall == [stage |-> "idle", kind |-> "call", client |-> 0, id |-> 0, ok |-> FALSE]

\* The pool was started: the first client runs, with its tools, or failed.
Init ==
    /\ poolOpen = TRUE /\ current = 1 /\ starter = {} /\ made = 1
    /\ \/ ready = {1} /\ process = [g \in Clients |-> IF g = 1 THEN "running" ELSE "none"]
       \/ ready = {} /\ process = [g \in Clients |-> "none"]
    /\ lastId = [g \in Clients |-> 0] /\ cancelled = [g \in Clients |-> {}]
    /\ frames = [g \in Clients |-> <<>>] /\ asked = [g \in Clients |-> {}]
    /\ locked = [g \in Clients |-> {}] /\ strayed = {}
    /\ call = [c \in Callers |-> NoCall]

Serves(g) == g \in ready /\ process[g] = "running"
\* The process ends, and its reader finds the end of its output.
EndOf(g, how) ==
    /\ process' = [process EXCEPT ![g] = IF @ = "none" THEN @ ELSE how]
    /\ frames' = [frames EXCEPT ![g] = IF process[g] = "running"
                                       THEN Append(@, [kind |-> "eof", id |-> 0]) ELSE @]
Goes(c, stage) == call' = [call EXCEPT ![c].stage = stage]
Stays == UNCHANGED <<process, frames>>

\* A tool of the server is called: the pool's start lock is taken.
Ensure(c) ==
    /\ call[c].stage = "idle" /\ starter = {}
    /\ starter' = {c} /\ call' = [call EXCEPT ![c] = [NoCall EXCEPT !.stage = "ensuring"]]
    /\ UNCHANGED <<poolOpen, current, made, clientVars>>

\* The server runs: its tool will be asked, once the call is allowed.  It does
\* not after a start, or the pool is closed: the call fails.
Checked(c) ==
    /\ call[c].stage \in {"ensuring", "started"}
    /\ starter' = {}
    /\ \/ /\ poolOpen /\ Serves(current)
          /\ call' = [call EXCEPT ![c] = [NoCall EXCEPT !.stage = "approving",
                                                        !.client = current]]
       \/ /\ ~poolOpen \/ (call[c].stage = "started" /\ ~Serves(current))
          /\ Goes(c, "done")
    /\ UNCHANGED <<poolOpen, current, made, clientVars>>

\* It does not: a new client starts a process, if it can.
Connect(c) ==
    /\ call[c].stage = "ensuring" /\ poolOpen /\ ~Serves(current)
    /\ made < MaxClients /\ made' = made + 1
    /\ \/ /\ process' = [process EXCEPT ![made'] = "running"]
          /\ call' = [call EXCEPT ![c] = [NoCall EXCEPT !.stage = "asking", !.client = made',
                                                        !.kind = "initialize"]]
       \/ /\ UNCHANGED process
          /\ call' = [call EXCEPT ![c] = [NoCall EXCEPT !.stage = "listed", !.client = made']]
    /\ UNCHANGED <<poolOpen, current, starter, ready, lastId, cancelled, frames, asked,
                   locked, strayed>>

\* The new client, with its tools or closed after a failure, takes the place of
\* the old one, which is closed.
Install(c) ==
    LET g == call[c].client IN
    /\ call[c].stage = "listed"
    /\ EndOf(current, "closed")
    /\ current' = g /\ ready' = IF call[c].ok THEN ready \cup {g} ELSE ready
    /\ Goes(c, "started")
    /\ UNCHANGED <<poolOpen, starter, made, lastId, cancelled, asked, locked, strayed>>

\* The approval of a call takes as long as it takes, or refuses.
Approved(c) ==
    /\ call[c].stage = "approving"
    /\ Goes(c, "asking") \/ Goes(c, "done")
    /\ UNCHANGED <<poolVars, clientVars>>

\* A request is over: the handshake of a start goes on or fails, a call returns.
Ends(c, ok) ==
    LET kind == call[c].kind IN
    call' = [call EXCEPT ![c].ok = ok,
                         ![c].stage = IF kind = "call" THEN "done"
                                      ELSE IF ok /\ kind = "initialize" THEN "asking"
                                      ELSE "listed",
                         ![c].kind = IF ok /\ kind = "initialize" THEN "list" ELSE kind]
\* A failure closes the client, or only a client that is being started.
Fails(c, closes) ==
    LET g == call[c].client IN
    /\ Ends(c, FALSE)
    /\ IF closes \/ call[c].kind # "call" THEN EndOf(g, "closed") ELSE Stays

\* A request gets the client's lock and the next id, and is written if there
\* is a process to read it.
Ask(c) ==
    LET g == call[c].client
        id == lastId[g] + 1 IN
    /\ call[c].stage = "asking" /\ locked[g] = {} /\ id <= MaxRequests
    /\ lastId' = [lastId EXCEPT ![g] = id]
    /\ \/ /\ process[g] = "running" /\ Stays
          /\ call' = [call EXCEPT ![c].stage = "waiting", ![c].id = id]
          /\ asked' = [asked EXCEPT ![g] = @ \cup {id}]
          /\ locked' = [locked EXCEPT ![g] = {c}]
       \/ /\ process[g] # "running"
          /\ \E closes \in BOOLEAN : Fails(c, closes)
          /\ UNCHANGED <<asked, locked>>
    /\ UNCHANGED <<poolVars, ready, cancelled, strayed>>

\* A frame the lock's holder reads: a request of the server is answered and an
\* answer to a request given up is dropped; everything but the answer that is
\* waited for closes the client.
Dropped(c, f) ==
    /\ f.kind = "request" /\ process[call[c].client] = "running"
    /\ UNCHANGED <<cancelled, process, locked, call, strayed>>
Late(c, f) ==
    LET g == call[c].client IN
    /\ f.kind \in {"answer", "error"} /\ f.id \in cancelled[g]
    /\ cancelled' = [cancelled EXCEPT ![g] = @ \ {f.id}]
    /\ UNCHANGED <<process, locked, call, strayed>>
Wanted(c, f) ==
    LET g == call[c].client IN
    /\ f.kind = "answer" /\ f.id \notin cancelled[g] /\ f.id = call[c].id
    /\ Ends(c, TRUE) /\ locked' = [locked EXCEPT ![g] = {}]
    /\ UNCHANGED <<cancelled, process, strayed>>
Bad(c, f) ==
    LET g == call[c].client
        stray == f.kind \in {"answer", "error"} /\ f.id # call[c].id IN
    /\ \/ f.kind \in {"eof", "junk"}
       \/ f.kind = "request" /\ process[g] # "running"
       \/ /\ f.kind \in {"answer", "error"} /\ f.id \notin cancelled[g]
          /\ f.kind = "error" \/ stray
    /\ Ends(c, FALSE) /\ locked' = [locked EXCEPT ![g] = {}]
    /\ process' = [process EXCEPT ![g] = IF f.kind = "request" /\ call[c].kind = "call"
                                         THEN @ ELSE "closed"]
    /\ strayed' = IF stray THEN strayed \cup {g} ELSE strayed
    /\ UNCHANGED cancelled
Read(c) ==
    LET g == call[c].client
        f == Head(frames[g]) IN
    /\ call[c].stage = "waiting" /\ frames[g] # <<>>
    /\ Dropped(c, f) \/ Late(c, f) \/ Wanted(c, f) \/ Bad(c, f)
    /\ frames' = [frames EXCEPT ![g] = IF process[g] = "running" /\ process'[g] = "closed"
                                       THEN Append(Tail(@), [kind |-> "eof", id |-> 0])
                                       ELSE Tail(@)]
    /\ UNCHANGED <<poolVars, ready, lastId, asked>>

\* TimesOut, had it not remembered that the answer may still come.
TimesOutForgetting(c) ==
    LET g == call[c].client IN
    /\ call[c].stage = "waiting"
    /\ locked' = [locked EXCEPT ![g] = {}]
    /\ Fails(c, FALSE)
    /\ UNCHANGED <<poolVars, ready, lastId, cancelled, asked, strayed>>

\* The time of a request is over: its answer will be dropped when it comes, and
\* the server is told if it still reads.
TimesOut(c) ==
    LET g == call[c].client IN
    /\ call[c].stage = "waiting"
    /\ cancelled' = [cancelled EXCEPT ![g] = @ \cup {call[c].id}]
    /\ locked' = [locked EXCEPT ![g] = {}]
    /\ Fails(c, FALSE)
    /\ UNCHANGED <<poolVars, ready, lastId, asked, strayed>>

Return(c) ==
    /\ call[c].stage = "done"
    /\ call' = [call EXCEPT ![c] = NoCall]
    /\ UNCHANGED <<poolVars, clientVars>>

\* The project is closed, or another pool took this one's place.
ClosePool ==
    /\ poolOpen /\ starter = {}
    /\ poolOpen' = FALSE /\ current' = 0
    /\ EndOf(current, "closed")
    /\ UNCHANGED <<starter, made, ready, lastId, cancelled, asked, locked, call, strayed>>

\* The server writes a frame, or exits.
Send(g, f) ==
    /\ process[g] = "running" /\ Len(frames[g]) < MaxFrames
    /\ frames' = [frames EXCEPT ![g] = Append(@, f)]
    /\ asked' = [asked EXCEPT ![g] = @ \ {f.id}]
    /\ UNCHANGED <<poolVars, process, ready, lastId, cancelled, locked, call, strayed>>
Answers(g) == \E id \in asked[g], kind \in {"answer", "error"} : Send(g, [kind |-> kind, id |-> id])
Interrupts(g) == \E kind \in {"request", "junk"} : Send(g, [kind |-> kind, id |-> 0])
Exits(g) ==
    /\ process[g] = "running" /\ EndOf(g, "exited")
    /\ UNCHANGED <<poolVars, ready, lastId, cancelled, asked, locked, call, strayed>>

Next ==
    \/ \E c \in Callers :
          \/ Ensure(c) \/ Checked(c) \/ Connect(c) \/ Install(c) \/ Approved(c)
          \/ Ask(c) \/ Read(c) \/ TimesOut(c) \/ Return(c)
    \/ \E g \in Clients : Answers(g) \/ Interrupts(g) \/ Exits(g)
    \/ ClosePool

Spec == Init /\ [][Next]_mcpVars

-----------------------------------------------------------------------------
\* An answer that comes after its request's time, before or during a later
\* request of whoever, is never taken for a fault of the server: the client is
\* only closed for what it could not expect (McpClient._request).
LateAnswersPass == strayed = {}
\* A process of the server runs only as the pool's client, or as the one that
\* is about to be: starts, failures and the end of the pool leave none behind.
NoProcessIsLeft ==
    \A g \in Clients : process[g] = "running" =>
        g = current \/ \E c \in starter : call[c].client = g
ServerIsKept == LateAnswersPass /\ NoProcessIsLeft

\* What is assumed of the bounds.
McpAssumption == MaxClients \in Nat \ {0} /\ {MaxRequests, MaxFrames} \subseteq Nat

\* The types in full.
Frame == [kind : {"answer", "error", "request", "junk", "eof"}, id : Nat]
Calls == [stage : {"idle", "ensuring", "approving", "asking", "waiting", "listed", "started", "done"},
          kind : {"call", "initialize", "list"}, client : 0 .. MaxClients, id : Nat, ok : BOOLEAN]
Typing ==
    /\ poolOpen \in BOOLEAN /\ current \in 0 .. made /\ made \in Clients
    /\ starter \subseteq Callers /\ {ready, strayed} \subseteq SUBSET Clients
    /\ process \in [Clients -> {"none", "running", "exited", "closed"}]
    /\ lastId \in [Clients -> Nat] /\ {cancelled, asked} \subseteq [Clients -> SUBSET Nat]
    /\ frames \in [Clients -> Seq(Frame)] /\ locked \in [Clients -> SUBSET Callers]
    /\ call \in [Callers -> Calls]

\* The start lock is held by the one who starts the server, and the lock of a
\* client by the one who waits for its answer.
Starting(c) ==
    \/ call[c].stage \in {"ensuring", "listed", "started"}
    \/ call[c].stage \in {"asking", "waiting"} /\ call[c].kind # "call"
Locks ==
    /\ \A c \in Callers : c \in starter <=> Starting(c)
    /\ \A c, d \in starter : c = d
    /\ \A c \in Callers, g \in Clients :
          c \in locked[g] <=> call[c].stage = "waiting" /\ call[c].client = g
    /\ \A g \in Clients : \A c, d \in locked[g] : c = d
    /\ \A c \in Callers :
          /\ call[c].stage \in {"approving", "asking", "waiting", "listed", "started"} =>
                call[c].client \in 1 .. made
          /\ call[c].stage = "ensuring" => call[c].client = 0
          /\ call[c].stage = "approving" => call[c].kind = "call"
          /\ call[c].stage = "started" => call[c].client = current

\* The requests a queue of frames answers.
IsAnswer(f) == f.kind \in {"answer", "error"}
Ids(q) == {q[i].id : i \in {j \in DOMAIN q : IsAnswer(q[j])}}
Single(q) ==
    \A i, j \in DOMAIN q : IsAnswer(q[i]) /\ IsAnswer(q[j]) /\ q[i].id = q[j].id => i = j

\* An answer came or will come once, for a request that is waited for or that
\* was given up; a client whose process is gone may have more, which nobody
\* will read.
Expected(g) ==
    /\ process[g] = "none" => frames[g] = <<>> /\ asked[g] = {}
    /\ g > made => process[g] = "none"
    /\ Single(frames[g]) /\ Ids(frames[g]) \cap asked[g] = {}
    /\ \A id \in Ids(frames[g]) \cup asked[g] : id <= lastId[g]
    /\ process[g] = "running" \/ locked[g] # {} =>
          Ids(frames[g]) \cup asked[g] \subseteq
              cancelled[g] \cup {call[c].id : c \in locked[g]}
IInv == Typing /\ Locks /\ (\A g \in Clients : Expected(g)) /\ ServerIsKept
=============================================================================
