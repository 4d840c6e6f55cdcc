----------------------------- MODULE Terminals -----------------------------
(***************************************************************************)
(* The person's shells: pseudo-terminals of the host, each read by a thread *)
(* of its own that publishes what it has read with its place in the output *)
(* (terminal.py), and the window's panel, which attaches to them from a    *)
(* snapshot and from what is published meanwhile (app.js).                 *)
(*                                                                         *)
(* Output is counted; a view shows the numbers it was given.               *)
(***************************************************************************)
EXTENDS Naturals, Sequences, FiniteSets, FiniteSetsExt, SequencesExt

CONSTANTS Terminals,     \* every terminal ever started
          Limit,         \* terminals open at a time
          MaxOutput,
          MaxPending,    \* output that waits to be published
          MaxKept,       \* output kept for a snapshot
          MaxLosses, None

VARIABLES shell,         \* terminal -> its process, its output and what is told
          listed,        \* the host's table
          stopping,      \* terminals told to stop
          host,          \* whether it is up or closed
          frames,        \* published, not yet read by the window
          view,          \* terminal -> what the panel has, or None
          early,         \* frames kept while the panel loads
          loading,       \* the panel's request: for a terminal, for the list
          closes,        \* terminal -> the panel's request to stop it
          losses,
          holes,         \* terminals some of whose output was not published or lost
          ghosts         \* terminals attached to after they were stopped

shellVars == <<shell, listed, stopping, host>>
panelVars == <<view, early, loading, closes>>
terminalVars == <<shellVars, frames, panelVars, losses, holes, ghosts>>

NoShell == [state |-> "none", end |-> 0, pending |-> 0, told |-> FALSE]
NoRequest == [kind |-> "none", stage |-> "none", of |-> <<>>]
Running == {t \in Terminals : shell[t].state = "running"}
\* Those whose reader has not seen the end.
Unread == {t \in Terminals : shell[t].state \in {"running", "killed"}}

Init ==
  /\ shell = [t \in Terminals |-> NoShell]
  /\ listed = {} /\ stopping = {} /\ host = "up"
  /\ frames = <<>>
  /\ view = [t \in Terminals |-> None] /\ early = <<>> /\ loading = NoRequest /\ closes = [t \in Terminals |-> "none"]
  /\ losses = 0 /\ holes = {} /\ ghosts = {}

-----------------------------------------------------------------------------
\* A terminal.

\* _append: the oldest of what waits is dropped.
Prints(t) ==
  /\ t \in Unread /\ shell[t].end < MaxOutput
  /\ shell' = [shell EXCEPT ![t].end = @ + 1, ![t].pending = Min({@ + 1, MaxPending})]
  /\ holes' = IF shell[t].pending = MaxPending THEN holes \cup {t} ELSE holes
  /\ UNCHANGED <<listed, stopping, host, frames, panelVars, losses, ghosts>>

\* Mutant: what is published is placed at the end of the output.
FrameAtEnd(t, exited) == [of |-> t, offset |-> shell[t].end, end |-> shell[t].end + shell[t].pending, exited |-> exited]

Frame(t, exited) == [of |-> t, offset |-> shell[t].end - shell[t].pending, end |-> shell[t].end, exited |-> exited]

Flushes(t) ==
  /\ t \in Unread /\ shell[t].pending > 0
  /\ frames' = Append(frames, Frame(t, FALSE))
  /\ shell' = [shell EXCEPT ![t].pending = 0]
  /\ UNCHANGED <<listed, stopping, host, panelVars, losses, holes, ghosts>>

\* The process has ended, by itself or killed; the reader then says so with
\* what is left.
Exits(t) ==
  /\ t \in Unread
  /\ shell' = [shell EXCEPT ![t].state = "exited"]
  /\ UNCHANGED <<listed, stopping, host, frames, panelVars, losses, holes, ghosts>>

SaysExit(t) ==
  /\ shell[t].state = "exited" /\ ~shell[t].told
  /\ frames' = Append(frames, Frame(t, TRUE))
  /\ shell' = [shell EXCEPT ![t].pending = 0, ![t].told = TRUE]
  /\ UNCHANGED <<listed, stopping, host, panelVars, losses, holes, ghosts>>

-----------------------------------------------------------------------------
\* The host.

\* TerminalSessions.start forgets those that have exited.
Start ==
  /\ loading.kind = "start" /\ loading.stage = "asked"
  /\ IF host # "up" \/ Cardinality(listed \cap Unread) >= Limit
     THEN loading' = [loading EXCEPT !.stage = "refused"] /\ UNCHANGED <<shell, listed>>
     ELSE \E t \in Terminals :
            /\ shell[t].state = "none"
            /\ shell' = [shell EXCEPT ![t].state = "running"]
            /\ listed' = (listed \cap Unread) \cup {t}
            /\ loading' = [loading EXCEPT !.stage = "replied", !.of = <<[t |-> t, end |-> 0, from |-> 0]>>]
  /\ UNCHANGED <<stopping, host, frames, view, early, closes, losses, holes, ghosts>>

\* list: a snapshot of each, of which the panel takes those at work.
List ==
  /\ loading.kind = "list" /\ loading.stage = "asked"
  /\ loading' = [loading EXCEPT !.stage = "replied",
                   !.of = SetToSeq({[t |-> t, end |-> shell[t].end,
                                     from |-> IF shell[t].end > MaxKept THEN shell[t].end - MaxKept ELSE 0]
                                    : t \in listed \cap Unread})]
  /\ UNCHANGED <<shellVars, frames, view, early, closes, losses, holes, ghosts>>

\* stop: the process groups are killed, the reader is waited for, but not for
\* long, and the table forgets it.
Killed(ts) == [t \in Terminals |-> IF t \in ts \cap Running THEN [shell[t] EXCEPT !.state = "killed"] ELSE shell[t]]

Stops(t) ==
  /\ closes[t] = "asked" /\ t \in listed
  /\ stopping' = stopping \cup {t} /\ shell' = Killed({t})
  /\ closes' = [closes EXCEPT ![t] = "waits"]
  /\ UNCHANGED <<listed, host, frames, view, early, loading, losses, holes, ghosts>>

Stopped(t) ==
  /\ closes[t] = "waits"
  /\ listed' = listed \ {t} /\ closes' = [closes EXCEPT ![t] = "none"]
  /\ view' = [view EXCEPT ![t] = None]
  /\ UNCHANGED <<shell, stopping, host, frames, early, loading, losses, holes, ghosts>>

\* One the table has forgotten stays in the panel, with an error.
StopFails(t) ==
  /\ closes[t] = "asked" /\ t \notin listed
  /\ closes' = [closes EXCEPT ![t] = "none"]
  /\ UNCHANGED <<shellVars, frames, view, early, loading, losses, holes, ghosts>>

\* close_host: no more is started, and every one is stopped.
CloseHost ==
  /\ host = "up" /\ host' = "closed"
  /\ shell' = Killed(listed) /\ stopping' = stopping \cup listed /\ listed' = {}
  /\ UNCHANGED <<frames, panelVars, losses, holes, ghosts>>

-----------------------------------------------------------------------------
\* The panel.

Views == {t \in Terminals : view[t] # None}

Asks(kind) ==
  /\ loading.kind = "none"
  /\ kind = "start" => Cardinality(Views) < Limit
  /\ loading' = [NoRequest EXCEPT !.kind = kind, !.stage = "asked"]
  /\ UNCHANGED <<shellVars, frames, view, early, closes, losses, holes, ghosts>>

\* Mutant: what is shown already is shown again.
UnseenAgain(end, f) == [i \in 1..f.end - f.offset |-> f.offset + i]

\* unseenTerminalOutput: the part beyond what is shown.
Unseen(end, f) ==
  LET from == Max({end, f.offset}) IN
  IF from >= f.end THEN <<>> ELSE [i \in 1..f.end - from |-> from + i]

Shown(v, f) ==
  [end |-> Max({v.end, f.end}), text |-> v.text \o Unseen(v.end, f), exited |-> v.exited + IF f.exited THEN 1 ELSE 0]

\* attachTerminal, for each that has no view yet; what came meanwhile follows
\* the snapshot.
Attached(saved) ==
  FoldLeft(LAMBDA v, f : IF f.of = saved.t THEN Shown(v, f) ELSE v,
           [end |-> saved.end, text |-> [i \in 1..saved.end - saved.from |-> saved.from + i], exited |-> 0],
           early)

\* No more are attached than the panel holds.
Loads ==
  /\ loading.stage \in {"replied", "refused"}
  /\ LET new == {x \in Range(loading.of) : view[x.t] = None} IN
     \E s \in kSubset(Min({Cardinality(new), Limit - Cardinality(Views)}), new) :
       /\ view' = [t \in Terminals |-> IF \E x \in s : x.t = t THEN Attached(CHOOSE x \in s : x.t = t) ELSE view[t]]
       /\ ghosts' = ghosts \cup {x.t : x \in {y \in s : y.t \in stopping}}
  /\ early' = <<>> /\ loading' = NoRequest
  /\ UNCHANGED <<shellVars, frames, closes, losses, holes>>

\* terminalOutput.
Delivers ==
  /\ frames # <<>> /\ frames' = Tail(frames)
  /\ LET f == Head(frames) IN
     /\ view' = IF view[f.of] = None THEN view ELSE [view EXCEPT ![f.of] = Shown(@, f)]
     /\ early' = IF view[f.of] = None /\ loading.kind # "none" THEN Append(early, f) ELSE early
  /\ UNCHANGED <<shellVars, loading, closes, losses, holes, ghosts>>

\* A slow window loses the oldest frame.
Loses ==
  /\ frames # <<>> /\ losses < MaxLosses
  /\ losses' = losses + 1 /\ frames' = Tail(frames) /\ holes' = holes \cup {Head(frames).of}
  /\ UNCHANGED <<shellVars, panelVars, ghosts>>

\* closeTerminal asks; the view goes with the answer, in Stopped.
Closes(t) ==
  /\ view[t] # None /\ closes[t] = "none"
  /\ closes' = [closes EXCEPT ![t] = "asked"]
  /\ UNCHANGED <<shellVars, frames, view, early, loading, losses, holes, ghosts>>

Next ==
  \/ Start \/ List \/ CloseHost \/ Loads \/ Delivers \/ Loses
  \/ \E kind \in {"start", "list"} : Asks(kind)
  \/ \E t \in Terminals : Prints(t) \/ Flushes(t) \/ Exits(t) \/ SaysExit(t) \/ Stops(t) \/ Stopped(t) \/ StopFails(t) \/ Closes(t)

Spec == Init /\ [][Next]_terminalVars

-----------------------------------------------------------------------------
TypeOK ==
  /\ listed \subseteq Terminals /\ host \in {"up", "closed"}
  /\ \A t \in Terminals : shell[t].end \in 0..MaxOutput /\ shell[t].pending \in 0..MaxPending

\* A view shows no output twice and none before what came before it, and all
\* of it unless some was dropped on the way.
OutputInOrder ==
  \A t \in Views :
    LET text == view[t].text IN
    \A i \in 1..Len(text) - 1 :
      text[i] < text[i + 1] /\ (t \in holes \cup ghosts \/ text[i + 1] = text[i] + 1)

\* When nothing is on its way, the panel has all that was printed and, once,
\* the exit.
AllArrives ==
  \A t \in Views \ (holes \cup ghosts) :
    /\ view[t].exited <= 1
    /\ frames = <<>> /\ shell[t].pending = 0 => view[t].end = shell[t].end
    /\ frames = <<>> /\ shell[t].told => view[t].exited = 1
    /\ view[t].exited = 1 => shell[t].state = "exited" /\ view[t].end = shell[t].end

\* The host runs no more than its limit and none when it has closed.
NoneIsLeft == Cardinality(Running) <= Limit /\ (host = "closed" => Running = {})

TerminalsShow == OutputInOrder /\ AllArrives /\ NoneIsLeft
=============================================================================
