----------------------------- MODULE TurnCards -----------------------------
(***************************************************************************)
(* The card under a prompt that tells which files its turn changed, and the *)
(* line that tells how the turn ended.  The window makes them from the      *)
(* frames of a running turn (transcript.js), and again, when a conversation *)
(* is opened, from the history that the host (run.py) makes of the          *)
(* transcript.  The frames are delivered in order; the window may open the  *)
(* conversation at any time, also while frames are on their way.            *)
(***************************************************************************)
EXTENDS Integers, Sequences, SequencesExt, FiniteSets

CONSTANTS
  Paths,       \* files the turns edit
  MaxPrompts,  \* prompts of the conversation
  MaxSteps,    \* messages of the turns after their prompts
  MaxOpens     \* times the conversation is opened

VARIABLES
  turns,    \* the transcript, turn by turn: its messages, what was recorded, how it ended
  running,  \* a turn is running
  content,  \* what the files hold
  frames,   \* events on their way to the window
  undone,   \* keys of checkpoints that were reverted
  window,   \* what the window shows
  doubled,  \* keys of prompts that a window may have been told of twice
  opens     \* how often the conversation was opened

cardVars == <<turns, running, content, frames, undone, window, doubled, opens>>

Outcomes == {"finished", "cancelled", "refused"}
Trees == {"shared", "isolated"}

\* A turn's key is its number.  `before` are the checkpoint's backups, of the
\* files in DOMAIN before.
NewTurn == [steps |-> <<>>, before |-> <<>>, recorded |-> FALSE, rows |-> {}, outcome |-> "none"]
Key == Len(turns)

NoPrompt == [key |-> 0, edits |-> {}, open |-> FALSE]
Prompt(key, edits) == [key |-> key, edits |-> edits, open |-> TRUE]
Empty == [cards |-> <<>>, times |-> <<>>, current |-> NoPrompt]

-----------------------------------------------------------------------------
\* What a checkpoint says its turn changed: every file it backed up that does
\* not hold again what it held.
CheckpointTotals(ts, key, held) ==
  {f \in DOMAIN ts[key].before :
     LET later == {k \in key + 1 .. Len(ts) : f \in DOMAIN ts[k].before}
         after == IF later = {} THEN held[f]
                  ELSE ts[CHOOSE k \in later : \A l \in later : k <= l].before[f]
     IN  after # ts[key].before[f]}

\* What the tool results of the turn's root and shared subagents say, if no
\* totals are in the transcript.
EditsOf(turn) == UNION {s.edits : s \in ToSet(turn.steps)}
ReplayEdits(turn) ==
  IF turn.recorded THEN turn.rows
  ELSE {x.path : x \in {y \in EditsOf(turn) : y.by # "isolated"}}

\* The message that carries the end of its turn: the last of the assistant's,
\* or the prompt.
LastSaid(turn) ==
  LET said == {i \in DOMAIN turn.steps : turn.steps[i].kind \in {"call", "say"}}
  IN  IF said = {} THEN 0 ELSE CHOOSE i \in said : \A j \in said : j <= i
TurnEnd(turn, i) == IF i = LastSaid(turn) THEN turn.outcome ELSE "none"
SavedOutcome(outcome) == IF outcome = "refused" THEN "finished" ELSE outcome

-----------------------------------------------------------------------------
\* The window.  A card is shown if the turn changed anything, and only the
\* newest card offers to undo.
appendEditCard(w, prompt, canUndo, isUndone) ==
  IF prompt.edits = {} THEN w
  ELSE [w EXCEPT !.cards =
          Append([i \in DOMAIN @ |-> [@[i] EXCEPT !.canUndo = FALSE]],
                 [key |-> prompt.key, files |-> prompt.edits, undone |-> isUndone,
                  canUndo |-> canUndo /\ ~isUndone])]
appendTurnTime(w, prompt, outcome) ==
  IF outcome = "none" THEN w
  ELSE [w EXCEPT !.times = Append(@, [key |-> prompt.key, outcome |-> outcome])]

\* Events of a turn.
PromptSubmitted(w, f) == [w EXCEPT !.current = Prompt(f.key, {})]
ToolCallFinished(w, f) ==
  IF w.current.open THEN [w EXCEPT !.current.edits = @ \cup {f.path}] ELSE w
TurnTotals(w, f) ==
  IF w.current.open /\ w.current.key = f.key THEN [w EXCEPT !.current.edits = f.rows] ELSE w
RunEnded(w, f) ==
  IF ~w.current.open THEN w
  ELSE [appendTurnTime(appendEditCard(w, w.current, w.current.key # 0, FALSE),
                       w.current, f.outcome) EXCEPT !.current = NoPrompt]
applyEvent(w, f) ==
  CASE f.type = "PromptSubmitted" -> PromptSubmitted(w, f)
    [] f.type = "ToolCallFinished" -> ToolCallFinished(w, f)
    [] f.type = "HistoryMessage" -> TurnTotals(w, f)
    [] OTHER -> RunEnded(w, f)

\* Messages of the history.  A person's message without a key, while a prompt
\* with one is open, steers that prompt's turn.
Closes(w, prompt, ends) ==
  [appendTurnTime(appendEditCard(w, prompt, FALSE, prompt.key \in undone), prompt, ends) EXCEPT
     !.current = IF w.current = prompt THEN NoPrompt ELSE @]
\* Mutant: every message of a person begins a turn of its own.
HistoryUserAlone(w, key, edits, ends) ==
  LET opened == [w EXCEPT !.current = Prompt(key, edits)]
  IN  IF ends = "none" THEN opened ELSE Closes(opened, Prompt(key, edits), ends)
HistoryUser(w, key, edits, ends) ==
  LET steering == key = 0 /\ w.current.open /\ w.current.key # 0
      opened == IF steering THEN w ELSE [w EXCEPT !.current = Prompt(key, edits)]
  IN  IF ends = "none" THEN opened ELSE Closes(opened, Prompt(key, edits), ends)
HistoryAssistant(w, calls, ends) ==
  IF ~w.current.open \/ (calls /\ ends = "none") THEN w
  ELSE Closes(w, w.current, ends)

\* The frames of the history, one for a message; a notice is only shown.
HistoryStep(turn, w, i) ==
  LET step == turn.steps[i] IN
  CASE step.kind = "steer" -> HistoryUser(w, 0, {}, "none")
    [] step.kind \in {"call", "say"} ->
         HistoryAssistant(w, step.kind = "call", SavedOutcome(TurnEnd(turn, i)))
    [] OTHER -> w
Replay(ts) ==
  FoldLeft(LAMBDA w, key :
             FoldLeft(LAMBDA v, i : HistoryStep(ts[key], v, i),
                      HistoryUser(w, key, ReplayEdits(ts[key]), SavedOutcome(TurnEnd(ts[key], 0))),
                      [i \in DOMAIN ts[key].steps |-> i]),
           Empty, [k \in DOMAIN ts |-> k])

-----------------------------------------------------------------------------
Publish(fs) == frames' = frames \o fs
Add(step) == turns' = [turns EXCEPT ![Key].steps = Append(@, step)]
Step(kind, edits) == [kind |-> kind, edits |-> edits]
MayStep == running /\ Len(FlattenSeq([k \in DOMAIN turns |-> turns[k].steps])) < MaxSteps

Init ==
  /\ turns = <<>> /\ running = FALSE /\ content = [f \in Paths |-> 0] /\ frames = <<>>
  /\ undone = {} /\ window = Empty /\ doubled = {} /\ opens = 0

\* A prompt begins a checkpoint of its own.
Submit ==
  /\ ~running /\ Len(turns) < MaxPrompts
  /\ turns' = Append(turns, NewTurn) /\ running' = TRUE
  /\ Publish(<<[type |-> "PromptSubmitted", key |-> Len(turns) + 1]>>)
  /\ UNCHANGED <<content, undone, window, doubled, opens>>

\* A call edits a file: of the root or of a subagent in its tree, or of one in
\* a worktree of its own, whose edits are not of this tree.
Edits ==
  /\ MayStep
  /\ \E f \in Paths, by \in Trees :
       /\ turns' = [turns EXCEPT
            ![Key].steps = Append(@, Step("call", {[by |-> by, path |-> f]})),
            ![Key].before = IF by = "isolated" \/ f \in DOMAIN @ THEN @
                            ELSE [g \in DOMAIN @ \cup {f} |-> IF g = f THEN content[f] ELSE @[g]]]
       /\ content' = IF by = "isolated" THEN content ELSE [content EXCEPT ![f] = 1 - @]
       /\ Publish(<<[type |-> "ToolCallFinished", path |-> f]>>)
  /\ UNCHANGED <<running, undone, window, doubled, opens>>

\* The person steers the turn, or the assistant says something that a steer or
\* a notice keeps from being the last word.
Steer ==
  /\ MayStep /\ Add(Step("steer", {}))
  /\ UNCHANGED <<running, content, frames, undone, window, doubled, opens>>
SaysMore ==
  /\ MayStep
  /\ \E kind \in {"steer", "notice"} :
       turns' = [turns EXCEPT ![Key].steps = @ \o <<Step("say", {}), Step(kind, {})>>]
  /\ UNCHANGED <<running, content, frames, undone, window, doubled, opens>>

\* The end of the root's run: the totals are recorded, and published before the
\* end itself, unless they cannot be computed or written.
record_turn_edits(ts, records) ==
  IF records THEN [ts EXCEPT ![Key].recorded = TRUE, ![Key].rows = CheckpointTotals(ts, Key, content)]
  ELSE ts
End ==
  /\ running /\ running' = FALSE
  /\ \E outcome \in Outcomes, records \in BOOLEAN :
       LET said == IF outcome = "finished" THEN <<Step("say", {})>> ELSE <<>>
           ended == [turns EXCEPT ![Key].steps = @ \o said, ![Key].outcome = outcome]
           recorded == record_turn_edits(ended, records) IN
       /\ turns' = recorded
       /\ Publish((IF records THEN <<[type |-> "HistoryMessage", key |-> Key,
                                      rows |-> recorded[Key].rows]>> ELSE <<>>)
                  \o <<[type |-> "RunEnded", outcome |-> outcome]>>)
  /\ UNCHANGED <<content, undone, window, doubled, opens>>

\* The host dies in a turn; the window opens the conversation with the next.
Die ==
  /\ running /\ running' = FALSE /\ frames' = <<>>
  /\ window' = Replay(turns) /\ opens' = opens + 1
  /\ UNCHANGED <<turns, content, undone, doubled>>

Deliver ==
  /\ frames # <<>> /\ frames' = Tail(frames)
  /\ window' = applyEvent(window, Head(frames))
  /\ UNCHANGED <<turns, running, content, undone, doubled, opens>>

\* The window opens the conversation: the history, then the frames it held
\* back, of which the history may tell already.
CanBeUndone(card) ==
  [card EXCEPT !.canUndo = /\ ~card.undone /\ card.key \in DOMAIN turns
                           /\ card.files \cap DOMAIN turns[card.key].before # {}]
OpenConversation ==
  /\ opens < MaxOpens /\ opens' = opens + 1
  /\ window' = LET w == Replay(turns) IN
       [w EXCEPT !.cards = [i \in DOMAIN w.cards |-> CanBeUndone(w.cards[i])]]
  /\ doubled' = doubled \cup {frames[i].key : i \in {j \in DOMAIN frames :
                                                    frames[j].type = "PromptSubmitted"}}
  /\ UNCHANGED <<turns, running, content, frames, undone>>

\* The person undoes a card: its turn's files and those of the turns after it
\* hold again what they held before.
Undo ==
  /\ ~running
  /\ \E i \in DOMAIN window.cards :
       LET key == window.cards[i].key
           backed(f) == {k \in key .. Len(turns) : f \in DOMAIN turns[k].before} IN
       /\ window.cards[i].canUndo
       /\ content' = [f \in Paths |->
            IF backed(f) = {} THEN content[f]
            ELSE turns[CHOOSE k \in backed(f) : \A l \in backed(f) : k <= l].before[f]]
       /\ undone' = undone \cup key .. Len(turns)
       /\ window' = [window EXCEPT !.cards[i].undone = TRUE, !.cards[i].canUndo = FALSE]
  /\ UNCHANGED <<turns, running, frames, doubled, opens>>

Next == Submit \/ Edits \/ Steer \/ SaysMore \/ End \/ Die \/ Deliver \/ OpenConversation \/ Undo

Spec == Init /\ [][Next]_cardVars

-----------------------------------------------------------------------------
TypeOK ==
  /\ Len(turns) <= MaxPrompts /\ running \in BOOLEAN /\ undone \subseteq 1 .. MaxPrompts
  /\ \A i \in DOMAIN window.cards : window.cards[i].files \subseteq Paths

Settled == frames = <<>> /\ ~running
CardsOf(w, key) == SelectSeq(w.cards, LAMBDA c : c.key = key)
Files(w, key) == [i \in DOMAIN CardsOf(w, key) |-> CardsOf(w, key)[i].files]

\* A turn whose totals could not be recorded is counted from its tool results,
\* by the window as far as it has seen them.
Recorded(key) == turns[key].recorded
\* An answer in the middle of a turn closes its card in the history: what the
\* turn did before and after it is told in parts.
SaidMore(key) == \E i \in DOMAIN turns[key].steps :
                   turns[key].steps[i].kind = "say" /\ i < Len(turns[key].steps)

TimesOf(w, key) == SelectSeq(w.times, LAMBDA x : x.key = key)

\* What the window shows of a turn that ended is what it would show if the
\* conversation were opened now, whether it watched the turn, opened the
\* conversation within it, or after it: one card with the same files, and how
\* the turn ended.  A refused turn is told as finished by the history.
CardsHold ==
  /\ Settled => \A key \in DOMAIN turns :
       Recorded(key) /\ ~SaidMore(key) /\ key \notin doubled =>
         /\ Files(window, key) = Files(Replay(turns), key)
         /\ turns[key].outcome # "refused" =>
              TimesOf(window, key) = TimesOf(Replay(turns), key)
  /\ \A key \in DOMAIN turns : key \notin doubled => Len(CardsOf(window, key)) <= 1
=============================================================================
