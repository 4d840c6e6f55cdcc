----------------------------- MODULE MCFiles -----------------------------
(***************************************************************************)
(* What agents send, keep and write, in one instance: the messages on the  *)
(* wire, the memory, the transcripts of conversations, the tools that change *)
(* files and the patches they apply.  A behaviour is one of the component  *)
(* `part`, and the others stay as they start.                              *)
(***************************************************************************)
EXTENDS Integers, Sequences, FiniteSets, TLC

CONSTANTS MaxBlocks, MaxWire,
          Conversations, MaxEntries, MaxMessages, MaxRewrites, MaxFailures, MaxWrites,
          Sessions, First, MaxSaid, MaxRuns, MaxCrashes,
          Paths, MaxCalls, MaxChanges, MaxRecords, MaxKept,
          Letters, MaxLines, MaxHunkLines,
          None

VARIABLES part,
  format, history, blocks, lastNumber,
  entries, readable, backup, logged, recent, lock, remembered, count, cursor, pending,
  job, ended, covered, due, behind, failed, spared, rewrites, failures, writes, wronged,
  records, meta, held, was, open, active, todo, saves, fork, outcome, said, runs,
  crashes,
  disk, stamp, clock, ledger, call, calls, changes, raced, blind, misled, misread,
  original, patched, cursorAt, hunks, removed, ends

Wire       == INSTANCE ProviderWire WITH number <- lastNumber, MaxMessages <- MaxWire
Keeper     == INSTANCE Memory WITH messages <- remembered, closed <- ended
Transcript == INSTANCE Transcripts WITH MaxMessages <- MaxSaid
Tool       == INSTANCE FileTools WITH Lines <- Letters
Patch      == INSTANCE Patches WITH lines <- patched, outcome <- ends,
                                    cursor <- cursorAt

ASSUME ToolParameters == Tool!ToolAssumption
ASSUME MemoryParameters == Keeper!MemoryAssumption

wireVars == <<format, history, blocks, lastNumber>>
memoryVars == <<entries, readable, backup, logged, recent, lock, remembered, count,
                cursor, pending, job, ended, covered, due, behind, failed, spared,
                rewrites, failures, writes, wronged>>
transcriptVars == <<records, meta, held, was, open, active, todo, saves, fork, outcome,
                    said, runs, crashes>>
toolVars == <<disk, stamp, clock, ledger, call, calls, changes, raced, blind, misled,
              misread>>
patchVars == <<original, patched, cursorAt, hunks, removed, ends>>
vars == <<part, wireVars, memoryVars, transcriptVars, toolVars, patchVars>>

Init ==
  /\ part \in {"wire", "memory", "transcripts", "tools", "patches"}
  /\ Wire!Init /\ (part # "wire" => format = "chat")
  /\ Tool!Init /\ (part # "tools" => disk = [p \in Paths |-> None])
  /\ Keeper!Init /\ Transcript!Init
  /\ IF part = "patches" THEN Patch!Init
     ELSE /\ original = <<>> /\ patched = <<>> /\ cursorAt = 1 /\ hunks = <<>> /\ removed = {}
          /\ ends = "works"

WireSteps ==
  /\ part = "wire" /\ Wire!Next
  /\ UNCHANGED <<part, memoryVars, transcriptVars, toolVars, patchVars>>
KeeperSteps ==
  /\ part = "memory" /\ Keeper!Next
  /\ UNCHANGED <<part, wireVars, transcriptVars, toolVars, patchVars>>
TranscriptSteps ==
  /\ part = "transcripts" /\ Transcript!Next
  /\ UNCHANGED <<part, wireVars, memoryVars, toolVars, patchVars>>
ToolSteps ==
  /\ part = "tools" /\ Tool!Next
  /\ UNCHANGED <<part, wireVars, memoryVars, transcriptVars, patchVars>>
PatchSteps ==
  /\ part = "patches" /\ Patch!Next
  /\ UNCHANGED <<part, wireVars, memoryVars, transcriptVars, toolVars>>

Next == WireSteps \/ KeeperSteps \/ TranscriptSteps \/ ToolSteps \/ PatchSteps

Spec == Init /\ [][Next]_vars

\* The properties of the components, stated where the components are; those
\* that do not move keep what they start with.
WireHolds == part = "wire" => Wire!WireHolds
\* What a conversation is remembered by: its transcript and its memory.
ConversationsAreKept ==
  /\ part = "memory" => Keeper!MemoryIsKept
  /\ part = "transcripts" => Transcript!TranscriptsHold
\* A tool changes what the agent has seen, where it was told to.
EditsAreInformed ==
  /\ part = "tools" => Tool!EditsAreInformed
  /\ part = "patches" => Patch!OnlyTheNamedLines

=============================================================================
