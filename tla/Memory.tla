------------------------------ MODULE Memory ------------------------------
(***************************************************************************)
(* The durable memory of a project: the file of entries (agent_memory.py), *)
(* the tools that write it (tools/memory.py), the extraction that follows  *)
(* each finished turn of a conversation on a thread of its own             *)
(* (memory_extract.py), and the consolidation that may follow an           *)
(* extraction (memory_consolidate.py).                                     *)
(*                                                                         *)
(* A conversation's messages are numbered; its window is what an           *)
(* extraction reads.  One scope of memory stands for the two, which are    *)
(* separate files under the same lock.                                     *)
(***************************************************************************)
EXTENDS Naturals, Sequences, FiniteSets, FiniteSetsExt

CONSTANTS Conversations,
          MaxEntries,    \* MAX_ENTRIES
          MaxMessages, MaxRewrites, MaxFailures,
          MaxWrites,     \* changes of the file by tools and the person
          None

MemoryAssumption == None \notin Conversations /\ None \notin Seq(Nat) /\ MaxMessages \in Nat

VARIABLES entries,       \* id -> text, or None: the file; texts are numbered as they are written
          readable,      \* whether the file can be decoded
          backup,        \* the .bak file, or None
          logged,        \* entries of the last consolidation or restore, or None
          recent,        \* it is less than an hour old
          lock,          \* the conversation whose thread holds consolidation_lock
          messages,      \* conversation -> its messages
          count,         \* messages ever made
          cursor,        \* conversation -> the anchor: position and message
          pending,       \* conversation -> the context waiting, or None
          job,           \* conversation -> what its thread does
          closed,        \* conversations whose extractor is closed
          covered,       \* conversation -> message -> extractions that had it
          due,           \* conversation -> messages submitted to be extracted
          behind,        \* conversation -> messages it was started from or gone back to
          failed,        \* conversations whose last extraction failed
          spared,        \* conversations rewritten or seeded again
          rewrites, failures,
          writes,        \* changes of the file so far
          wronged        \* entries dropped as they had not been seen

fileVars == <<entries, readable, backup, logged, recent, writes>>
extractVars == <<messages, count, cursor, pending, job, closed, covered, due, behind, failed, spared, rewrites, failures>>
memoryVars == <<fileVars, lock, extractVars, wronged>>

Ids == 1..MaxEntries + 1
NoJob == [stage |-> "none", context |-> <<>>, from |-> None, seen |-> None]
Present(f) == {i \in Ids : f[i] # None}
LastOf(ms) == ms[Len(ms)]
Anchor(ms) == [position |-> Len(ms), last |-> IF ms = <<>> THEN None ELSE LastOf(ms)]
Summary == 0
Merged == 0    \* the text of a merged entry
Blank == [m \in 1..MaxMessages |-> 0]

\* The memory is full with what was kept before.
Init ==
  /\ entries = [i \in Ids |-> IF i <= MaxEntries THEN MaxWrites + i ELSE None]
  /\ readable = TRUE /\ backup = None /\ logged = None /\ recent = FALSE
  /\ lock = None
  /\ messages = [x \in Conversations |-> <<>>] /\ count = 0
  /\ cursor = [x \in Conversations |-> Anchor(<<>>)]
  /\ pending = [x \in Conversations |-> None]
  /\ job = [x \in Conversations |-> NoJob]
  /\ closed = {} /\ covered = [x \in Conversations |-> Blank] /\ spared = {}
  /\ due = [x \in Conversations |-> {}] /\ behind = due /\ failed = {}
  /\ rewrites = 0 /\ failures = 0 /\ wronged = {} /\ writes = 0

-----------------------------------------------------------------------------
\* The file.

Write == writes < MaxWrites /\ writes' = writes + 1

NewId == Min(Ids \ Present(entries))

\* write: a new entry, if the file can be read and is not full.
Remembers ==
  /\ Write /\ readable /\ Cardinality(Present(entries)) < MaxEntries
  /\ entries' = [entries EXCEPT ![NewId] = writes']
  /\ UNCHANGED <<readable, backup, logged, recent, lock, extractVars, wronged>>

\* update: a tool's `replaces`, or the person in the settings.
Updates ==
  /\ Write /\ readable
  /\ \E i \in Present(entries) : entries' = [entries EXCEPT ![i] = writes']
  /\ UNCHANGED <<readable, backup, logged, recent, lock, extractVars, wronged>>

\* delete by the person names only the id.
Deletes ==
  /\ Write /\ readable
  /\ \E i \in Present(entries) : entries' = [entries EXCEPT ![i] = None]
  /\ UNCHANGED <<readable, backup, logged, recent, lock, extractVars, wronged>>

\* Mutant: the forgotten entry is found by its id alone.
MayForgetId(i, text) == entries[i] # None

\* forget: the text must be what the model was shown.
MayForget(i, text) == entries[i] # None /\ entries[i] = text

Forgets(x) ==
  /\ Write /\ readable /\ job[x].stage = "extracts"
  /\ \E i \in Present(job[x].seen) :
       /\ MayForget(i, job[x].seen[i])
       /\ entries' = [entries EXCEPT ![i] = None]
       /\ wronged' = IF entries[i] = job[x].seen[i] THEN wronged ELSE wronged \cup {i}
  /\ UNCHANGED <<readable, backup, logged, recent, lock, extractVars>>

\* The file is damaged from outside; nothing is written until it is mended.
Damaged ==
  /\ readable /\ failures < MaxFailures
  /\ readable' = FALSE /\ failures' = failures + 1
  /\ UNCHANGED <<entries, backup, logged, recent, writes, lock, messages, count, cursor, pending, job, closed, covered, due, behind, failed, spared, rewrites, wronged>>

\* restore_previous, by the person.
Restores ==
  /\ Write /\ backup # None
  /\ entries' = backup /\ readable' = TRUE /\ logged' = backup /\ recent' = TRUE
  /\ UNCHANGED <<backup, lock, extractVars, wronged>>

AnHour ==
  /\ recent /\ recent' = FALSE
  /\ UNCHANGED <<entries, readable, backup, logged, writes, lock, extractVars, wronged>>

-----------------------------------------------------------------------------
\* The conversations.

Idle(x) == job[x].stage = "none"

\* submit: the thread that is alive takes the newest context next.
Submit(x, ms) ==
  IF x \in closed THEN UNCHANGED <<pending, job, due>>
  ELSE /\ due' = [due EXCEPT ![x] = @ \cup (Range(ms) \ (behind[x] \cup {Summary}))]
       /\ pending' = [pending EXCEPT ![x] = ms]
       /\ job' = IF Idle(x) THEN [job EXCEPT ![x].stage = "drains"] ELSE job

\* A turn adds to the conversation; only one that has answered is submitted.
Turn(x) ==
  /\ count < MaxMessages /\ count' = count + 1
  /\ LET ms == Append(messages[x], count + 1) IN
     /\ messages' = [messages EXCEPT ![x] = ms]
     /\ Submit(x, ms) \/ UNCHANGED <<pending, job, due>>
  /\ UNCHANGED <<fileVars, lock, cursor, closed, covered, behind, failed, spared, rewrites, failures, wronged>>

\* A compaction leaves a summary and the last message.
Compacted(x) ==
  /\ rewrites < MaxRewrites /\ Len(messages[x]) > 1
  /\ rewrites' = rewrites + 1
  /\ messages' = [messages EXCEPT ![x] = <<Summary, LastOf(@)>>]
  /\ due' = [due EXCEPT ![x] = @ \cap {LastOf(messages[x])}]
  /\ spared' = spared \cup {x}
  /\ UNCHANGED <<fileVars, lock, count, cursor, pending, job, closed, covered, behind, failed, failures, wronged>>

\* seed_chat: an earlier message, or none, is gone back to; what is there is
\* not extracted any more.
Seeded(x) ==
  /\ rewrites < MaxRewrites /\ rewrites' = rewrites + 1
  /\ \E n \in 0..Len(messages[x]) :
       /\ messages' = [messages EXCEPT ![x] = SubSeq(@, 1, n)]
       /\ cursor' = [cursor EXCEPT ![x] = Anchor(SubSeq(messages[x], 1, n))]
       /\ behind' = [behind EXCEPT ![x] = @ \cup Range(SubSeq(messages[x], 1, n))]
  /\ due' = [due EXCEPT ![x] = {}]
  /\ spared' = spared \cup {x}
  /\ UNCHANGED <<fileVars, lock, count, pending, job, closed, covered, failed, failures, wronged>>

Closed(x) ==
  /\ x \notin closed /\ closed' = closed \cup {x}
  /\ pending' = [pending EXCEPT ![x] = None]
  /\ UNCHANGED <<fileVars, lock, messages, count, cursor, job, covered, due, behind, failed, spared, rewrites, failures, wronged>>

-----------------------------------------------------------------------------
\* The extractor's thread.

\* Mutant: the anchor is the position alone.
AfterCursorUnanchored(ms, c) == SubSeq(ms, c.position + 1, Len(ms))

\* _messages_after_cursor: all of them when the anchor is not where it was.
AfterCursor(ms, c) ==
  IF c.position = 0 \/ c.position > Len(ms) THEN ms
  ELSE IF ms[c.position] = c.last THEN SubSeq(ms, c.position + 1, Len(ms)) ELSE ms

Drains(x) ==
  /\ job[x].stage = "drains"
  /\ IF x \in closed \/ pending[x] = None
     THEN job' = [job EXCEPT ![x] = NoJob] /\ UNCHANGED pending
     ELSE /\ job' = [job EXCEPT ![x] = [stage |-> "extracts", context |-> pending[x], from |-> cursor[x],
                                       seen |-> entries]]
          /\ pending' = [pending EXCEPT ![x] = None]
  /\ UNCHANGED <<fileVars, lock, messages, count, cursor, closed, covered, due, behind, failed, spared, rewrites, failures, wronged>>

\* After a failure, and after a close, the cursor stays or the thread ends.
Ends(x, ok) ==
  /\ cursor' = IF ok /\ job[x].context # <<>> THEN [cursor EXCEPT ![x] = Anchor(job[x].context)] ELSE cursor
  /\ job' = [job EXCEPT ![x] = IF x \in closed THEN NoJob ELSE [NoJob EXCEPT !.stage = "drains"]]

Window(x) == Range(AfterCursor(job[x].context, job[x].from))

\* The extraction has read its window, saved what it would, and goes on to
\* consolidate.
Extracted(x) ==
  /\ job[x].stage = "extracts" /\ x \notin closed
  /\ covered' = [covered EXCEPT ![x] = [m \in 1..MaxMessages |-> @[m] + IF m \in Window(x) THEN 1 ELSE 0]]
  /\ failed' = failed \ {x}
  /\ job' = [job EXCEPT ![x].stage = "asks", ![x].seen = None]
  /\ UNCHANGED <<fileVars, lock, messages, count, cursor, pending, closed, due, behind, spared, rewrites, failures, wronged>>

\* Cancelled, refused by the provider or out of calls: the window is read
\* again with the next turn's.
ExtractFails(x) ==
  /\ job[x].stage = "extracts" /\ (x \in closed \/ failures < MaxFailures)
  /\ failures' = IF x \in closed THEN failures ELSE failures + 1
  /\ failed' = failed \cup {x}
  /\ Ends(x, FALSE)
  /\ UNCHANGED <<fileVars, lock, messages, count, pending, closed, covered, due, behind, spared, rewrites, wronged>>

\* consolidate_due: one at a time, and only when the memory is nearly full, has
\* changed, and an hour has passed.
Due == readable /\ Present(entries) # {} /\ entries # logged /\ ~recent
       /\ Cardinality(Present(entries)) * 4 > MaxEntries * 3

NotDue(x) ==
  /\ job[x].stage = "asks" /\ (lock # None \/ ~Due \/ x \in closed)
  /\ Ends(x, TRUE)
  /\ UNCHANGED <<fileVars, lock, messages, count, pending, closed, covered, due, behind, failed, spared, rewrites, failures, wronged>>

Asks(x) ==
  /\ job[x].stage = "asks" /\ lock = None /\ Due /\ x \notin closed
  /\ lock' = x
  /\ job' = [job EXCEPT ![x].stage = "consolidates", ![x].seen = entries]
  /\ UNCHANGED <<fileVars, messages, count, cursor, pending, closed, covered, due, behind, failed, spared, rewrites, failures, wronged>>

\* Mutant: the entries named are not compared with what the model was shown.
UnchangedNever(x, named) == named \subseteq Present(entries)

UnchangedSince(x, named) == \A i \in named : entries[i] # None /\ entries[i] = job[x].seen[i]

\* The reply merges entries into a new one or removes some; it is applied
\* whole or not at all, and what was there is kept in the backup.
Consolidates(x) ==
  /\ job[x].stage = "consolidates" /\ readable /\ x \notin closed
  /\ \E named \in SUBSET Present(job[x].seen), merged \in BOOLEAN :
       /\ merged => Cardinality(named) > 1
       /\ UnchangedSince(x, named)
       /\ entries' = [i \in Ids |-> IF merged /\ i = NewId THEN Merged ELSE IF i \in named THEN None ELSE entries[i]]
       /\ wronged' = wronged \cup {i \in named : entries[i] # job[x].seen[i]}
       /\ backup' = IF named = {} THEN backup ELSE entries
  /\ logged' = entries' /\ recent' = TRUE
  /\ lock' = None /\ Ends(x, TRUE)
  /\ UNCHANGED <<readable, writes, messages, count, pending, closed, covered, due, behind, failed, spared, rewrites, failures>>

\* An unusable reply, an entry that has changed since, a file that cannot be
\* read: nothing is changed.
Skips(x) ==
  /\ job[x].stage = "consolidates"
  /\ lock' = None /\ Ends(x, TRUE)
  /\ UNCHANGED <<fileVars, messages, count, pending, closed, covered, due, behind, failed, spared, rewrites, failures, wronged>>

Next ==
  \/ Remembers \/ Updates \/ Deletes \/ Damaged \/ Restores \/ AnHour
  \/ \E x \in Conversations :
       \/ Forgets(x) \/ Turn(x) \/ Compacted(x) \/ Seeded(x) \/ Closed(x)
       \/ Drains(x) \/ Extracted(x) \/ ExtractFails(x)
       \/ NotDue(x) \/ Asks(x) \/ Consolidates(x) \/ Skips(x)

Spec == Init /\ [][Next]_memoryVars

-----------------------------------------------------------------------------
TypeOK ==
  /\ DOMAIN entries = Ids /\ lock \in Conversations \cup {None}
  /\ \A x \in Conversations : job[x].stage \in {"none", "drains", "extracts", "asks", "consolidates"}

\* No model drops an entry that has changed since the model was shown it, and
\* no two consolidations run at once.
OnlyWhatWasSeen ==
  /\ wronged = {}
  /\ \A x \in Conversations : job[x].stage = "consolidates" => lock = x

\* When a conversation's thread rests, every message that was submitted and
\* is still there has been in an extraction that succeeded, unless the last
\* one failed; and none has been in two, unless the conversation was rewritten.
EachOnce ==
  \A x \in Conversations :
    /\ x \notin spared => \A m \in 1..MaxMessages : covered[x][m] <= 1
    /\ Idle(x) /\ x \notin closed \cup failed => \A m \in due[x] : covered[x][m] >= 1

MemoryIsKept == OnlyWhatWasSeen /\ EachOnce
-----------------------------------------------------------------------------
\* The invariant it follows from.
IsAnchor(c) ==
  /\ c \in [position : Nat, last : Nat \cup {None}]
  /\ c.position > 0 => c.last \in 0..count
JobFields == {"stage", "context", "from", "seen"}
HasContext(x) == job[x].stage \in {"extracts", "asks", "consolidates"}
HasExtracted(x) == job[x].stage \in {"asks", "consolidates"}

Increases(ms) == \A i, j \in DOMAIN ms : i < j => ms[i] < ms[j]

\* Messages are numbered as they come, a summary before them; those that are to
\* be extracted are there, and were not gone back to.
Numbered(x) ==
  /\ messages[x] \in Seq(0..count) /\ Increases(messages[x])
  /\ IsAnchor(cursor[x])
  /\ DOMAIN job[x] = JobFields /\ job[x].stage \in {"none", "drains", "extracts", "asks", "consolidates"}
  /\ covered[x] \in [1..MaxMessages -> Nat]
  /\ due[x] \subseteq Range(messages[x]) \ ({Summary} \cup behind[x])

\* A context is the conversation as it was when its last message came.
Snapshot(x, ms) ==
  /\ ms \in Seq(0..count) /\ ms # <<>> /\ Increases(ms)
  /\ \A m \in Range(messages[x]) : m <= LastOf(ms) => m \in Range(ms) \cup {Summary}
Snapshots(x) ==
  /\ pending[x] # None => Snapshot(x, pending[x])
  /\ HasContext(x) => Snapshot(x, job[x].context)

\* What a conversation has up to an anchor has been extracted or gone back to.
SettledBy(x, c) ==
  c.position > 0 =>
    \A m \in Range(messages[x]) \ ({Summary} \cup behind[x]) : m <= c.last => covered[x][m] >= 1
Settled(x) ==
  /\ SettledBy(x, cursor[x])
  /\ job[x].stage = "extracts" => IsAnchor(job[x].from) /\ SettledBy(x, job[x].from)
  /\ HasExtracted(x) => SettledBy(x, Anchor(job[x].context))

\* What was submitted is in the context that waits, or else in the one that is
\* worked on, or else has been extracted.
Awaited(x) ==
  x \notin closed =>
    /\ Idle(x) => pending[x] = None
    /\ pending[x] # None => \A m \in due[x] : m <= LastOf(pending[x])
    /\ pending[x] = None /\ HasContext(x) => \A m \in due[x] : m <= LastOf(job[x].context)
    /\ pending[x] = None /\ ~HasContext(x) /\ x \notin failed => \A m \in due[x] : covered[x][m] >= 1

\* A conversation that was never rewritten only grows, and its messages are
\* extracted in their order.
Begins(ms, x) == Len(ms) <= Len(messages[x]) /\ \A i \in DOMAIN ms : ms[i] = messages[x][i]
Reaches(ms, c) == c.position <= Len(ms) /\ (c.position > 0 => c.last = ms[c.position])
Frontier(x) == IF HasExtracted(x) THEN LastOf(job[x].context)
               ELSE IF cursor[x].position > 0 THEN cursor[x].last ELSE 0
Once(x) ==
  x \notin spared =>
    /\ pending[x] # None => Begins(pending[x], x) /\ Reaches(pending[x], cursor[x])
    /\ HasContext(x) => Begins(job[x].context, x) /\ Reaches(job[x].context, cursor[x])
    /\ pending[x] # None /\ HasContext(x) => Len(job[x].context) <= Len(pending[x])
    /\ Reaches(messages[x], cursor[x])
    /\ job[x].stage = "extracts" => job[x].from = cursor[x]
    /\ \A m \in 1..MaxMessages : covered[x][m] <= 1 /\ (covered[x][m] = 1 => m <= Frontier(x))

Kept(x) == Numbered(x) /\ Snapshots(x) /\ Settled(x) /\ Awaited(x) /\ Once(x)
IInv ==
  /\ count \in 0..MaxMessages
  /\ DOMAIN messages = Conversations /\ DOMAIN cursor = Conversations /\ DOMAIN pending = Conversations
  /\ DOMAIN job = Conversations /\ DOMAIN covered = Conversations /\ DOMAIN due = Conversations
  /\ DOMAIN behind = Conversations
  /\ \A x \in Conversations : Kept(x)
  /\ OnlyWhatWasSeen
=============================================================================
