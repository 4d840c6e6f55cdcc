------------------------------ MODULE FileEdits ------------------------------
(***************************************************************************)
(* The edits a conversation's agents make to files, the checkpoints that   *)
(* remember what was there before (symphonai_api/tools/edit.py,            *)
(* symphonai_api/checkpoints.py), and the requests that put it back        *)
(* (symphonai_host/run.py, revert_changes and fork_session).               *)
(*                                                                         *)
(* A checkpoint begins with each prompt.  An edit of one or more files by  *)
(* a writer, the leader or a background subagent in its tree, backs the    *)
(* files up, writes them, records what it wrote, and undoes its writes     *)
(* when one of them fails.  Somebody outside edits the same files, and the *)
(* host may die at any step.  A content is a number, 0 that of no file,    *)
(* and every write makes a new one: `theirs` are those made outside, until a   *)
(* checkpoint or a request takes them for the conversation's.              *)
(* An edit may have other files than `Files`, and so fail when these do    *)
(* not.  What an edit does to one file commutes with what it does to       *)
(* another, so that each of its loops over them is one step.               *)
(* Permission, the read ledger's refusal and a stop before the first write *)
(* only keep an edit from beginning, and are not told apart.               *)
(***************************************************************************)
EXTENDS Naturals, Sequences, FiniteSets, SequencesExt, Functions

CONSTANTS Files, Writers, MaxKeys, MaxContents

VARIABLES
    disk,         \* the content of a file
    contents,     \* how many contents were made
    theirs,       \* the contents made outside that no checkpoint took for its own
    keys,         \* how many checkpoints the conversation has (_keys)
    entries,      \* what the manifest tells of first writes (_entries)
    lastWritten,  \* the content the manifest gives a file (_last_written)
    backups,      \* the files backed up but not yet recorded (_pending)
    edit,         \* the edit of a writer
    atKey,        \* what every file was when a checkpoint began
    disturbed     \* the last checkpoint in which a file changed by no recorded edit

editVars == <<disk, contents, theirs, keys, entries, lastWritten, backups, edit,
              atKey, disturbed>>

Contents == 0 .. MaxContents
NoEdit == [stage |-> "idle", files |-> {}, originals |-> <<>>]

TypeOK ==
    /\ disk \in [Files -> Contents] /\ contents \in Contents
    /\ theirs \subseteq Contents /\ keys \in 0 .. MaxKeys
    /\ entries \in Seq([key : 1 .. MaxKeys, file : Files, backup : Contents])
    /\ lastWritten \in [Files -> Contents]
    /\ DOMAIN backups \subseteq Files
    /\ \A w \in Writers : edit[w].files \subseteq DOMAIN edit[w].originals

\* The files are the first contents, and no checkpoint has begun.
Init ==
    /\ disk \in [Files -> {0}] \cup [Files -> {1}]
    /\ contents = 1 /\ theirs = {}
    /\ keys = 0 /\ entries = <<>>
    /\ lastWritten = [f \in Files |-> 0]
    /\ backups = <<>>
    /\ edit = [w \in Writers |-> NoEdit]
    /\ atKey = <<>>
    /\ disturbed = [f \in Files |-> 0]

Quiet == \A w \in Writers : edit[w].stage = "idle"
Recorded(f) == \E i \in DOMAIN entries : entries[i].key = keys /\ entries[i].file = f
Make(n) == contents' = contents + n /\ contents' <= MaxContents
Orders(S) == Bijection(S, 1 .. Cardinality(S))
Upset(S) == disturbed' = [f \in Files |-> IF f \in S THEN keys ELSE disturbed[f]]
At(w, stage, S, originals) ==
    edit' = [edit EXCEPT ![w] = [stage |-> stage, files |-> S, originals |-> originals]]
Over(w) == edit' = [edit EXCEPT ![w] = NoEdit]
storeVars == <<keys, entries, lastWritten, backups>>

\* A prompt begins a checkpoint: backups of edits that failed go.  The
\* background subagents of the turn before were closed and joined.
Begin ==
    /\ Quiet /\ keys < MaxKeys
    /\ keys' = keys + 1
    /\ backups' = <<>>
    /\ atKey' = Append(atKey, disk)
    /\ UNCHANGED <<disk, contents, theirs, entries, lastWritten, edit, disturbed>>

\* An allowed edit reads the files as they are, to be able to undo it.
Prepare(w, S) ==
    /\ keys > 0 /\ edit[w].stage = "idle"
    /\ At(w, "prepared", S, Restrict(disk, S))
    /\ UNCHANGED <<disk, contents, theirs, storeVars, atKey, disturbed>>

\* before_write: the first edit of a file in a checkpoint copies it.  A copy
\* that fails ends the edit before its first write.
BeforeWrite(w) ==
    LET e == edit[w] IN
    /\ e.stage = "prepared"
    /\ \E copied \in SUBSET e.files :
          /\ backups' = [f \in {g \in copied : ~Recorded(g)} \cup DOMAIN backups |->
                            IF f \in DOMAIN backups THEN backups[f] ELSE disk[f]]
          /\ \/ copied = e.files /\ At(w, "backedUp", e.files, e.originals)
             \/ Over(w)
    /\ UNCHANGED <<disk, contents, theirs, keys, entries, lastWritten, atKey, disturbed>>

\* The files are written, or deleted if they are there.  A write that fails
\* may leave part of its content, and is undone with those before it.
Write(w) ==
    LET e == edit[w] IN
    /\ e.stage = "backedUp"
    /\ \E written \in SUBSET e.files, deleted \in SUBSET e.files :
          /\ deleted \subseteq written /\ \A f \in deleted : disk[f] # 0
          /\ Make(Cardinality(written \ deleted))
          /\ \E new \in Orders(written \ deleted) :
                disk' = [f \in Files |-> IF f \in deleted THEN 0
                                         ELSE IF f \in written THEN contents + new[f]
                                         ELSE disk[f]]
          /\ \/ written = e.files /\ At(w, "written", e.files, e.originals)
             \/ At(w, "failed", written, e.originals)
    /\ UNCHANGED <<theirs, storeVars, atKey, disturbed>>

\* after_write: the manifest gets the digest of what is in the file now, with
\* the backup if the checkpoint has none.  A change from outside since the
\* write is taken for the edit's own.  A file or a manifest that fails undoes
\* the edit, and not what the manifest has of it.
AfterWrite(w) ==
    LET e == edit[w] IN
    /\ e.stage = "written"
    /\ \E told \in SUBSET e.files :
          LET new == {f \in told : ~Recorded(f)}
              entry == [f \in new |-> [key |-> keys, file |-> f, backup |-> backups[f]]] IN
          /\ lastWritten' = [f \in Files |-> IF f \in told THEN disk[f] ELSE lastWritten[f]]
          /\ theirs' = theirs \ {disk[f] : f \in told}
          /\ entries' = entries \o SetToSeq(Range(entry))
          /\ backups' = Restrict(backups, DOMAIN backups \ new)
          /\ \/ told = e.files /\ Over(w)
             \/ At(w, "failed", e.files, e.originals)
    /\ UNCHANGED <<disk, contents, keys, atKey, disturbed>>

\* The written files get their first content back; a file that cannot be
\* written leaves those before it as they are.
Rollback(w) ==
    LET e == edit[w] IN
    /\ e.stage = "failed"
    /\ \E undone \in SUBSET e.files :
          disk' = [f \in Files |-> IF f \in undone THEN e.originals[f] ELSE disk[f]]
    /\ Upset({f \in e.files : ~Recorded(f) /\ disk'[f] # backups[f]})
    /\ Over(w)
    /\ UNCHANGED <<contents, theirs, storeVars, atKey>>

\* Somebody else writes or deletes a file.
Outside(f) ==
    /\ \/ /\ Make(1)
          /\ disk' = [disk EXCEPT ![f] = contents'] /\ theirs' = theirs \cup {contents'}
       \/ /\ disk[f] # 0
          /\ disk' = [disk EXCEPT ![f] = 0] /\ UNCHANGED <<contents, theirs>>
    /\ Upset({f})
    /\ UNCHANGED <<storeVars, edit, atKey>>

\* Mutant: the entry of the last checkpoint wins.
LastFrom(k) ==
    {i \in DOMAIN entries :
        /\ entries[i].key >= k
        /\ \A j \in i + 1 .. Len(entries) : entries[j].file # entries[i].file}

\* The first entry of each file among those of the checkpoints from k on.
FirstFrom(k) ==
    {i \in DOMAIN entries :
        /\ entries[i].key >= k
        /\ \A j \in 1 .. i - 1 : entries[j].key >= k => entries[j].file # entries[i].file}
FirstOf(f) == {i \in FirstFrom(1) : entries[i].file = f}
FilesOf(I) == {entries[i].file : i \in I}
ChangedOutside(I) == {f \in FilesOf(I) : disk[f] # lastWritten[f]}
BackupOf(I, f) == LET i == CHOOSE j \in I : entries[j].file = f IN entries[i].backup
RestoredBy(I, g) == [f \in Files |-> IF f \in FilesOf(I) THEN BackupOf(I, f) ELSE g[f]]

\* Nothing runs, the files asked for were changed by the conversation, and none
\* differs from its last write unless the request is forced.  The manifest
\* gets what was put back, file by file.
Restore(I, force) ==
    /\ Quiet /\ I # {}
    /\ force \/ ChangedOutside(I) = {}
    /\ disk' = RestoredBy(I, disk)
    /\ lastWritten' = RestoredBy(I, lastWritten)
    /\ theirs' = theirs \ {disk'[f] : f \in FilesOf(I)}
RevertFile(f, force) ==
    /\ Restore(FirstOf(f), force)
    /\ Upset({f})
    /\ UNCHANGED <<contents, keys, entries, backups, edit, atKey>>
RevertKey(k, force) ==
    /\ Restore(FirstFrom(k), force)
    /\ Upset(FilesOf(FirstFrom(k)))
    /\ UNCHANGED <<contents, keys, entries, backups, edit, atKey>>

\* The manifest of a fork: the kept checkpoints, their entries, and of each
\* file it names, kept or put back, what it is now, whoever wrote it.
CopyKept(k, restored) ==
    LET kept == SelectSeq(entries, LAMBDA e : e.key <= k)
        named == restored \cup {kept[i].file : i \in DOMAIN kept} IN
    /\ keys' = k /\ entries' = kept /\ backups' = <<>>
    /\ lastWritten' = [f \in Files |-> IF f \in named THEN disk'[f] ELSE 0]
    /\ theirs' = theirs \ {disk'[f] : f \in named}

\* A fork at the end of checkpoint k, which goes on instead of its source: the
\* files of later checkpoints are put back.
Fork(k, force) ==
    LET I == FirstFrom(k + 1) IN
    /\ Quiet /\ k < keys
    /\ force \/ ChangedOutside(I) = {}
    /\ disk' = RestoredBy(I, disk)
    /\ CopyKept(k, FilesOf(I))
    /\ atKey' = SubSeq(atKey, 1, k)
    /\ disturbed' = [f \in Files |-> IF disturbed[f] > k THEN k ELSE disturbed[f]]
    /\ UNCHANGED <<contents, edit>>

\* The files an edit wrote and the manifest of this checkpoint does not have.
Unrecorded ==
    {f \in Files : /\ ~Recorded(f)
                   /\ f \in DOMAIN backups /\ disk[f] # backups[f]}

\* The host dies and the conversation is opened again: the manifest is read
\* back, and the backups it does not name are forgotten.
Crash ==
    /\ ~Quiet \/ backups # <<>>
    /\ backups' = <<>>
    /\ edit' = [w \in Writers |-> NoEdit]
    /\ Upset(Unrecorded)
    /\ UNCHANGED <<disk, contents, theirs, keys, entries, lastWritten, atKey>>

Edits(w) ==
    \/ \E S \in SUBSET Files \ {{}} : Prepare(w, S)
    \/ BeforeWrite(w) \/ Write(w) \/ AfterWrite(w) \/ Rollback(w)
Requests(force) ==
    \/ \E f \in Files : RevertFile(f, force)
    \/ \E k \in 1 .. keys : RevertKey(k, force) \/ Fork(k, force)
Next ==
    \/ Begin \/ Crash
    \/ \E w \in Writers : Edits(w)
    \/ \E f \in Files : Outside(f)
    \/ \E force \in BOOLEAN : Requests(force)

Spec == Init /\ [][Next]_editVars

-----------------------------------------------------------------------------
\* What a request puts back is what was there: a file is again what it was
\* when the checkpoint began, if since then only recorded edits changed it
\* (revert_changes; fork_session for the checkpoint after the one it keeps).
PutsBack(k) == \A f \in Files : disturbed[f] < k => disk'[f] = atKey[k][f]
\* And nothing made outside is overwritten unless the request is forced.
KeepsTheirs == \A f \in Files : disk[f] \in theirs => disk'[f] = disk[f]

\* Reverting or forking, at any time and in any order with edits that fail,
\* deaths and changes from outside, restores the files of a checkpoint exactly
\* and never silently costs somebody else's work.
RestoresExactly ==
    [][/\ \A k \in 1 .. keys :
            /\ \A force \in BOOLEAN : RevertKey(k, force) => PutsBack(k)
            /\ RevertKey(k, FALSE) => KeepsTheirs
       /\ \A k \in 1 .. keys - 1 :
            /\ \A force \in BOOLEAN : Fork(k, force) => PutsBack(k + 1)
            /\ Fork(k, FALSE) => KeepsTheirs
       /\ \A f \in Files : RevertFile(f, FALSE) => KeepsTheirs]_editVars
=============================================================================
