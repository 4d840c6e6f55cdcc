----------------------------- MODULE FileTools -----------------------------
(***************************************************************************)
(* The tools an agent reads and writes files with (tools/filesystem.py,    *)
(* edit.py, apply_patch.py) and the ledger of what it has read             *)
(* (read_ledger.py), beside a person, other agents and programs that       *)
(* change the same files.                                                  *)
(*                                                                         *)
(* A text is a sequence of lines.  Every change gives a file a later time  *)
(* of modification.  What a write does to checkpoints, and how it is       *)
(* undone, is FileEdits'; line endings and diffs are Patches'.             *)
(***************************************************************************)
EXTENDS Naturals, Sequences, FiniteSets, FiniteSetsExt

CONSTANTS Paths, Lines,
          MaxCalls, MaxChanges,
          MaxRecords,    \* entries the ledger keeps
          MaxKept,       \* lines of text they keep
          None

ToolAssumption ==
  /\ None \notin Paths /\ MaxRecords \in Nat
  /\ \E x, y \in Lines : x # y    \* a line can be edited

VARIABLES disk,          \* path -> its text, or None
          stamp,         \* path -> when it was changed
          clock,
          ledger,        \* the records, the least recently used first
          call,          \* the tool at work
          calls, changes,
          raced,         \* changed while a tool was between two of its steps
          blind,         \* overwritten with a text the agent had not seen
          misled,        \* overwritten with what was computed from another text
          misread        \* answered with a text that was not there

diskVars == <<disk, stamp, clock>>
agentVars == <<ledger, call, calls>>
toolVars == <<diskVars, agentVars, changes, raced, blind, misled, misread>>

Texts == UNION {[1..n -> Lines] : n \in 1..2}
Idle == [stage |-> "idle", path |-> None, text |-> None, ranged |-> FALSE, asks |-> FALSE,
         changes |-> <<>>, done |-> 0, originals |-> None]

Init ==
  /\ disk \in [Paths -> {None} \cup {text \in Texts : text[1] = CHOOSE x \in Lines : TRUE}]
  /\ stamp = [p \in Paths |-> 0] /\ clock = 0
  /\ ledger = <<>> /\ call = Idle /\ calls = 0 /\ changes = 0
  /\ raced = {} /\ blind = {} /\ misled = {} /\ misread = {}

-----------------------------------------------------------------------------
\* The ledger.

Has(l, p) == \E r \in Range(l) : r.path = p
Of(l, p) == CHOOSE r \in Range(l) : r.path = p
Kept(l) == FoldFunction(LAMBDA r, n : IF r.text = None THEN n ELSE n + Len(r.text), 0, l)

\* _enforce_bounds: the oldest texts go first, then the oldest records.
Bounded(l) ==
  LET drop == CHOOSE k \in 0..Len(l) : Kept(SubSeq(l, k + 1, Len(l))) <= MaxKept
                /\ \A j \in 0..Len(l) : Kept(SubSeq(l, j + 1, Len(l))) <= MaxKept => k <= j
      cut == [i \in DOMAIN l |-> IF i <= drop THEN [l[i] EXCEPT !.text = None] ELSE l[i]]
  IN IF Len(cut) > MaxRecords THEN SubSeq(cut, Len(cut) - MaxRecords + 1, Len(cut)) ELSE cut

\* The ledger keeps one record of a path.
Place(l, p) == CHOOSE i \in DOMAIN l : l[i].path = p
Without(l, p) == 
  IF Has(l, p) THEN SubSeq(l, 1, Place(l, p) - 1) \o SubSeq(l, Place(l, p) + 1, Len(l)) ELSE l

\* record, and a record that is used again: it becomes the latest.
Put(l, r) == Bounded(Append(Without(l, r.path), r))

\* What the ledger keeps of a text, and (seen) the whole it belongs to.
Read(p, text, ranged) ==
  [path |-> p, stamp |-> stamp[p], full |-> ~ranged, partial |-> FALSE,
   text |-> IF ranged THEN SubSeq(text, 1, 1) ELSE text, seen |-> text]

\* Mutant: a file that has changed is taken for read if it had been.
FreshOnce(l, p) == Has(l, p) /\ ~Of(l, p).partial /\ disk[p] # None

\* check.
Fresh(l, p) ==
  /\ Has(l, p) /\ ~Of(l, p).partial /\ disk[p] # None
  /\ stamp[p] <= Of(l, p).stamp \/ (Of(l, p).full /\ Of(l, p).text = disk[p])

\* A record that was found fresh is used again, as of now.
Refreshed(l, p) ==
  Put(l, [Of(l, p) EXCEPT !.stamp = IF @ < stamp[p] THEN stamp[p] ELSE @])
CheckedOne(x, p) ==
  IF x.ok /\ Fresh(x.l, p) THEN [l |-> Refreshed(x.l, p), ok |-> TRUE] ELSE [l |-> x.l, ok |-> FALSE]

\* The ledger after it has been asked about those of ps that are in asked, one
\* after another, up to the first refusal.
Checked(l, ps, asked) ==
  LET after[i \in 0..Len(ps)] ==
        IF i = 0 THEN [l |-> l, ok |-> TRUE]
        ELSE IF ps[i] \in asked THEN CheckedOne(after[i - 1], ps[i]) ELSE after[i - 1]
  IN after[Len(ps)]

-----------------------------------------------------------------------------
\* read_file.

Free == call.stage = "idle" /\ calls < MaxCalls

\* cached_record: what is shown for a file that has not changed.
Cached(p, ranged) ==
  /\ Has(ledger, p) /\ disk[p] # None
  /\ LET r == Of(ledger, p) IN
     /\ ~r.partial /\ r.text # None /\ r.stamp = stamp[p] /\ (r.full \/ ranged)
FromLedger(p, ranged) ==
  /\ Free /\ Cached(p, ranged)
  /\ calls' = calls + 1
  /\ ledger' = Append(Without(ledger, p), Of(ledger, p))
  /\ misread' = IF SubSeq(Of(ledger, p).text, 1, 1) = SubSeq(disk[p], 1, 1) /\ (ranged \/ Of(ledger, p).text = disk[p])
                THEN misread ELSE misread \cup {p}
  /\ UNCHANGED <<diskVars, call, changes, raced, blind, misled>>

Opens(p, ranged) ==
  /\ Free /\ disk[p] # None /\ ~Cached(p, ranged)
  /\ calls' = calls + 1
  /\ call' = [Idle EXCEPT !.stage = "read", !.path = p, !.text = disk[p], !.ranged = ranged]
  /\ UNCHANGED <<diskVars, ledger, changes, raced, blind, misled, misread>>

\* The time of modification is taken only now.
Records ==
  /\ call.stage = "read" /\ call' = Idle
  /\ ledger' = IF disk[call.path] = None THEN ledger ELSE Put(ledger, Read(call.path, call.text, call.ranged))
  /\ UNCHANGED <<diskVars, calls, changes, raced, blind, misled, misread>>

\* A file put among the instructions has been seen only as they show it.
Injects(p) ==
  /\ Free /\ disk[p] # None
  /\ calls' = calls + 1
  /\ ledger' = Put(ledger, [Read(p, disk[p], TRUE) EXCEPT !.partial = TRUE, !.text = None])
  /\ UNCHANGED <<diskVars, call, changes, raced, blind, misled, misread>>

-----------------------------------------------------------------------------
\* The tools that write.  A change is a path, the text it was computed from (or
\* None) and the new one (or None: it goes).

Change(p, old, new) == [path |-> p, old |-> old, new |-> new]
NoPlan == <<>>

Occurs(text, x) == {i \in DOMAIN text : text[i] = x}

\* edit_file: one line, or every such line.
Edits == {e \in [old : Lines, new : Lines, all : BOOLEAN] : e.old # e.new}
Edited(text, e) ==
  CASE text = None -> None
    [] Occurs(text, e.old) = {} -> None
    [] Cardinality(Occurs(text, e.old)) > 1 /\ ~e.all -> None
    [] OTHER -> [i \in DOMAIN text |-> IF text[i] = e.old THEN e.new ELSE text[i]]

\* multi_edit_file: one after another, all or none.
EditedBy(text, e, f) == IF f = None THEN Edited(text, e) ELSE Edited(Edited(text, e), f)

EditPlan(p, e, f) == IF EditedBy(disk[p], e, f) = None THEN NoPlan ELSE <<Change(p, disk[p], EditedBy(disk[p], e, f))>>
\* write_file shows the old text only where it asks.
WritePlan(p, text, asks) == <<Change(p, IF asks THEN disk[p] ELSE None, text)>>

\* apply_patch: each operation with the files it names.
Operations ==
  [kind : {"Add"}, path : Paths, to : {None}] \cup [kind : {"Delete", "Update"}, path : Paths, to : {None}]
  \cup {o \in [kind : {"Move"}, path : Paths, to : Paths] : o.path # o.to}
Named(o) == IF o.to = None THEN <<o.path>> ELSE <<o.path, o.to>>
Hunk == CHOOSE e \in Edits : TRUE
FirstEdited(text) ==
  IF Occurs(text, Hunk.old) = {} THEN None ELSE [text EXCEPT ![Min(Occurs(text, Hunk.old))] = Hunk.new]
OperationPlan(o) ==
  IF o.kind # "Add" /\ disk[o.path] = None THEN NoPlan ELSE
  CASE o.kind = "Add" -> IF disk[o.path] = None THEN <<Change(o.path, None, <<Hunk.new>>)>> ELSE NoPlan
    [] o.kind = "Delete" -> <<Change(o.path, disk[o.path], None)>>
    [] o.kind = "Update" -> IF FirstEdited(disk[o.path]) = None THEN NoPlan
                            ELSE <<Change(o.path, disk[o.path], FirstEdited(disk[o.path]))>>
    [] OTHER -> IF disk[o.to] # None THEN NoPlan
                ELSE <<Change(o.path, disk[o.path], None), Change(o.to, None, disk[o.path])>>
PatchPlan(o, n) ==
  LET first == OperationPlan(o)
      rest == IF n = None THEN <<>> ELSE OperationPlan(n)
      all == first \o rest
  IN IF first = NoPlan \/ (n # None /\ rest = NoPlan) \/ ~IsInjective([i \in DOMAIN all |-> all[i].path])
     THEN NoPlan ELSE all

Existing == {p \in Paths : disk[p] # None}

\* A tool is called: what is there is read and checked, and the change computed.
Begins(ps, plan, asks) ==
  LET checked == Checked(ledger, ps, Existing) IN
  /\ calls' = calls + 1 /\ ledger' = checked.l
  /\ call' = IF ~checked.ok \/ plan = NoPlan THEN Idle
             ELSE [Idle EXCEPT !.stage = IF asks THEN "asked" ELSE "write", !.changes = plan, !.asks = asks]
  /\ UNCHANGED <<diskVars, changes, raced, blind, misled, misread>>

Writes(p) == Free /\ \E asks \in BOOLEAN, text \in {<<x>> : x \in Lines} : Begins(<<p>>, WritePlan(p, text, asks), asks)
EditsFile(p) ==
  /\ Free /\ disk[p] # None
  /\ \E asks \in BOOLEAN, e \in Edits, f \in Edits \cup {None} :
       Begins(<<p>>, EditPlan(p, e, f), asks)
Patches ==
  /\ Free
  /\ \E asks \in BOOLEAN, o \in Operations, n \in Operations \cup {None} :
       Begins(IF n = None THEN Named(o) ELSE Named(o) \o Named(n), PatchPlan(o, n), asks)

Targets == [i \in DOMAIN call.changes |-> call.changes[i].path]

\* approve_and_write.
Allowed == /\ call.stage = "asked" /\ call' = [call EXCEPT !.stage = "check"]
           /\ UNCHANGED <<diskVars, ledger, calls, changes, raced, blind, misled, misread>>
Refused == /\ call.stage \in {"asked", "check", "write"} /\ call.done = 0 /\ call' = Idle   \* or the run is stopped
           /\ UNCHANGED <<diskVars, ledger, calls, changes, raced, blind, misled, misread>>

Checks ==
  /\ call.stage = "check"
  /\ LET shown == {c.path : c \in {d \in Range(call.changes) : d.old # None}}
         checked == Checked(ledger, Targets, Existing \cup shown)
     IN /\ ledger' = checked.l
        /\ call' = IF checked.ok THEN [call EXCEPT !.stage = "write"] ELSE Idle
  /\ UNCHANGED <<diskVars, calls, changes, raced, blind, misled, misread>>

Written(p, text) ==
  /\ disk' = [disk EXCEPT ![p] = text]
  /\ clock' = clock + 1 /\ stamp' = [stamp EXCEPT ![p] = clock + 1]

\* What was there before the first write.
Originals == IF call.done = 0 THEN disk ELSE call.originals

WritesNext ==
  /\ call.stage = "write"
  /\ LET c == call.changes[call.done + 1] IN
     /\ Written(c.path, c.new)
     /\ blind' = IF disk[c.path] # None /\ ~(Has(ledger, c.path) /\ Of(ledger, c.path).seen = disk[c.path])
                 THEN blind \cup {c.path} ELSE blind
     /\ misled' = IF (c.old # None \/ disk[c.path] = None) /\ c.old # disk[c.path] THEN misled \cup {c.path} ELSE misled
  /\ call' = [call EXCEPT !.done = @ + 1, !.originals = Originals, !.stage = IF call.done + 1 = Len(call.changes) THEN "record" ELSE "write"]
  /\ UNCHANGED <<ledger, calls, changes, raced, misread>>

\* One write fails: those before it are undone, and it.
WriteFails ==
  /\ call.stage = "write"
  /\ LET undone == {call.changes[i].path : i \in 1..call.done + 1} IN
     /\ disk' = [p \in Paths |-> IF p \in undone THEN Originals[p] ELSE disk[p]]
     /\ clock' = clock + 1 /\ stamp' = [p \in Paths |-> IF p \in undone THEN clock + 1 ELSE stamp[p]]
  /\ call' = Idle
  /\ UNCHANGED <<ledger, calls, changes, raced, blind, misled, misread>>

\* What was written is recorded as read.
RecordedOne(l, c) ==
  IF c.new = None \/ disk[c.path] = None THEN l ELSE Put(l, Read(c.path, c.new, FALSE))
Recorded(l, cs) ==
  LET after[i \in 0..Len(cs)] == IF i = 0 THEN l ELSE RecordedOne(after[i - 1], cs[i])
  IN after[Len(cs)]
RecordsWritten ==
  /\ call.stage = "record" /\ call' = Idle /\ ledger' = Recorded(ledger, call.changes)
  /\ UNCHANGED <<diskVars, calls, changes, raced, blind, misled, misread>>

\* Somebody else changes a file, or removes it.
Outside(p) ==
  /\ changes < MaxChanges /\ changes' = changes + 1
  /\ \E text \in {<<x>> : x \in Lines} \cup {None} : text # disk[p] /\ Written(p, text)
  /\ raced' = IF (call.stage = "read" /\ call.path = p) \/ (call.stage \in {"write", "record"} /\ p \in Range(Targets))
              THEN raced \cup {p} ELSE raced
  /\ UNCHANGED <<agentVars, blind, misled, misread>>

Next ==
  \/ Records \/ Patches \/ Allowed \/ Refused \/ Checks \/ WritesNext \/ WriteFails \/ RecordsWritten
  \/ \E p \in Paths : Injects(p) \/ Writes(p) \/ EditsFile(p) \/ Outside(p)
                      \/ \E ranged \in BOOLEAN : FromLedger(p, ranged) \/ Opens(p, ranged)

Spec == Init /\ [][Next]_toolVars

-----------------------------------------------------------------------------
TypeOK ==
  /\ disk \in [Paths -> Texts \cup {None}] /\ Len(ledger) <= MaxRecords /\ Kept(ledger) <= MaxKept
  /\ call.stage \in {"idle", "read", "asked", "check", "write", "record"}

\* No tool overwrites a text the agent has not seen, nor one other than the
\* change was computed from and approved for, and what it is shown without
\* reading is there, whoever changes the file in between, except between two
\* adjacent steps of a tool (the reading of a file and the record of it, the
\* check and the write).
EditsAreInformed == blind \cup misled \cup misread \subseteq raced

-----------------------------------------------------------------------------
\* The invariant it follows from.
Whole == Seq(Lines) \ {<<>>}
Record == [path : Paths, stamp : Nat, full : BOOLEAN, partial : BOOLEAN,
           text : Whole \cup {None}, seen : Whole]
ChangeOf == [path : Paths, old : Whole \cup {None}, new : Whole \cup {None}]

\* A record as old as the file tells what is in it.
RecordTells(r) ==
  /\ r.stamp <= stamp[r.path]
  /\ r.stamp = stamp[r.path] => r.path \in raced \/ r.seen = disk[r.path]
  /\ r.text \in {None, r.seen, SubSeq(r.seen, 1, 1)}
  /\ r.full => r.text \in {None, r.seen}
OneOfEach(l) == \A i, j \in DOMAIN l : l[i].path = l[j].path => i = j
LedgerTells(l) ==
  /\ l \in Seq(Record) /\ OneOfEach(l)
  /\ \A i \in DOMAIN l : RecordTells(l[i])

Knows(l, p, text) == \E i \in DOMAIN l : l[i].path = p /\ l[i].seen = text

Planned == call.stage \in {"asked", "check", "write", "record"}
\* What is to be written is a change of each path once.
PlanHolds ==
  Planned =>
    /\ DOMAIN call = DOMAIN Idle
    /\ call.changes \in Seq(ChangeOf) /\ OneOfEach(call.changes) /\ Len(call.changes) > 0
    /\ call.done \in 0..Len(call.changes)
    /\ call.done > 0 => call.originals \in [Paths -> Whole \cup {None}]
    /\ call.stage \in {"asked", "check"} => call.done = 0
    /\ call.stage = "write" => call.done < Len(call.changes)
    /\ call.stage = "record" => call.done = Len(call.changes)

\* The text a change was computed from is one the agent knows.
AskedOfKnown ==
  call.stage \in {"asked", "check"} =>
    \A i \in DOMAIN call.changes :
      LET c == call.changes[i] IN
      c.old = None \/ c.path \in raced \/ Knows(ledger, c.path, c.old)

\* So is what is there when it is written, and what was written stays until it
\* is recorded.
WritesOfKnown ==
  call.stage \in {"write", "record"} =>
    \A i \in DOMAIN call.changes :
      LET c == call.changes[i] IN
      \/ c.path \in raced
      \/ i <= call.done /\ disk[c.path] = c.new
      \/ /\ i > call.done /\ c.old \in {None, disk[c.path]}
         /\ disk[c.path] # None => Knows(ledger, c.path, disk[c.path])

IInv ==
  /\ disk \in [Paths -> Whole \cup {None}]
  /\ stamp \in [Paths -> Nat] /\ clock \in Nat /\ \A p \in Paths : stamp[p] <= clock
  /\ LedgerTells(ledger) /\ Len(ledger) <= MaxRecords
  /\ call.stage = "read" => /\ call.path \in Paths /\ call.text \in Whole
                            /\ call.path \in raced \/ disk[call.path] = call.text
                            /\ call.ranged \in BOOLEAN
  /\ PlanHolds /\ AskedOfKnown /\ WritesOfKnown
  /\ EditsAreInformed
=============================================================================
