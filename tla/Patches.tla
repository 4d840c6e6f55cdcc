------------------------------ MODULE Patches ------------------------------
(***************************************************************************)
(* How a text is changed in place: the hunks of a patch (apply_patch.py's  *)
(* update_text) one after another, or the exact lines of an edit (edit.py's *)
(* _replace_with_endings).                                                 *)
(*                                                                         *)
(* A line is a value and the way it ends.  A value is a letter and how it  *)
(* is written: exactly so (0), or with more blanks (1), which a patch may   *)
(* disregard.                                                              *)
(***************************************************************************)
EXTENDS Naturals, Sequences, FiniteSets, FiniteSetsExt

CONSTANTS Letters, MaxLines, MaxHunkLines, None

VARIABLES original,      \* the text as it was
          lines,         \* as it is now, with the place each line comes from
          cursor,        \* the lines before it are left alone
          hunks,         \* still to be applied
          removed,       \* places of the lines that went
          outcome        \* "works", "done", "failed"

patchVars == <<original, lines, cursor, hunks, removed, outcome>>

Values == Letters \X {0, 1}
Endings == {"lf", "crlf"}
Exact(x) == <<x, 0>>

\* Texts: lines that end alike, or the first as in another system; the last may
\* have no end.
TextsOf(n) ==
  {[i \in 1..n |-> [v |-> vs[i], e |-> IF i = n /\ ~ended THEN "none" ELSE IF i = 1 THEN first ELSE "lf"]]
   : vs \in [1..n -> Values], first \in Endings, ended \in BOOLEAN}
Texts == UNION {TextsOf(n) : n \in 0..MaxLines}

HunkLine == [op : {"keep", "drop", "add"}, v : Letters]
HunkLines == UNION {[1..n -> HunkLine] : n \in 1..MaxHunkLines}
Hunk(context, ls, eof) == [context |-> context, lines |-> ls, eof |-> eof]

Init ==
  /\ original \in Texts
  /\ lines = [i \in DOMAIN original |-> [v |-> original[i].v, e |-> original[i].e, from |-> i]]
  /\ cursor = 1 /\ removed = {} /\ outcome = "works"
  /\ \E ls \in HunkLines, context \in Letters \cup {None}, eof \in BOOLEAN, op \in {"keep", "drop", "add"}, x \in Letters, more \in BOOLEAN :
       hunks = <<Hunk(context, ls, eof)>> \o IF more THEN <<Hunk(None, <<[op |-> op, v |-> x]>>, FALSE)>> ELSE <<>>

-----------------------------------------------------------------------------
\* _seek: exactly, or else without regard to blanks; nothing is found at the end.
Same(v, x, loosely) == v[1] = x /\ (loosely \/ v[2] = 0)
Found(pattern, start, eof) ==
  LET last == Len(lines) - Len(pattern) + 1
      first == IF eof /\ start < last THEN last ELSE start
      at(loosely) == {i \in first..last : \A j \in DOMAIN pattern : Same(lines[i + j - 1].v, pattern[j], loosely)}
  IN IF pattern = <<>> THEN Len(lines) + 1
     ELSE IF at(FALSE) # {} THEN Min(at(FALSE))
     ELSE IF at(TRUE) # {} THEN Min(at(TRUE)) ELSE None

\* The lines of a hunk by what they say: those that are looked for, that are to
\* be there, that go and that come.
Looked(h) == {k \in DOMAIN h.lines : h.lines[k].op # "add"}
Wanted(h) == {k \in DOMAIN h.lines : h.lines[k].op # "drop"}
Gone(h) == {k \in DOMAIN h.lines : h.lines[k].op = "drop"}
Added(h) == {k \in DOMAIN h.lines : h.lines[k].op = "add"}

\* How many of them there are up to k, and which is the i-th.
Upto(S, k) == Cardinality({x \in S : x <= k})
Nth(S, i) == CHOOSE k \in S : Upto(S, k) = i
InOrder(S) == [i \in 1..Cardinality(S) |-> Nth(S, i)]

\* The ending a text has first.
Ending(text) ==
  LET ends == {i \in DOMAIN text : text[i].e # "none"} IN IF ends = {} THEN "lf" ELSE text[Min(ends)].e

\* A new line ends as the next of those the hunk removes, or as the text does.
NewEnding(h, at, k) ==
  IF Upto(Added(h), k) <= Cardinality(Gone(h))
  THEN lines[at + Upto(Looked(h), Nth(Gone(h), Upto(Added(h), k))) - 1].e ELSE Ending(original)

\* What a line of the hunk puts at its place: a line of the context stays as it is.
Line(h, at, k) ==
  IF h.lines[k].op = "keep" THEN lines[at + Upto(Looked(h), k) - 1]
  ELSE [v |-> Exact(h.lines[k].v), from |-> 0, e |-> NewEnding(h, at, k)]
Replacement(h, at) == [i \in DOMAIN InOrder(Wanted(h)) |-> Line(h, at, Nth(Wanted(h), i))]

Olds(h) == [i \in DOMAIN InOrder(Looked(h)) |-> h.lines[Nth(Looked(h), i)].v]

\* Where a hunk belongs: after its context, and where its lines are found.
PlaceOf(h) ==
  LET context == IF h.context = None THEN cursor ELSE Found(<<h.context>>, cursor, FALSE)
      start == IF h.context = None \/ context = None THEN context ELSE context + 1
  IN IF start = None THEN None ELSE Found(Olds(h), start, h.eof)

\* The lines a hunk has settled are not looked at again.
After(h, at) == at + Cardinality(Wanted(h))

\* The n of l that are at a place give way to those of r.
Spliced(l, r, at, n) == SubSeq(l, 1, at - 1) \o r \o SubSeq(l, at + n, Len(l))

Puts(h, at) ==
  /\ lines' = Spliced(lines, Replacement(h, at), at, Cardinality(Looked(h)))
  /\ removed' = removed \cup {lines[at + Upto(Looked(h), k) - 1].from : k \in Gone(h)}
  /\ cursor' = After(h, at)
  /\ hunks' = Tail(hunks) /\ UNCHANGED outcome

Applies ==
  /\ outcome = "works" /\ hunks # <<>>
  /\ IF PlaceOf(Head(hunks)) = None
     THEN outcome' = "failed" /\ UNCHANGED <<lines, cursor, hunks, removed>>
     ELSE Puts(Head(hunks), PlaceOf(Head(hunks)))
  /\ UNCHANGED original

\* The end of the text is as it was.
Ended ==
  LET whole == original # <<>> /\ original[Len(original)].e # "none" IN
  [i \in DOMAIN lines |->
     [lines[i] EXCEPT !.e = IF i = Len(lines) /\ ~whole THEN "none" ELSE IF @ = "none" THEN Ending(original) ELSE @]]
Finishes ==
  /\ outcome = "works" /\ hunks = <<>>
  /\ outcome' = "done" /\ lines' = Ended
  /\ UNCHANGED <<original, cursor, hunks, removed>>

\* _replace_with_endings, in place of the hunks: each line that is found is
\* replaced, and ends as it did.
Replaces ==
  /\ outcome = "works" /\ Len(hunks) = 1 /\ cursor = 1
  /\ LET ls == Head(hunks).lines
         at == {i \in DOMAIN lines : lines[i].v = Exact(ls[1].v)}
     IN /\ Len(ls) = 2 /\ at # {} /\ Head(hunks).context = None
        /\ lines' = [i \in DOMAIN lines |-> IF i \in at THEN [lines[i] EXCEPT !.v = Exact(ls[2].v), !.from = 0] ELSE lines[i]]
        /\ removed' = at
  /\ outcome' = "done" /\ hunks' = <<>>
  /\ UNCHANGED <<original, cursor>>

Next == Applies \/ Finishes \/ Replaces

Spec == Init /\ [][Next]_patchVars

-----------------------------------------------------------------------------
TypeOK == outcome \in {"works", "done", "failed"} /\ Len(lines) <= MaxLines + MaxHunkLines + 1

\* Where the lines of the text come from.
Places == {lines[i].from : i \in DOMAIN lines} \ {0}

\* A text keeps the lines no change names, in their order, each as it was
\* written and as it ended (but the one that was last), and loses none but
\* those that were to go; it ends in a line's end if it did.
OnlyTheNamedLines ==
  outcome = "done" =>
    /\ \A i, j \in DOMAIN lines : i < j /\ lines[i].from # 0 /\ lines[j].from # 0 => lines[i].from < lines[j].from
    /\ Places \cup (removed \ {0}) = DOMAIN original /\ Places \cap removed = {}
    /\ \A l \in Range(lines) : l.from # 0 =>
         /\ l.v = original[l.from].v
         /\ l.e = original[l.from].e \/ original[l.from].e = "none" \/ l = lines[Len(lines)]
    /\ lines # <<>> /\ original # <<>> => (lines[Len(lines)].e = "none") = (original[Len(original)].e = "none")
    /\ \A i \in DOMAIN lines : i < Len(lines) => lines[i].e # "none"

-----------------------------------------------------------------------------
\* The invariant it follows from.
Piece == [v : Values, e : Endings \cup {"none"}]
Placed == [v : Values, e : Endings \cup {"none"}, from : Nat]
HunkOf == [context : Letters \cup {None}, lines : Seq(HunkLine), eof : BOOLEAN]

\* The lines keep their order, and each place is kept or gone.
InPlace ==
  /\ \A i, j \in DOMAIN lines : i < j /\ lines[i].from # 0 /\ lines[j].from # 0 => lines[i].from < lines[j].from
  /\ Places \cup (removed \ {0}) = DOMAIN original /\ Places \cap removed = {}

\* A line that was there is as it was.
AsWritten ==
  \A i \in DOMAIN lines : lines[i].from # 0 => /\ lines[i].v = original[lines[i].from].v
                                               /\ lines[i].e = original[lines[i].from].e

\* What an edit may replace is the text itself.
Untouched ==
  /\ removed = {} /\ Len(lines) = Len(original)
  /\ \A i \in DOMAIN lines : lines[i].from = i
AtMostTwo ==
  /\ Len(hunks) <= 2 /\ (Len(hunks) = 2 => Len(hunks[2].lines) = 1)
  /\ Len(hunks) = 1 /\ Len(hunks[1].lines) = 2 => Untouched

IInv ==
  /\ original \in Seq(Piece) /\ \A i \in DOMAIN original : i < Len(original) => original[i].e # "none"
  /\ lines \in Seq(Placed) /\ hunks \in Seq(HunkOf) /\ cursor \in Nat \ {0} /\ removed \subseteq Nat
  /\ outcome = "works" => InPlace /\ AsWritten /\ AtMostTwo
  /\ OnlyTheNamedLines
=============================================================================
