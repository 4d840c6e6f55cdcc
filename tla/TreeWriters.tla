---------------------------- MODULE TreeWriters ----------------------------
(***************************************************************************)
(* What WorkspaceLeases promises (symphonai_api/leases.py): "one writer at *)
(* a time per path prefix".  A writer has the tree below its prefix to     *)
(* itself from Begin to End; a second one is refused, it never waits.      *)
(***************************************************************************)
CONSTANTS Writers, Clash(_, _)

VARIABLE writing

Init == writing = {}

Begin(d) ==
    /\ d \notin writing
    /\ \A e \in writing : ~Clash(d, e)
    /\ writing' = writing \cup {d}

End(d) ==
    /\ d \in writing
    /\ writing' = writing \ {d}

Next == \E d \in Writers : Begin(d) \/ End(d)

Spec == Init /\ [][Next]_writing
=============================================================================
