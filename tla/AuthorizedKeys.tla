--------------------------- MODULE AuthorizedKeys ---------------------------
(***************************************************************************)
(* administrators_authorized_keys, the file that grants SSH access to the  *)
(* machine, as the set of its lines.  The agent shares it with other       *)
(* administrators: installAuthorizedKey reads the file, drops the line it  *)
(* has tagged before and writes everything back with its new one.          *)
(***************************************************************************)

CONSTANT OthersKeys   \* keys that other administrators have put in the file

Line(k, tagged) == [key |-> k, motech |-> tagged]
OthersLines == {Line(k, FALSE) : k \in OthersKeys}

(* The keys that the lines of the agent grant access to.                   *)
MotechKeys(file) == {l.key : l \in {m \in file : m.motech}}

(* Mutants: the former line stays; only our line is written.               *)
MergeKeepingOldLine(file, k) == file \cup {Line(k, TRUE)}
MergeDroppingOthers(file, k) == {Line(k, TRUE)}

Merge(file, k) == {l \in file : ~l.motech} \cup {Line(k, TRUE)}
=============================================================================
