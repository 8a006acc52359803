------------------------------ MODULE FileTree ------------------------------
(***************************************************************************)
(* What the filesystem promises the shell, with no pointers in it: a tree    *)
(* is a function from absolute paths (sequences of names) to directories     *)
(* and files.  A step creates one empty entry, rewrites one file, removes    *)
(* one subtree, or moves one subtree with everything below it unchanged.     *)
(***************************************************************************)
EXTENDS Sequences, SequencesExt

CONSTANT Data             \* what files are made of

VARIABLE tree

Entry == [type : {"file", "dir"}, text : Seq(Data)]

Below(p, paths) == {q \in paths : IsPrefix(p, q)}
IsDir(p) == p \in DOMAIN tree /\ tree[p].type = "dir"

\* Everything outside S is as it was.
Keeps(S) == \A q \in DOMAIN tree \ S : q \in DOMAIN tree' /\ tree'[q] = tree[q]

Init ==
    /\ <<>> \in DOMAIN tree
    /\ \A p \in DOMAIN tree : tree[p] = [type |-> "dir", text |-> <<>>]
    /\ \A p \in DOMAIN tree : p # <<>> => IsDir(Front(p))

Create(p) ==
    /\ p \notin DOMAIN tree /\ p # <<>> /\ IsDir(Front(p))
    /\ DOMAIN tree' = DOMAIN tree \cup {p}
    /\ tree'[p] \in Entry /\ tree'[p].text = <<>>
    /\ Keeps({})

Write(p) ==
    /\ p \in DOMAIN tree /\ ~IsDir(p)
    /\ DOMAIN tree' = DOMAIN tree
    /\ tree'[p] \in Entry /\ tree'[p].type = "file"
    /\ Keeps({p})

Unlink(p) ==
    /\ p \in DOMAIN tree /\ p # <<>>
    /\ DOMAIN tree' = DOMAIN tree \ Below(p, DOMAIN tree)
    /\ Keeps(Below(p, DOMAIN tree))

Move(p, q) ==
    /\ p \in DOMAIN tree /\ p # <<>>
    /\ q \notin DOMAIN tree /\ IsDir(Front(q)) /\ ~IsPrefix(p, q)
    /\ LET moved(r) == q \o SubSeq(r, Len(p) + 1, Len(r))
           gone     == Below(p, DOMAIN tree)
       IN  /\ DOMAIN tree' = (DOMAIN tree \ gone) \cup {moved(r) : r \in gone}
           /\ \A r \in gone : tree'[moved(r)] = tree[r]
           /\ Keeps(gone)

Next ==
    /\ tree' # tree
    /\ \/ \E p \in DOMAIN tree : Write(p) \/ Unlink(p)
       \/ \E q \in DOMAIN tree' \ {<<>>} :
            Create(q) \/ \E p \in DOMAIN tree : Move(p, q)

Spec == Init /\ [][Next]_tree
=============================================================================
