-------------------------------- MODULE Ramfs --------------------------------
(***************************************************************************)
(* The in-memory filesystem (fs/ramfs.c), the shell commands that change it  *)
(* (shell/commands.c) and the redirection of a command's output to a file    *)
(* (shell/shell.c).  Nodes and buffers are heap objects: a pointer is handed *)
(* out by kmalloc(), which may refuse, and may be handed out again after it  *)
(* was freed.  A path is its list of components, with the length of its text *)
(* and whether a slash ends it.                                              *)
(*                                                                         *)
(* Everything runs in the shell's thread.  ramfs_write() and                 *)
(* redirect_to_file() are steps of their own inside the command that calls   *)
(* them: nothing else is enabled until they are done.                        *)
(***************************************************************************)
EXTENDS Integers, FiniteSets, FiniteSetsExt, Sequences, SequencesExt

CONSTANTS
    NULL, Ptrs, root,     \* pointers; root is the root directory's
    Names, Long,          \* names that fit a node, and names that do not
    Spelled,              \* Spelled[n][k] is the first k characters of n
    RAMFS_NAME_MAX, RAMFS_PATH_MAX,
    Paths,                \* the paths the user types
    PreDirs,              \* the top-level directories ramfs_init() makes
    Texts,                \* what commands print, besides errors
    FirstCapacity,        \* of a file's buffer: 64 bytes in the code
    MaxAlloc,             \* bound: the largest buffer kmalloc() may return
    CAPTURE_MAX,          \* size of the redirection buffer
    CHAIN_MAX             \* length of ramfs_path()'s chain[]: 32 in the code

NoName == ""              \* the root's name
Component == Names \cup Long \cup {".", ".."}
Path == [abs : BOOLEAN, comps : Seq(Component), slash : BOOLEAN, len : Nat]
NL      == "\n"
ErrMsg  == "E"            \* stands for an error message
Garbage == "?"            \* what a fresh buffer holds
Data    == {NL, ErrMsg, "x"}

\* A redirection: its buffer, its target and what was printed so far.
Capture == [buf : Ptrs, path : Paths, append : BOOLEAN, text : Seq(Data)]

ASSUME RamfsAssumption ==
    /\ NULL \notin Ptrs /\ NULL \notin Capture /\ root \in Ptrs /\ IsFiniteSet(Ptrs)
    /\ Names \cap Long = {} /\ {".", ".."} \cap (Names \cup Long) = {}
    /\ Paths \subseteq Path /\ Texts \subseteq Seq(Data)
    /\ PreDirs \in Seq(Names) /\ IsInjective(PreDirs)
    /\ {FirstCapacity, MaxAlloc, CAPTURE_MAX, CHAIN_MAX} \subseteq Nat \ {0}

\* Names are spelled: the last beginning of a name is the name itself.
ASSUME SpellingAssumption ==
    /\ Spelled \in [Names \cup Long \cup {NoName} -> Seq(Component)] /\ Spelled[NoName] = <<>>
    /\ \A n \in Names \cup Long :
         /\ Len(Spelled[n]) > 0
         /\ \A k \in 1 .. Len(Spelled[n]) : Spelled[n][k] = n <=> k = Len(Spelled[n])

\* Names that fit a node, and what is left of the others.
ASSUME RoomAssumption ==
    /\ RAMFS_NAME_MAX \in Nat /\ RAMFS_PATH_MAX \in Nat /\ RAMFS_PATH_MAX >= 2
    /\ \A n \in Names : Len(Spelled[n]) < RAMFS_NAME_MAX
    /\ \A n \in Long : Len(Spelled[n]) >= RAMFS_NAME_MAX /\ Spelled[n][RAMFS_NAME_MAX - 1] \in Names

VARIABLES
    nodes,    \* the live nodes: pointer -> struct ramfs_node
    bufs,     \* the live buffers: pointer -> contents
    cwd,      \* shell_cwd
    job,      \* the ramfs_write() a command is about to make, or NULL
    cap,      \* the redirection in progress, or NULL
    pc        \* "prompt", "run" (in a redirected command), "redirect"

vars == <<nodes, bufs, cwd, job, cap, pc>>

Node == [name : Names \cup {NoName}, type : {"file", "dir"},
         data : Ptrs \cup {NULL}, size : Nat, capacity : Nat,
         parent : Ptrs \cup {NULL}, children : Seq(Ptrs)]

-----------------------------------------------------------------------------
(* The heap.                                                                *)

Allocated == DOMAIN nodes \cup DOMAIN bufs

\* kmalloc(size) returns one of these.
kmalloc(size) == {NULL} \cup (IF size <= MaxAlloc THEN Ptrs \ Allocated ELSE {})

With(f, p, v) == [q \in DOMAIN f \cup {p} |-> IF q = p THEN v ELSE f[q]]
Without(f, S) == [q \in DOMAIN f \ S |-> f[q]]

-----------------------------------------------------------------------------
(* Paths.                                                                   *)

node_new(name, type) ==
    [name |-> name, type |-> type, data |-> NULL, size |-> 0, capacity |-> 0,
     parent |-> NULL, children |-> <<>>]

\* A new child is put first.  nds are the nodes; children and next together
\* are a list of pointers.
attach(nds, dir, n) ==
    [nds EXCEPT ![n].parent = dir, ![dir].children = <<n>> \o @]

detach(nds, n) ==
    [nds EXCEPT ![nds[n].parent].children = RemoveFirst(@, n), ![n].parent = NULL]

find_child(dir, name) ==
    LET i == SelectInSeq(nodes[dir].children, LAMBDA c : nodes[c].name = name)
    IN  IF i = 0 THEN NULL ELSE nodes[dir].children[i]

\* One component of walk().
WalkStep(cur, c) ==
    CASE cur = NULL \/ c \in Long      -> NULL
      [] cur # NULL /\ c = "."         -> cur
      [] cur # NULL /\ c = ".."        -> IF nodes[cur].parent = NULL THEN cur
                                          ELSE nodes[cur].parent
      [] OTHER                         -> IF nodes[cur].type # "dir" THEN NULL
                                          ELSE find_child(cur, c)

ramfs_resolve(path) ==
    FoldLeft(WalkStep, IF path.abs THEN root ELSE cwd, path.comps)

\* The directory part of a path, as walk() finds it for ramfs_create().
Containing(path) == ramfs_resolve([path EXCEPT !.comps = Front(path.comps)])

\* What strlcpy() leaves of a name.
strlcpy(name, size) ==
    IF name = NoName THEN NoName ELSE Spelled[name][Min({Len(Spelled[name]), size - 1})]

\* "/" and a name put behind a path with strlcpy(), in RAMFS_PATH_MAX bytes.
Extended(path, name) ==
    LET room == RAMFS_PATH_MAX - 1 - path.len
        kept == Min({Len(Spelled[name]), room - 1})
    IN  IF kept > 0
        THEN [abs |-> path.abs \/ path.len = 0, comps |-> Append(path.comps, strlcpy(name, room)),
              slash |-> FALSE, len |-> path.len + 1 + kept]
        ELSE [abs |-> path.abs \/ path.len = 0, comps |-> path.comps,
              slash |-> path.slash \/ room > 0, len |-> Min({path.len + 1, RAMFS_PATH_MAX - 1})]

\* Mutant: an existing entry is not noticed.
Creatable_twice(path) ==
    /\ path.comps # <<>> /\ Last(path.comps) \in Names
    /\ Containing(path) # NULL
    /\ nodes[Containing(path)].type = "dir"

\* ramfs_create() gets as far as node_new().
Creatable(path) ==
    /\ path.comps # <<>> /\ Last(path.comps) \in Names
    /\ Containing(path) # NULL
    /\ nodes[Containing(path)].type = "dir"
    /\ find_child(Containing(path), Last(path.comps)) = NULL

ramfs_create(path, type, p) ==
    nodes' = attach(With(nodes, p, node_new(Last(path.comps), type)),
                    Containing(path), p)

Ancestors(n) ==       \* n, its parent, and so on up to the root
    LET up[i \in 1 .. Cardinality(DOMAIN nodes)] ==
            IF i = 1 THEN n
            ELSE LET m == up[i-1]
                 IN  IF m = NULL THEN NULL ELSE nodes[m].parent
    IN  {up[i] : i \in DOMAIN up} \ {NULL}

Subtree(n) ==         \* the nodes free_tree(n) visits
    LET down[i \in 0 .. Cardinality(DOMAIN nodes)] ==
            IF i = 0 THEN {n}
            ELSE LET S == down[i-1]
                 IN  S \cup UNION {Range(nodes[m].children) : m \in S}
    IN  down[Cardinality(DOMAIN nodes)]

\* The names from a node upwards, top-down, at most limit of them.
Climb(n, limit) ==
    LET path[k \in 0 .. limit] ==
            [m \in DOMAIN nodes |->
               IF k = 0 \/ nodes[m].parent = NULL THEN <<>>
               ELSE Append(path[k - 1][nodes[m].parent], nodes[m].name)]
    IN  path[limit][n]

\* The path pwd and the prompt show: chain[] holds CHAIN_MAX nodes and the
\* buffer RAMFS_PATH_MAX bytes; what is over is dropped.
ramfs_path(n) ==
    IF nodes[n].parent = NULL THEN [abs |-> TRUE, comps |-> <<>>, slash |-> TRUE, len |-> 1]
    ELSE FoldLeft(Extended, [abs |-> FALSE, comps |-> <<>>, slash |-> FALSE, len |-> 0],
                  Climb(n, CHAIN_MAX))

Contents(n) ==
    IF nodes[n].data = NULL THEN <<>>
    ELSE SubSeq(bufs[nodes[n].data], 1, nodes[n].size)

-----------------------------------------------------------------------------
(* Initial state.                                                           *)

\* ramfs_init() and the start of shell_run(): the root and its preloaded
\* directories, made in order, each put first.
Init ==
    /\ \E f \in [1 .. Len(PreDirs) -> Ptrs \ {root}] :
         /\ IsInjective(f)
         /\ nodes = FoldLeft(LAMBDA nds, i :
                                attach(With(nds, f[i], node_new(PreDirs[i], "dir")), root, f[i]),
                             [p \in {root} |-> node_new(NoName, "dir")],
                             [i \in DOMAIN f |-> i])
    /\ bufs = <<>>
    /\ cwd = root
    /\ job = NULL /\ cap = NULL /\ pc = "prompt"

-----------------------------------------------------------------------------
(* Commands.                                                                *)

\* A command runs from the prompt or inside a redirection.  print_prompt()
\* and every command follow shell_cwd: nothing is defined once it dangles.
Running == pc \in {"prompt", "run"} /\ job = NULL /\ cwd \in DOMAIN nodes

\* console_putc() while a capture is active: what does not fit is dropped.
Emit(text) ==
    cap' = IF cap = NULL THEN NULL
           ELSE LET t == cap.text \o text
                IN  [cap EXCEPT !.text = SubSeq(t, 1, Min({Len(t), CAPTURE_MAX}))]

\* The command prints and returns to execute().
Return(text) ==
    /\ Emit(text)
    /\ pc' = IF cap = NULL THEN "prompt" ELSE "redirect"

Fail == Return(<<ErrMsg, NL>>) /\ UNCHANGED <<nodes, bufs, cwd, job>>
Done == Return(<<>>)

IsFile(n) == n # NULL /\ nodes[n].type = "file"      \* what want_file() wants

\* echo, ls, pwd and the other commands that only print.
cmd_echo(text) ==
    /\ Running
    /\ Return(text)
    /\ UNCHANGED <<nodes, bufs, cwd, job>>

cmd_cat(path) ==
    /\ Running
    /\ LET f == ramfs_resolve(path)
       IN  IF ~IsFile(f) THEN Fail
           ELSE /\ Return(IF Contents(f) # <<>> /\ Last(Contents(f)) # NL
                          THEN Append(Contents(f), NL) ELSE Contents(f))
                /\ UNCHANGED <<nodes, bufs, cwd, job>>

cmd_cd(path) ==
    /\ Running
    /\ LET n == ramfs_resolve(path)
       IN  IF n = NULL \/ IsFile(n) THEN Fail
           ELSE /\ cwd' = n
                /\ Done
                /\ UNCHANGED <<nodes, bufs, job>>

\* mkdir and touch.  kzalloc() may return NULL.
Make(path, type) ==
    \E p \in kmalloc(1) :
      IF Creatable(path) /\ p # NULL
      THEN /\ ramfs_create(path, type, p)
           /\ Done
           /\ UNCHANGED <<bufs, cwd, job>>
      ELSE Fail

cmd_mkdir(path) == Running /\ Make(path, "dir")

cmd_touch(path) ==
    /\ Running
    /\ IF ramfs_resolve(path) # NULL
       THEN Done /\ UNCHANGED <<nodes, bufs, cwd, job>>
       ELSE Make(path, "file")

ramfs_delete(n) ==
    LET gone == Subtree(n)
    IN  /\ nodes' = Without(detach(nodes, n), gone)
        /\ bufs' = Without(bufs, {nodes[m].data : m \in gone})

cmd_rm(path, recursive) ==
    /\ Running
    /\ LET n == ramfs_resolve(path)
       IN  IF \/ n \in {NULL, cwd, root}
              \/ n # NULL /\ nodes[n].children # <<>> /\ ~recursive
           THEN Fail
           ELSE /\ ramfs_delete(n)
                /\ Done
                /\ UNCHANGED <<cwd, job>>

\* Mutant: a directory may be moved below itself.
Movable_anywhere(n, dir, name) ==
    /\ n # root /\ nodes[dir].type = "dir"
    /\ find_child(dir, name) = NULL

Movable(n, dir, name) ==
    /\ n # root /\ nodes[dir].type = "dir"
    /\ find_child(dir, name) = NULL
    /\ n \notin Ancestors(dir)

\* detach(), rename, attach().  The new name is cut to fit the node.
ramfs_move(n, dir, name) ==
    nodes' = attach([detach(nodes, n) EXCEPT ![n].name = strlcpy(name, RAMFS_NAME_MAX)], dir, n)

\* Behind a last slash there is no name: the directory is the path itself.
split_parent(path) == IF path.slash THEN ramfs_resolve(path) ELSE Containing(path)

cmd_mv(from, to) ==
    /\ Running
    /\ LET src  == ramfs_resolve(from)
           dst  == ramfs_resolve(to)
           into == dst # NULL
           dir  == IF into THEN dst ELSE split_parent(to)
           name == IF into THEN nodes[src].name ELSE Last(to.comps)
       IN  IF src # NULL /\ ~IsFile(dst) /\ dir # NULL /\ Movable(src, dir, name)
           THEN /\ ramfs_move(src, dir, name)
                /\ Done
                /\ UNCHANGED <<bufs, cwd, job>>
           ELSE Fail

-----------------------------------------------------------------------------
(* Writing files.                                                           *)

\* The file at a path, created if there is none, and then ramfs_write().
\* fails is what happens when there is no such file to write to.
OpenAndWrite(path, text, append, fails) ==
    LET f == ramfs_resolve(path)
    IN  IF f # NULL
        THEN IF IsFile(f)
             THEN /\ job' = [file |-> f, text |-> text, append |-> append]
                  /\ UNCHANGED <<nodes, bufs, cwd, cap, pc>>
             ELSE fails
        ELSE \E p \in kmalloc(1) :
               IF Creatable(path) /\ p # NULL
               THEN /\ ramfs_create(path, "file", p)
                    /\ job' = [file |-> p, text |-> text, append |-> append]
                    /\ UNCHANGED <<bufs, cwd, cap, pc>>
               ELSE fails

\* Copying into a directory keeps the source's name, as far as dstpath[] goes.
cmd_cp(from, to) ==
    /\ Running
    /\ LET src  == ramfs_resolve(from)
           dst  == ramfs_resolve(to)
           path == IF dst # NULL /\ ~IsFile(dst)
                   THEN Extended(to, nodes[src].name) ELSE to
       IN  IF IsFile(src) THEN OpenAndWrite(path, Contents(src), FALSE, Fail) ELSE Fail

\* Mutant: the capacity is doubled once, not until it suffices.
Grown_once(capacity, needed) ==
    IF capacity = 0 THEN FirstCapacity ELSE 2 * capacity

\* Capacity for needed bytes, doubling from what the file has.
Grown(capacity, needed) ==
    LET grow[c \in Nat] == IF c >= needed THEN c ELSE grow[2 * c]
    IN  grow[IF capacity = 0 THEN FirstCapacity ELSE capacity]

\* Mutant: appended text lands at the start.
CopyIn_at_start(b, base, text) ==
    [i \in 1 .. Len(b) |-> IF i <= Len(text) THEN text[i] ELSE b[i]]

\* memcpy(buf + base, text, Len(text))
CopyIn(b, base, text) ==
    [i \in 1 .. Len(b) |-> IF i - base \in 1 .. Len(text) THEN text[i - base] ELSE b[i]]

\* After ramfs_write(): back in execute() after cp, or the end of a
\* redirection, which frees the capture buffer.
Written(nds, bfs, text) ==
    /\ nodes' = nds
    /\ job' = NULL
    /\ IF pc = "redirect"
       THEN /\ bufs' = Without(bfs, {cap.buf})
            /\ cap' = NULL /\ pc' = "prompt"
       ELSE bufs' = bfs /\ Return(text)
    /\ UNCHANGED cwd

\* Mutant: the old contents are not copied to the new buffer.
Moved_empty(old, base, newcap) == [i \in 1 .. newcap |-> Garbage]

\* The new buffer with the bytes kept of the old one.
Moved(old, base, newcap) ==
    [i \in 1 .. newcap |-> IF i <= base THEN old[i] ELSE Garbage]

ramfs_write ==
    /\ job # NULL
    /\ LET f      == nodes[job.file]
           old    == IF f.data = NULL THEN <<>> ELSE bufs[f.data]
           base   == IF job.append THEN f.size ELSE 0
           needed == base + Len(job.text)
           newcap == Grown(f.capacity, needed)
       IN  IF needed <= f.capacity
           THEN Written([nodes EXCEPT ![job.file].size = needed],
                        IF f.data = NULL THEN bufs
                        ELSE [bufs EXCEPT ![f.data] = CopyIn(old, base, job.text)],
                        <<>>)
           ELSE \E p \in kmalloc(newcap) :
                  IF p = NULL THEN Written(nodes, bufs, <<ErrMsg, NL>>)
                  ELSE Written([nodes EXCEPT ![job.file].data = p,
                                             ![job.file].size = needed,
                                             ![job.file].capacity = newcap],
                               With(Without(bufs, {f.data}), p,
                                    CopyIn(Moved(old, base, newcap), base, job.text)),
                               <<>>)

\* execute() of "command > path" or "command >> path": the capture buffer,
\* or "rsh: out of memory for redirection".
execute(path, append) ==
    /\ pc = "prompt" /\ Running
    /\ \E p \in kmalloc(CAPTURE_MAX) :
         IF p = NULL THEN UNCHANGED vars
         ELSE /\ bufs' = With(bufs, p, <<>>)
              /\ cap' = [buf |-> p, path |-> path, append |-> append, text |-> <<>>]
              /\ pc' = "run"
              /\ UNCHANGED <<nodes, cwd, job>>

\* Mutant: the capture buffer is not freed when the file cannot be opened.
NoTarget_leaks ==
    cap' = NULL /\ pc' = "prompt" /\ UNCHANGED <<nodes, bufs, cwd, job>>

\* "rsh: cannot write to %s"; back in execute(), kfree(buf).
NoTarget ==
    /\ bufs' = Without(bufs, {cap.buf})
    /\ cap' = NULL /\ pc' = "prompt"
    /\ UNCHANGED <<nodes, cwd, job>>

redirect_to_file ==
    /\ pc = "redirect" /\ job = NULL /\ cwd \in DOMAIN nodes
    /\ OpenAndWrite(cap.path, cap.text, cap.append, NoTarget)

\* shell_cwd dangles: what the kernel does now is undefined, and not modelled.
Undefined == cwd \notin DOMAIN nodes /\ UNCHANGED vars

Next ==
    \/ \E text \in Texts : cmd_echo(text)
    \/ \E path \in Paths :
         \/ cmd_cat(path) \/ cmd_cd(path) \/ cmd_mkdir(path) \/ cmd_touch(path)
         \/ \E recursive \in BOOLEAN : cmd_rm(path, recursive)
         \/ \E append \in BOOLEAN : execute(path, append)
    \/ \E from, to \in Paths : cmd_mv(from, to) \/ cmd_cp(from, to)
    \/ ramfs_write \/ redirect_to_file \/ Undefined

Spec == Init /\ [][Next]_vars

-----------------------------------------------------------------------------
(* Properties.                                                              *)

\* The types, and that a file's size and capacity describe its buffer.
TypeOK ==
    /\ DOMAIN nodes \subseteq Ptrs /\ \A n \in DOMAIN nodes : nodes[n] \in Node
    /\ DOMAIN bufs \subseteq Ptrs \ DOMAIN nodes
    /\ \A b \in DOMAIN bufs : bufs[b] \in Seq(Data \cup {Garbage})
    /\ cwd \in Ptrs /\ pc \in {"prompt", "run", "redirect"}
    /\ (cap = NULL) = (pc = "prompt")
    /\ job # NULL => job.file \in DOMAIN nodes /\ nodes[job.file].type = "file"
    /\ \A n \in DOMAIN nodes :
         /\ nodes[n].size <= nodes[n].capacity
         /\ (nodes[n].data = NULL) = (nodes[n].capacity = 0)
         /\ nodes[n].data # NULL => /\ nodes[n].data \in DOMAIN bufs
                                    /\ Len(bufs[nodes[n].data]) = nodes[n].capacity

\* The nodes form one tree, however they were made, moved and freed: parent
\* and child pointers agree, every node hangs below the root, files are
\* leaves, and no pointer leads to freed memory.
TreeOK ==
    /\ root \in DOMAIN nodes /\ nodes[root].parent = NULL
    /\ \A n \in DOMAIN nodes :
         /\ IsInjective(nodes[n].children)
         /\ Range(nodes[n].children) = {m \in DOMAIN nodes : nodes[m].parent = n}
         /\ root \in Ancestors(n)
         /\ nodes[n].type = "file" => nodes[n].children = <<>>
         /\ nodes[n].type = "dir" => nodes[n].data = NULL

\* No leak and no double free: every buffer on the heap belongs to exactly
\* one file or to the redirection in progress, on every error path too.
Owned ==
    LET files == {n \in DOMAIN nodes : nodes[n].data # NULL}
        held  == IF cap = NULL THEN {} ELSE {cap.buf}
    IN  /\ DOMAIN bufs = {nodes[n].data : n \in files} \cup held
        /\ \A m, n \in files : nodes[m].data = nodes[n].data => m = n
        /\ \A n \in files : nodes[n].data \notin held

\* ramfs_move() and ramfs_create() refuse an existing name ("destination
\* exists", ramfs.c:213): no directory has two entries of one name.
UniqueNames ==
    \A m, n \in DOMAIN nodes :
        nodes[m].parent = nodes[n].parent /\ nodes[m].name = nodes[n].name => m = n

FullPath(n) == Climb(n, Cardinality(DOMAIN nodes))

\* The length of an absolute path as text.
TextLength(comps) == FoldLeft(LAMBDA l, c : l + 1 + Len(Spelled[c]), 0, comps)

\* "Build the absolute path of a node" (ramfs.h:57): resolving the path that
\* pwd and the prompt show leads back to the node exactly when chain[] and the
\* buffer hold the whole path; a path that was cut never does.
PathResolves ==
    \A n \in DOMAIN nodes :
        ramfs_resolve(ramfs_path(n)) = n
        <=> Len(FullPath(n)) <= CHAIN_MAX /\ TextLength(FullPath(n)) < RAMFS_PATH_MAX

\* The working directory is never freed ("refusing to remove the working
\* directory", commands.c:263).
CwdLive == cwd \in DOMAIN nodes

\* A write puts exactly the text behind what it keeps of the file, or, if it
\* needed memory and got none, leaves the file as it was ("cp" and ">" never
\* truncate first); no other file changes.
WriteExact ==
    [][job # NULL /\ job' = NULL =>
         \A n \in DOMAIN nodes :
           LET kept == IF job.append THEN Contents(n) ELSE <<>>
           IN  \/ n = job.file /\ Contents(n)' = kept \o job.text
               \/ n = job.file /\ Len(kept \o job.text) > nodes[n].capacity
                              /\ Contents(n)' = Contents(n)
               \/ n # job.file /\ Contents(n)' = Contents(n)]_vars

\* What the nodes and buffers stand for: each node's entry at its path.
AsTree ==
    [p \in {FullPath(n) : n \in DOMAIN nodes} |->
       LET n == CHOOSE n \in DOMAIN nodes : FullPath(n) = p
       IN  [type |-> nodes[n].type, text |-> Contents(n)]]

Tree == INSTANCE FileTree WITH tree <- AsTree

\* The commands implement the abstract tree: each creates, rewrites, removes
\* or moves one entry, and a failed command changes nothing.
FileTreeHolds == Tree!Spec

=============================================================================
