------------------------------ MODULE FileTree ------------------------------
(***************************************************************************)
(* What the core file system promises its callers: a tree of directories   *)
(* and files.  A call either does all of what it is for and answers        *)
(* success, or changes nothing and answers failure.  Files of a mounted    *)
(* archive keep the archive's data for as long as they exist.              *)
(***************************************************************************)
EXTENDS Sequences, Integers

CONSTANTS Paths, Data, Root, Parents(_), Within(_, _), AsDir(_), AsFile(_)

VARIABLES
  stage,  \* "off", "boot", "run" or "stopped"
  tree,   \* path -> the node there
  ok      \* the last call succeeded

vars == <<stage, tree, ok>>

Directory == [kind |-> "dir"]
File(data) == [kind |-> "file", data |-> data]
Mounted(data) == [kind |-> "mounted", data |-> data]

Nodes == {Directory} \cup {File(d) : d \in Data} \cup {Mounted(d) : d \in Data}

\* Every directory on the way exists, and no name is both a file's and a
\* directory's.
WellFormed(t) ==
  \A p \in DOMAIN t : /\ Parents(p) \subseteq DOMAIN t
                      /\ (t[p] = Directory) <=> p.dir
                      /\ p.dir => AsFile(p) \notin DOMAIN t

With(t, p, node) == [q \in DOMAIN t \cup {p} |-> IF q = p THEN node ELSE t[q]]
Without(t, S) == [q \in DOMAIN t \ S |-> t[q]]
Subtree(t, p) == {q \in DOMAIN t : Within(p, q)}

Init == stage = "off" /\ tree = <<>> /\ ok = TRUE

Boot ==
  /\ stage = "off" /\ stage' = "boot"
  /\ tree' = With(tree, Root, Directory)
  /\ UNCHANGED ok

\* An archive adds directories and mounted files.  A mount that fails stops
\* the machine, whatever it has added by then.
Load ==
  /\ stage = "boot"
  /\ DOMAIN tree \subseteq DOMAIN tree' /\ WellFormed(tree')
  /\ \A p \in DOMAIN tree' : tree'[p] \in Nodes /\ (ok' => tree'[p].kind # "file")
  /\ stage' = IF ok' THEN "run" ELSE "stopped"

Stop == stage' = "stopped" /\ UNCHANGED <<tree, ok>>

Mkdir(p) ==
  /\ p.dir /\ p \notin DOMAIN tree /\ AsFile(p) \notin DOMAIN tree
  /\ Parents(p) \subseteq DOMAIN tree
  /\ tree' = With(tree, p, Directory)

Write(p, data) ==
  /\ ~ p.dir /\ AsDir(p) \notin DOMAIN tree
  /\ p \in DOMAIN tree \/ Parents(p) \subseteq DOMAIN tree
  /\ tree' = IF p \in DOMAIN tree /\ tree[p].kind = "mounted" THEN tree
             ELSE With(tree, p, File(data))

Remove(p) ==
  /\ p # Root /\ p \in DOMAIN tree
  /\ p.dir => Subtree(tree, p) = {p}
  /\ tree' = Without(tree, {p})

RemoveTree(p) ==
  /\ p \in DOMAIN tree /\ p.dir
  /\ tree' = Without(tree, Subtree(tree, p))

Done ==
  \/ \E p \in Paths : Mkdir(p) \/ Remove(p) \/ RemoveTree(p)
  \/ \E p \in Paths, data \in Data : Write(p, data)

Call ==
  /\ stage = "run" /\ UNCHANGED stage
  /\ \/ ~ ok' /\ UNCHANGED tree
     \/ ok' /\ Done

Next == Boot \/ Load \/ Stop \/ Call

Spec == Init /\ [][Next]_vars
=============================================================================
