-------------------------------- MODULE Heap --------------------------------
(***************************************************************************)
(* What the memory manager promises its callers, without the block table:  *)
(* a pool of blocks out of which disjoint regions are handed out.  A       *)
(* request is refused only when no vacant run is long enough, a region     *)
(* keeps its content until its owner writes to it, and a resize keeps the  *)
(* common prefix.                                                          *)
(***************************************************************************)
EXTENDS Integers

CONSTANTS PoolSize,   \* number of blocks
          Val,        \* what a block can hold
          Zero,       \* the content of a cleared block
          Nil         \* no block: the null pointer

VARIABLES up,         \* the manager is initialised
          regions,    \* the regions handed out
          content,    \* the content of every block
          answer      \* the last request and the block it was answered with

vars == <<up, regions, content, answer>>

Pool == 0 .. (PoolSize - 1)

Range(b, n) == b .. (b + n - 1)

BlocksOf(r) == Range(r.base, r.len)

Used(R) == UNION {BlocksOf(r) : r \in R}

\* Where a region of n blocks can start.
Vacant(n) == {b \in Pool : Range(b, n) \subseteq Pool \ Used(regions)}

\* The blocks of the regions in R keep their content.
Keeps(R) == \A i \in Used(R) : content'[i] = content[i]

Answer(op, n, b) == [op |-> op, n |-> n, at |-> b]

Init ==
  /\ up = FALSE
  /\ regions = {}
  /\ content \in [Pool -> Val]
  /\ answer = Answer("none", 0, Nil)

Start ==
  /\ ~ up
  /\ up' = TRUE
  /\ UNCHANGED <<regions, content, answer>>

\* A region of n blocks; calloc's holds zeros.
Alloc(op, n) ==
  /\ up /\ n > 0
  /\ \E b \in Vacant(n) :
       /\ regions' = regions \cup {[base |-> b, len |-> n]}
       /\ answer' = Answer(op, n, b)
       /\ op = "calloc" => \A i \in Range(b, n) : content'[i] = Zero
  /\ content' \in [Pool -> Val]
  /\ Keeps(regions)
  /\ UNCHANGED up

Refuse(op, n) ==
  /\ ~ up \/ n = 0 \/ Vacant(n) = {}
  /\ answer' = Answer(op, n, Nil)
  /\ UNCHANGED <<up, regions, content>>

\* The region moves; the old one is given back once the new one is filled.
Resize(n) ==
  /\ up /\ n > 0
  /\ \E r \in regions, b \in Vacant(n) :
       /\ regions' = (regions \ {r}) \cup {[base |-> b, len |-> n]}
       /\ answer' = Answer("realloc", n, b)
       /\ \A j \in Range(0, n) : j < r.len => content'[b + j] = content[r.base + j]
  /\ content' \in [Pool -> Val]
  /\ Keeps(regions)
  /\ UNCHANGED up

\* An address outside the pool cannot be resized.
Reject ==
  /\ answer' = Answer("reject", 0, Nil)
  /\ UNCHANGED <<up, regions, content>>

Release(r) ==
  /\ regions' = regions \ {r}
  /\ UNCHANGED <<up, content, answer>>

Store ==
  /\ \E i \in Used(regions), v \in Val : content' = [content EXCEPT ![i] = v]
  /\ UNCHANGED <<up, regions, answer>>

Next ==
  \/ Start
  \/ \E n \in 0 .. PoolSize :
       \/ \E op \in {"malloc", "calloc"} : Alloc(op, n)
       \/ \E op \in {"malloc", "calloc", "realloc"} : Refuse(op, n)
       \/ Resize(n)
  \/ Reject
  \/ \E r \in regions : Release(r)
  \/ Store

Spec == Init /\ [][Next]_vars
=============================================================================
