------------------------------ MODULE MCCoreFS ------------------------------
(* Instances of CoreFS for TLC: two-byte blocks, two names of which one is *)
(* a prefix of the other, and three modules to boot with: none, one with a *)
(* directory and a file in it, one with more files than mount slots.       *)
EXTENDS CoreFS

CONSTANTS a, ab, x

D(names) == [names |-> names, dir |-> TRUE]
F(names) == [names |-> names, dir |-> FALSE]

MCNamePrefix == {<<a, a>>, <<ab, ab>>, <<a, ab>>}
MCPaths == {Root, D(<<a>>), F(<<a>>), F(<<ab>>), F(<<a, a>>)}
MCBuffers == {<<>>, <<x, x>>}
MCArchives ==
  { <<>>,
    << [name |-> D(<<a>>), data |-> <<>>], [name |-> F(<<a, a>>), data |-> <<x>>] >>,
    << [name |-> F(<<ab>>), data |-> <<x>>], [name |-> F(<<a>>), data |-> <<>>] >> }
NoArchive == {<<>>}
=============================================================================
