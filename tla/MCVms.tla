--------------------------------- MODULE MCVms ---------------------------------
(***************************************************************************)
(* Instances of Vms for TLC.                                               *)
(***************************************************************************)
EXTENDS VmsRefinement

\* One data page, and two data pages below one L0 table.
OnePage == {<<0, 0, 0>>}
TwoPages == {<<0, 0, 0>>, <<0, 0, 1>>}
OneOrTwoPages == {OnePage, TwoPages}
OnlyOnePage == {OnePage}

ReadWrite == {{"read", "write"}}
AnyPerms == {{"read"}, {"write"}, {"read", "write"}}

\* Clients that use one kind of fork, and those that use both.
OneKindOfFork == {{"cow"}, {"copy", "discard"}}
CowAndDiscard == {{"cow", "discard"}}
OnlyCow == {{"cow"}}
BothForks == {{"copy", "cow"}}
================================================================================
