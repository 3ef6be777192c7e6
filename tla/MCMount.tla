------------------------------- MODULE MCMount -------------------------------
(***************************************************************************)
(* Instances of Mount for TLC.                                             *)
(***************************************************************************)
EXTENDS Mount

Absolute(comps) == [absolute |-> TRUE, comps |-> comps]
\* "/a", "/a/b", and a text of one block.
LifePaths == {Absolute(<<"a">>), Absolute(<<"a", "b">>)}
LifeContents == {<<"t">>}
MCTextInode == [t \in Text |-> 0]
=============================================================================
