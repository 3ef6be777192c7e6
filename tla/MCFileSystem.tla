---------------------------- MODULE MCFileSystem ----------------------------
(***************************************************************************)
(* Instances of FileSystem for TLC.                                        *)
(***************************************************************************)
EXTENDS FileSystem

Absolute(comps) == [absolute |-> TRUE, comps |-> comps]
Relative(comps) == [absolute |-> FALSE, comps |-> comps]

\* "/a", "a", "/a/b", "/a/", ".."
MCPaths == {Absolute(<<"a">>), Relative(<<"a">>), Absolute(<<"a", "b">>),
            Absolute(<<"a", "">>), Relative(<<"..">>)}
\* An empty text, two blocks of which the second is half full, and two full
\* blocks: the longest a file holds here, and no slot free for an entry.
MCContents == {<<>>, <<"t", "u", "t">>, <<"t", "u", "t", "u">>}
\* A short last chunk reads as an entry of the root, others as nothing.
MCTextInode == [t \in Text |-> IF t = "t" THEN 0 ELSE NotAnInode]

\* For restarts: a text of one slot, and one of two.
GrowingContents == {<<"t">>, <<"t", "t">>}
=============================================================================
