-------------------------- MODULE MCVersionControl --------------------------
(***************************************************************************)
(* Instances of VersionControl for TLC.                                    *)
(***************************************************************************)
EXTENDS VersionControl

Path(comps) == [absolute |-> TRUE, comps |-> comps]
FileAndDirectory == {Path(<<"a">>), Path(<<"a", "b">>)}
TwoFiles == {Path(<<"a">>), Path(<<"b">>)}
OneFile == {Path(<<"a">>)}
\* "/a", and "tree" from the working directory.
RelativeName == {Path(<<"a">>), [absolute |-> FALSE, comps |-> <<"tree">>]}
MCContents == {<<"t">>}
MCNames == {".vcs", "commits", "HEAD", "NEXT", "tree", "meta", "a", "b", "c1", "c2", "c3"}
MCText == {"t", "1", "2", "3", "4"}
MCTextInode == [t \in MCText |-> NotAnInode]
MCCommitName == [n \in Ids |-> <<"c1", "c2", "c3">>[n]]
MCIdText == [n \in 1 .. MaxId + 1 |-> <<"1", "2", "3", "4">>[n]]
=============================================================================
