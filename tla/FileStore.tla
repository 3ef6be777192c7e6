----------------------------- MODULE FileStore ------------------------------
(***************************************************************************)
(* What the file system promises about file contents, without blocks: an   *)
(* inode holds no file ({}), or one with a text ({text}).  A write empties *)
(* the file and then fills it with the text it was given, or gives up,     *)
(* when the disk is full, and leaves it empty.                             *)
(***************************************************************************)
CONSTANTS Inodes, Contents
VARIABLES
  content,  \* what each inode holds
  writing   \* the write under way: {}, or {<<inode, text>>}

Set(i, from, to) == content[i] = from /\ content' = [content EXCEPT ![i] = to]
Empty == {<<>>}

Init == content = [i \in Inodes |-> {}] /\ writing = {}

Create(i) == Set(i, {}, Empty) /\ UNCHANGED writing

BeginWrite(i, text) ==
  /\ writing = {} /\ writing' = {<<i, text>>}
  /\ \E old \in content[i] : Set(i, {old}, Empty)
EndWrite ==
  /\ \E w \in writing : Set(w[1], Empty, {w[2]})
  /\ writing' = {}
AbandonWrite == writing # {} /\ writing' = {} /\ UNCHANGED content

\* A file is emptied, then removed.
Truncate(i) == (\E old \in content[i] : Set(i, {old}, Empty)) /\ UNCHANGED writing
Remove(i) == Set(i, Empty, {}) /\ UNCHANGED writing

Next ==
  \/ \E i \in Inodes : Create(i) \/ Truncate(i) \/ Remove(i)
  \/ \E i \in Inodes, text \in Contents : BeginWrite(i, text)
  \/ EndWrite \/ AbandonWrite

Spec == Init /\ [][Next]_<<content, writing>>
=============================================================================
