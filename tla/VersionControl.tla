--------------------------- MODULE VersionControl ---------------------------
(***************************************************************************)
(* The version control of vcs/*.c: init, commit, checkout and log, over    *)
(* the file system of FileSystem.  All its state is in files:              *)
(*                                                                         *)
(*   /.vcs/HEAD               the commit the working tree came from        *)
(*   /.vcs/NEXT               the number of the next commit                *)
(*   /.vcs/commits/<id>/tree  the copy of the working tree                 *)
(*   /.vcs/commits/<id>/meta  its id, its parent and a message             *)
(*                                                                         *)
(* A command is a list of jobs, done one after the other: a job makes one  *)
(* call of the file system, or puts further jobs in its own place, as the  *)
(* recursive functions of the code do.  The first job that fails ends the  *)
(* command, and nothing of what it did is undone.                          *)
(***************************************************************************)
EXTENDS FileSystem

CONSTANTS
  MaxId,        \* bound: no commit has a larger number
  MaxCommands,  \* bound: as many commands and deaths of the program
  CommitName,   \* the name of a commit's directory, by its number
  IdText        \* what HEAD, NEXT and a meta file hold for a number

Ids == 1 .. MaxId

ASSUME IdsAssumption ==
  /\ MaxId \in Nat \ {0} /\ MaxCommands \in Nat
  /\ CommitName \in [Ids -> Names] /\ IsInjective(CommitName)
  /\ \A n \in Ids : CommitName[n] \notin {"", ".", "..", ".vcs"}
  /\ IdText \in [1 .. MaxId + 1 -> Text] /\ IsInjective(IdText)
  /\ {".vcs", "commits", "HEAD", "NEXT", "tree", "meta"} \subseteq Names
  \* A meta file fits: a number and a parent's.
  /\ 2 <= MAX_BLOCKS_PER_INODE * ENTRIES_PER_BLOCK

VARIABLES
  command,  \* the running command and its commit's number
  todo,     \* its jobs
  typed     \* how many commands the user has typed

vcs_vars == <<vars, command, todo, typed>>

NoCommand == [name |-> "none", id |-> 0]

VcsInit == Init /\ command = NoCommand /\ todo = <<>> /\ typed = 0

-----------------------------------------------------------------------------
(* Paths and texts.                                                        *)

Root == [absolute |-> TRUE, comps |-> <<"">>]
vcs_path_join(path, name) ==
  [path EXCEPT !.comps = IF path = Root THEN <<name>> ELSE Append(@, name)]

Repository == vcs_path_join(Root, ".vcs")
Commits == vcs_path_join(Repository, "commits")
HEAD == vcs_path_join(Repository, "HEAD")
NEXT == vcs_path_join(Repository, "NEXT")
CommitDir(n) == vcs_path_join(Commits, CommitName[n])
TreeDir(n) == vcs_path_join(CommitDir(n), "tree")
MetaFile(n) == vcs_path_join(CommitDir(n), "meta")

\* The text of a file as a set, empty when the path does not resolve to an inode
\* in use.  A directory reads as an empty text.
vcs_read_text(path) ==
  {fs_read(i) : i \in {j \in Inodes \intersect {fs_lookup_path(path)} : inode_table[j].used}}

\* atoi makes 0 of an empty text, and no commit has a number below 1.
IdOf(text) == IF text = <<>> THEN 1 ELSE CHOOSE n \in DOMAIN IdText : IdText[n] = text[1]

\* A meta file is the id and, if there is one, the parent.
MetaText(n, parent) == <<IdText[n]>> \o parent
MetaParent(meta) == IF meta = <<>> THEN <<>> ELSE Tail(meta)

\* The entries of a directory, in the order of its slots, without some names.
IsDirectory(i) == i \in Inodes /\ inode_table[i].used /\ inode_table[i].type = DIR_TYPE
Listed(d, skipped) ==
  LET count == inode_table[d].block_count * ENTRIES_PER_BLOCK
      \* list[n] is what the first n slots hold.
      list[n \in 0 .. count] ==
        LET entry == SlotAt(d, <<((n - 1) \div ENTRIES_PER_BLOCK) + 1,
                                 ((n - 1) % ENTRIES_PER_BLOCK) + 1>>)
        IN  IF n = 0 THEN <<>>
            ELSE IF entry.name \in skipped THEN list[n - 1]
            ELSE Append(list[n - 1], [name |-> entry.name,
                                      type |-> inode_table[entry.inode_index].type])
  IN  list[count]
list_dir(d) == Listed(d, {""})

\* What commit copies of the root directory, and what checkout deletes there;
\* the bad ones forget the last entry, or that .vcs is not part of the tree.
BadCommitted == IF Listed(0, {"", ".vcs"}) = <<>> THEN <<>> ELSE Front(Listed(0, {"", ".vcs"}))
BadCommittedAll == list_dir(0)
Committed == Listed(0, {"", ".vcs"})
BadClearedByCheckout == list_dir(0)
ClearedByCheckout == Listed(0, {"", ".vcs"})

-----------------------------------------------------------------------------
(* Jobs.                                                                   *)

Ensure(path, type) == [do |-> "ensure", path |-> path, type |-> type]
Expect(path) == [do |-> "expect", path |-> path]
Put(path, text) == [do |-> "put", path |-> path, text |-> text]
Expect0 == [do |-> "expect 0"]
CopyFile(path, to) == [do |-> "copy file", path |-> path, to |-> to]
CopyTree(path, to) == [do |-> "copy tree", path |-> path, to |-> to]
CopyEntries(i, path, to) == [do |-> "copy entries", dir |-> i, path |-> path, to |-> to]
CopyRoot(to) == [do |-> "copy root", to |-> to]
DeleteTree(path) == [do |-> "delete tree", path |-> path]
RemoveJob(path) == [do |-> "remove", path |-> path]
ClearRoot == [do |-> "clear root"]
WriteMeta(n) == [do |-> "write meta", id |-> n]
ShowCommit(n) == [do |-> "show commit", id |-> n]

vcs_write_text(path, text) == <<Ensure(path, FILE_TYPE), Put(path, text)>>

Perform(jobs) ==
  /\ todo' = jobs
  /\ command' = IF jobs = <<>> THEN NoCommand ELSE command
  /\ UNCHANGED typed
\* The job is done, up to these.
Continue(jobs) == Perform(jobs \o Tail(todo))
Fail == Perform(<<>>)
ContinueIf(condition, jobs) == IF condition THEN Continue(jobs) ELSE Fail

Doing(what) == pc = "idle" /\ todo # <<>> /\ Head(todo).do = what
Job == Head(todo)

\* vcs_ensure_exists takes whatever the path resolves to; after fs_create it
\* does not look at the result but resolves the path again.
AlreadyExists ==
  /\ Doing("ensure") /\ fs_lookup_path(Job.path) # -1
  /\ Continue(<<>>) /\ UNCHANGED vars
EnsureExists ==
  /\ Doing("ensure") /\ fs_lookup_path(Job.path) = -1
  /\ CreateRefused(Job.path) \/ Create(Job.path, Job.type)
  /\ Continue(<<Expect(Job.path)>>)
Resolved ==
  /\ Doing("expect")
  /\ ContinueIf(fs_lookup_path(Job.path) # -1, <<>>) /\ UNCHANGED vars

PutText ==
  /\ Doing("put")
  /\ WriteRefused(Job.path) \/ Write(Job.path, Job.text)
  /\ Continue(<<Expect0>>)
RemoveEntry ==
  /\ Doing("remove")
  /\ DeleteRefused(Job.path) \/ Delete(Job.path)
  /\ Continue(<<Expect0>>)
\* fs_write or fs_delete has returned.
Succeeded == Doing("expect 0") /\ ContinueIf(ret = 0, <<>>) /\ UNCHANGED vars

\* The file is read before the copy is created.
copy_file ==
  /\ Doing("copy file")
  /\ LET text == vcs_read_text(Job.path) IN
       \/ text = {} /\ Fail
       \/ \E t \in text : Continue(vcs_write_text(Job.to, t))
  /\ UNCHANGED vars

\* The source is resolved before the target is created, and listed after it.
copy_tree ==
  /\ Doing("copy tree")
  /\ LET i == fs_lookup_path(Job.path) IN
       ContinueIf(i # -1, <<Ensure(Job.to, DIR_TYPE), CopyEntries(i, Job.path, Job.to)>>)
  /\ UNCHANGED vars

Copies(entries, path, to) ==
  [n \in DOMAIN entries |->
    LET from == vcs_path_join(path, entries[n].name)
        target == vcs_path_join(to, entries[n].name)
    IN  IF entries[n].type = DIR_TYPE THEN CopyTree(from, target) ELSE CopyFile(from, target)]
copy_entries ==
  /\ Doing("copy entries")
  /\ IF IsDirectory(Job.dir) THEN Continue(Copies(list_dir(Job.dir), Job.path, Job.to)) ELSE Fail
  /\ UNCHANGED vars
copy_root == Doing("copy root") /\ Continue(Copies(Committed, Root, Job.to)) /\ UNCHANGED vars

Deletions(entries, path) ==
  [n \in DOMAIN entries |-> DeleteTree(vcs_path_join(path, entries[n].name))]
delete_tree ==
  /\ Doing("delete tree")
  /\ LET i == fs_lookup_path(Job.path) IN
       \/ i = -1 /\ Fail
       \/ i # -1 /\ inode_table[i].type = FILE_TYPE /\ Continue(<<RemoveJob(Job.path)>>)
       \/ i # -1 /\ inode_table[i].type = DIR_TYPE
          /\ IF IsDirectory(i)
             THEN Continue(Deletions(list_dir(i), Job.path) \o <<RemoveJob(Job.path)>>) ELSE Fail
  /\ UNCHANGED vars
clear_root_except_vcs ==
  Doing("clear root") /\ Continue(Deletions(ClearedByCheckout, Root)) /\ UNCHANGED vars

\* The parent is what HEAD holds now, nothing if it cannot be read.
write_meta ==
  /\ Doing("write meta")
  /\ LET head == vcs_read_text(HEAD)
         parent == IF head = {} THEN <<>> ELSE CHOOSE text \in head : TRUE
     IN  Continue(vcs_write_text(MetaFile(Job.id), MetaText(Job.id, parent)))
  /\ UNCHANGED vars

\* One turn of the loop of vcs_log, and what it goes on with; the bad one
\* forgets to move to the parent.
BadHistory(n, meta) == IF MetaParent(meta) = <<>> THEN <<>> ELSE <<ShowCommit(n)>>
History(n, meta) ==
  IF MetaParent(meta) = <<>> THEN <<>> ELSE <<ShowCommit(IdOf(MetaParent(meta)))>>
show_commit ==
  /\ Doing("show commit")
  /\ LET meta == vcs_read_text(MetaFile(Job.id)) IN
       \/ meta = {} /\ Fail
       \/ \E text \in meta : Continue(History(Job.id, text))
  /\ UNCHANGED vars

JobStep ==
  \/ AlreadyExists \/ EnsureExists \/ Resolved \/ PutText \/ RemoveEntry \/ Succeeded
  \/ copy_file \/ copy_tree \/ copy_entries \/ copy_root
  \/ delete_tree \/ clear_root_except_vcs \/ write_meta \/ show_commit

-----------------------------------------------------------------------------
(* Commands.                                                               *)

Prompt == pc = "idle" /\ todo = <<>> /\ typed < MaxCommands
Start(name, n, jobs) ==
  /\ Prompt
  /\ command' = [name |-> name, id |-> n] /\ todo' = jobs /\ typed' = typed + 1
  /\ UNCHANGED vars

vcs_init ==
  Start("init", 0, <<Ensure(Repository, DIR_TYPE), Ensure(Commits, DIR_TYPE)>>
                   \o vcs_write_text(HEAD, <<>>) \o vcs_write_text(NEXT, <<IdText[1]>>))

\* The last files of a commit.  The bad one sets HEAD before the rest is there;
\* the other bad one forgets to count.
SetHead(n) == vcs_write_text(HEAD, <<IdText[n]>>)
BadSetNext(n) == vcs_write_text(NEXT, <<IdText[n]>>)
SetNext(n) == vcs_write_text(NEXT, <<IdText[n + 1]>>)
BadCommitJobs(n) ==
  SetHead(n) \o <<Ensure(CommitDir(n), DIR_TYPE), Ensure(TreeDir(n), DIR_TYPE),
                  CopyRoot(TreeDir(n)), WriteMeta(n)>> \o SetNext(n)
CommitJobs(n) ==
  <<Ensure(CommitDir(n), DIR_TYPE), Ensure(TreeDir(n), DIR_TYPE),
    CopyRoot(TreeDir(n)), WriteMeta(n)>> \o SetHead(n) \o SetNext(n)

\* Refused, before it has changed anything, without a repository or NEXT.
vcs_commit ==
  /\ Prompt
  /\ fs_lookup_path(Repository) # -1
  /\ \E text \in vcs_read_text(NEXT) :
       LET n == IdOf(text) IN n \in Ids /\ Start("commit", n, CommitJobs(n))

\* Refused when the commit has no tree.
vcs_checkout(n) ==
  /\ fs_lookup_path(TreeDir(n)) # -1
  /\ Start("checkout", n, <<ClearRoot, CopyTree(TreeDir(n), Root)>> \o SetHead(n))

\* Says "no commits" when there is no HEAD or nothing in it.
vcs_log ==
  /\ Prompt
  /\ \E text \in vcs_read_text(HEAD) :
       text # <<>> /\ Start("log", IdOf(text), <<ShowCommit(IdOf(text))>>)

\* What a user does to the working tree between two of these.
Typed == Prompt /\ typed' = typed + 1 /\ UNCHANGED <<command, todo>>
CreateFile(path) == handle_create(path) /\ Typed
Edit(path) == (handle_delete(path) \/ handle_write(path)) /\ Typed
ChangeDirectory(path) == handle_cd(path) /\ Typed

FileSystemStep == Step /\ UNCHANGED <<command, todo, typed>>

Progress == JobStep \/ FileSystemStep

VcsNext ==
  \/ Progress
  \/ vcs_init \/ vcs_commit \/ vcs_log \/ \E n \in Ids : vcs_checkout(n)
  \/ \E path \in Paths : CreateFile(path) \/ Edit(path) \/ ChangeDirectory(path)

\* The paths of the working tree.
TreeFiles == {path \in Paths :
  path.absolute /\ \A k \in DOMAIN path.comps : path.comps[k] \notin {"", ".", "..", ".vcs"}}

\* A user who creates, deletes and writes files by these paths alone.  cd may
\* lead anywhere, as no such path starts at the working directory.
TreeUserNext ==
  \/ Progress
  \/ vcs_init \/ vcs_commit \/ vcs_log \/ \E n \in Ids : vcs_checkout(n)
  \/ \E path \in TreeFiles : CreateFile(path) \/ Edit(path)
  \/ \E path \in Paths : ChangeDirectory(path)

\* The program dies between two calls and is started again.  Only where the
\* disk has all that memory has: elsewhere the restart itself loses data, which
\* is FileSystem's matter.
Saved == \A i \in Inodes : Meaning(inode_table, i) = Meaning(table, i)
DieAndRestart ==
  /\ Saved /\ Restart
  /\ typed < MaxCommands /\ typed' = typed + 1
  /\ todo' = <<>> /\ command' = NoCommand

\* One who also runs init first, and once, creates no second entry of a name, and
\* does not cd.
Initialised == fs_lookup_path(Repository) # -1
CarefulNext ==
  \/ Progress
  \/ ~Initialised /\ vcs_init
  \/ vcs_commit \/ vcs_log \/ \E n \in Ids : vcs_checkout(n)
  \/ \E path \in TreeFiles :
       /\ Initialised
       /\ Edit(path) \/ (fs_lookup_path(path) = -1 /\ CreateFile(path))

VcsSession == VcsInit /\ [][VcsNext]_vcs_vars
FairVcsSession == VcsSession /\ WF_vcs_vars(Progress)
CarefulUse == VcsInit /\ [][CarefulNext]_vcs_vars /\ WF_vcs_vars(Progress)
TreeUserSpec == VcsInit /\ [][TreeUserNext \/ DieAndRestart]_vcs_vars

-----------------------------------------------------------------------------
(* Properties.                                                             *)

\* What a tree shows at the paths users name: nothing, a directory, or a text.
Node == [i \in Inodes \union {-1} |->
  IF i = -1 THEN <<>>
  ELSE IF inode_table[i].type = DIR_TYPE THEN <<DIR_TYPE>>
  ELSE <<FILE_TYPE>> \o fs_read(i)]
Below(path, comps) == [path EXCEPT !.comps = IF path = Root THEN comps ELSE @ \o comps]
TreePaths == {path.comps : path \in TreeFiles}
TreeAt(path) == [comps \in TreePaths |-> Node[fs_lookup_path(Below(path, comps))]]
WorkingTree == TreeAt(Root)
Tree(n) == TreeAt(TreeDir(n))

\* HEAD has got a new text; HEAD names a commit.
HeadWritten == WriteDone /\ arg.ino = fs_lookup_path(HEAD)
HeadIs(n) == arg.data = <<IdText[n]>>

\* The number HEAD names: 0 for none, -1 while HEAD is being rewritten.
Moving == -1
HeadId ==
  IF pc \in {"free", "alloc", "put"} /\ arg.ino = fs_lookup_path(HEAD) THEN Moving
  ELSE IF vcs_read_text(HEAD) \subseteq {<<>>} THEN 0
  ELSE IdOf(CHOOSE text \in vcs_read_text(HEAD) : TRUE)

\* A commit is there once its meta file is written.
Snapshot(n) ==
  {[tree |-> Tree(n), parent |-> IF MetaParent(meta) = <<>> THEN 0 ELSE IdOf(MetaParent(meta))]
     : meta \in vcs_read_text(MetaFile(n)) \ {<<>>}}

\* Used with care, and with room for all of it, the repository is a
\* SnapshotStore: a commit is the working tree at its time and never changes,
\* and HEAD moves only to a commit that is the working tree.
Snapshots == INSTANCE SnapshotStore WITH
  work <- WorkingTree, snapshots <- [n \in Ids |-> Snapshot(n)], head <- HeadId
ImplementsSnapshotStore == Snapshots!Spec

\* Every command ends: commit and checkout walk finite trees and log a finite
\* chain of parents.
CommandsEnd == (todo # <<>>) ~> (todo = <<>>)

\* Used with care, and with room for all of it, no commit and no checkout ends
\* before its work is done: HEAD names its commit then.  A commit that copied
\* .vcs too would copy its own copy until the disk is full.
CommandsSucceed ==
  [][command.name \in {"commit", "checkout"} /\ todo' = <<>> => HeadId' = command.id]_vcs_vars

\* Whatever failed before, leftovers of failed commits and numbers used again
\* included: when HEAD moves to a commit, every file of the working tree is in
\* the commit's tree, and after a checkout the two trees are equal.
HeadFollowsCopy ==
  [][\A n \in Ids : HeadWritten /\ HeadIs(n) =>
       /\ \A comps \in TreePaths :
            WorkingTree[comps] # <<>> /\ WorkingTree[comps][1] = FILE_TYPE =>
              Tree(n)[comps] = WorkingTree[comps]
       /\ command.name = "checkout" => Tree(n) = WorkingTree]_vcs_vars

\* HEAD is empty or names a commit with a tree: checkout of HEAD finds one.
HeadHasTree ==
  HeadId \in Ids => fs_lookup_path(TreeDir(HeadId)) # -1

\* The trees are touched by those who should: a commit's tree by a commit of
\* that number, the working tree by the user's edits and by checkout.
TreesKept ==
  [][/\ \A n \in Ids : Tree(n)' # Tree(n) => command = [name |-> "commit", id |-> n]
     /\ WorkingTree' # WorkingTree => command.name \in {"none", "checkout"}]_vcs_vars

-----------------------------------------------------------------------------
(* What the repository says of version control and it does not do.         *)

\* commit.c:260, "Creates a new commit snapshot of the current filesystem".
CommitIsSnapshot ==
  [][\A n \in Ids : HeadWritten /\ HeadIs(n) /\ command.name = "commit" =>
       Tree(n) = WorkingTree]_vcs_vars

\* log.c:59, "Prints the commit history starting from HEAD and walking through
\* parent links", to the commit without one (log.c:96).
LogEnds == (command.name = "log") ~> (command.name # "log")

\* README.md:7, "allowing previous filesystem states to be saved and restored":
\* what a commit has saved under its number stays there to be restored.
CommitsKeepTrees ==
  [][\A n \in Ids : fs_lookup_path(TreeDir(n)) # -1 => fs_lookup_path(TreeDir(n))' # -1]_vcs_vars

=============================================================================
