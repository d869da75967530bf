# Verification of fstree

fstree stores a directory tree in a cache of objects named by their digests, shares it
with other machines through a remote, and writes it back to a workspace. This directory
holds TLA+ models of its parts, the TLC configurations that check them, and proofs that
TLAPS checks. Paths below are relative to the repository; `cache.cpp` stands for
`src/cache.cpp`, and so on. `PROJECT.json` has the lines of code that each definition
models.

Contents: [1 the system](#1-the-system), [2 modules](#2-modules),
[3 runs](#3-runs), [4 findings](#4-what-the-runs-found),
[5 proofs](#5-proofs), [6 limits](#6-what-is-left-out), [7 plan](#7-plan).

## 1 The system

A command (`main.cpp`) composes the operations of four classes. Everything parallel runs
on one static pool of threads, and everything shared between processes goes through the
files of the cache and one lock file.

| component | state | operations | used by |
|---|---|---|---|
| thread pool (`thread_pool.cpp`, `semaphore.hpp`) | queue, permits, stop flag, workers | enqueue, enqueue_or_run, start, stop | scan, add, pull, push, evict |
| wait group (`wait_group.hpp`) | count, first exception | add, done, exception, wait_rethrow | every caller that enqueues jobs |
| directory scan (`directory_iterator_posix.cpp`) | list of inodes, tree of inodes | read_directory, as one job per directory | refresh, checkout |
| object cache (`cache.cpp`) | files `objects/xx/...`, their times, temporary files | add, create_file, create_dirtree, has_object, has_tree, pull_object, pull_tree, evict | every command, in many processes |
| lock file (`lock_file_posix.cpp`) | flock of `lock` | lock, unlock | add, evict |
| push (`cache.cpp`) | trees to check, a wait group | one job per digest | push, write-tree-push |
| pull, index_from_tree (`cache.cpp`) | the trees of a level, the index made, a wait group | jobs per tree, then jobs per file | pull, checkout, push |
| remote (`remote_jolt.cpp`, `remote_http.cpp`) | the objects of the server | has_tree, has_object, read_object, write_object | push, pull |
| index (`index.cpp`, `inode.cpp`) | sorted inodes with digest, mode, time; dirty = no digest | load, save, refresh, add (digests), checkout, merge, copy_metadata, glob | the commands |
| ignore patterns (`glob_list.cpp`) | compiled patterns | load, match | scan |
| glob (`index.cpp`) | none, or a list of inodes found | glob, split_glob_pattern, glob_match_node, glob_match_segment | the Python bindings |
| digests, status bits, URLs | none | parse, format | all |
| commands (`main.cpp`), Python bindings (`src/python`) | none | sequences of the above | the user |
| events, argument parser, hash functions, reference counts, Windows variants | | | |

How they interact:

* `write-tree` loads the index of the last run, scans the workspace (scan, pool), keeps
  the digests of what has not changed (refresh), stores files and then trees from the
  leaves to the root (add, lock file), saves the index and starts an eviction in another
  process.
* `push` walks the tree in the cache (index_from_tree) and sends what the remote lacks.
* `pull` fetches trees level by level and the files of each level.
* `checkout` compares the workspace, scanned again, with the tree and writes the difference.
* `evict` removes the oldest objects of each subdirectory while other processes work.

What is hard about each, and what makes it correct:

* **Pool and scan.** Workers block in `wait_rethrow` for jobs that the same pool has to
  run; only the permits of `enqueue_or_run` keep that from being a deadlock. Notification
  is outside the critical section. Jobs refer to a wait group on the stack of their
  parent. *Correct* when permits are conserved, no wakeup is lost, no job outlives its
  wait group, every entry is listed once before the constructor returns, failures reach
  the caller, and the scan ends.
* **Push.** The remote can only say what is missing below trees it has; trees are sent
  before what is below them; other clients send meanwhile; a push may have been
  interrupted. *Correct* when nothing missing is forgotten, push returns only when the
  remote has all of the tree, nothing uses its locals afterwards, and it ends.
* **Object cache.** Objects are shared by processes that add, pull and evict. Files are
  copied to their final name with the lock held, trees and downloads are renamed without
  it, evictions act on an old listing. *Correct* when what an operation said is stored
  stays for the retention period and is what was hashed, and when trees are never seen
  in part.
* **Pull.** The jobs of a level count further jobs on the wait group of the level, share
  the vectors on the stack of the caller, and read trees that others evict. *Correct* when
  every inode is in the index once, nothing is missing when it returns, no job is left
  when it returns or throws, and it ends.
* **Index refresh and write-tree.** A digest is reused when the metadata agree with an
  index that an earlier command saved, perhaps one that failed halfway; the user edits
  meanwhile, and objects that the index names have been evicted. *Correct* when the tree
  printed is the workspace's, everything below it is in the cache, and the index saved
  never says that a file has a content it has not, as long as the cache has what the
  digests say: a file that is written while it is being stored breaks that.
* **Checkout.** A walk in step over the sorted lists of the workspace and of the tree,
  with the order of the strings (`a-b` is between `a` and `a/b`), types that change, and
  symlinks in place of directories, which other paths then lead through. *Correct* when
  the workspace is the tree afterwards, whatever an earlier checkout has left.
* **Merge.** Sequential: a recursive union whose list is no longer sorted, over digests
  that belong to each workspace alone. *Correct* when the tree is that of the workspaces
  laid over each other.
* **Glob and ignore patterns.** One language, implemented as a search with a loop that
  goes back, and as regular expressions. *Correct* when each finds what the patterns
  denote, and the two agree.

`PROJECT.json` lists the hazards, each at its line, with the properties that would catch
it, or the reason why none does.

## 2 Modules

```
ThreadPool <- DirScan <- DirScanProofs             MCDirScan (TLC)
                  |-- INSTANCE TreeScan
Push -- INSTANCE Upload         PushProofs         MCPush (TLC)
Pull -- INSTANCE Download       PullProofs         MCPull (TLC)
ObjectCache                     ObjectCacheProofs  MCObjectCache (TLC)
Tree <- WriteTree <- Checkout                      MCCheckout (TLC)
     <- Merge <- MergeIndex                        MCMergeIndex (TLC)
              <- TreeProofs -- INSTANCE Recursion
IndexProofs EXTENDS Checkout, MergeIndex, TreeProofs
GlobSegment <- Glob             GlobProofs         MCGlob (TLC)
```

`<-` is EXTENDS. The modules that are composed: `DirScan` is the pool and what runs on it;
`Checkout` is the whole of one workspace, with `write-tree`, `checkout` and
`pull-checkout` in any order on the same files, index and cache; `Glob` calls
`GlobSegment`. Where a module uses what another has in detail, it takes the result in one
step: `WriteTree` reads a directory (`DirScan`) in one step and copies a file to the cache
(`ObjectCache`) in another, `Checkout` lists a tree (`Pull`) in one, and `MergeIndex` refreshes and adds a
workspace (`WriteTree`) in one.

### ThreadPool, DirScan, TreeScan

`ThreadPool` is the pool: `queue` is `_queue`, `permits` is `_sem._count`, `stopping` is
`_stop`, and `loop[w]` says whether a worker is about to test the predicate (`idle`),
blocked in `_cv.wait` (`asleep`), running a task or gone. Each operator is one critical
section: `Take` and `Sleep` are the two results of the test, `Push` and `NotifyOne` are
the two halves of `enqueue`, `TryWait` and `Release` are the semaphore. A condition
variable may also wake a waiter for no reason (`SpuriousWake`).

`DirScan` adds what a thread does between those steps in `read_directory`. The thread
`Main` scans `Root`; a subdirectory is either pushed (`Submit`, `PushJob`, `Signal`) or,
when no permit is left, read in a nested call (`RunInline`). A directory is read by one
call only, so the state of a call (its wait group `count`, `exn`, the entries `todo`) is
indexed by directory; `cur[t]` is the innermost call of a thread, `job[d]` the directory
at the bottom of the stack that the call is on. `Leave` is every way a call ends: the
lambda reports to the parent's wait group and the thread returns to the caller or gives
its permit back. After the scan `Main` returns from main and the destructor stops the
pool (`BeginStop`, `WakeAll`, `Join`).

`TreeScan` is what the caller sees: entries are found or skipped one at a time, the
constructor returns when none is left and nothing failed, and throws otherwise.

### Push, Upload

`Push` is `cache::push`. `pc` is where the calling thread is, `tree` and `missing` its
locals, `checks` is `check_trees`, `holder` the worker with `check_trees_mutex`, `step`
and `task` the jobs. The remote is the set of digests it has. `HasTree` is what the
server of the gRPC protocol answers as the code uses it: it walks from the tree through
the trees it has and names what it does not have. `HasObjects` is the loop over the index
for an HTTP remote. `Reach(r, present)` is defined as the least closed set rather than
recursively, so that it can be used in proofs. `Done` leaves the mutex to a later step,
`UnlockChecks`, as in the code. The pool is the queue without the sleep of its workers,
which `DirScan` covers. The HEAD requests that make up `HasObjects` are one step
(`CheckTree`) and their result is a set: what other clients send between two of them is
as if it had come before or after all.

`Upload` is the promise. The transfers that are under way for this push (`sending`) are a
variable of their own, apart from what other clients put into the remote (`Receive`): a
transfer begins only for something the tree is made of and not after push has returned;
push returns only when the remote has everything, no request failed and no transfer is
under way. In `Push` they are the jobs between the take of a job and the end of its
request.

### ObjectCache

`ObjectCache` is one subdirectory of objects under many threads in many processes.
`disk[h]` is what the file named `h` holds: the content `h`, nothing, a part that is
being copied (`partial`), a part whose copy was cut short (`torn`) or something `other`.
`recent` are the files whose time is within the retention period. `owner` is the process
that has the flock: `Lock` lets any thread of the owner through, as flock does, and
`Release` by any of them frees it. `linked` are the threads whose file, open for writing,
still has the name of the object. The jobs: `BeginAdd` to `FinishAdd` or `AbortAdd` is
the job of `add` for a file, `Probe`, `TreeExists`, `Rename` is a tree of `add`, `Probe`,
`Download`, `Rename` is `pull_object` and `pull_tree`, and `BeginEvict` to `UnlockEvict`
is `evict_subdir`. The environment writes files (`Edit`), lets time pass (`Age`) and
kills processes (`Crash`). `claims` is not in the code: the objects that a job of a kind
in `Watched` has reported as stored, within the retention period.

Abstractions: the mode of files, and the failure of `touch` on a file one may not write,
are left out; the listing of an eviction is visited in any order; each object has size
one; a download completes or throws; a thread is never paused in a job for longer than
the retention period (the guard of `Age`).

### Pull, Download

`Pull` is `cache::pull` and `cache::index_from_tree`, which `op` tells apart. `pc`, `phase`,
`trees`, `left` and `newTrees` are the calling thread and its vectors: `pull` enqueues a
job for each tree of a level (`tree`: has_tree, read_object if it is missing, read_tree),
waits, enqueues a second job for each tree (`list`), which lists its inodes and counts and
enqueues a job for each file (`AddJob`, `EnqueueFile` are two steps, between which the
count is ahead of the queue), and waits again on the same wait group. `index_from_tree`
has one job for each tree (`read`, then `list`). `local` is the cache and `used` what the
command has touched. The eviction of another process takes two steps: it looks at the time
of an object (`Look`; it skips what has been touched) and removes it (`Evict`), although it
may have been touched between, since pull takes no lock. `index` counts how often each
inode is in the list.

`Download` is the promise: every inode is listed once; a pull returns only when each object
that the tree needs has been found or downloaded and no job has failed; nothing is listed
or fetched afterwards; and an object that was found or downloaded is removed only by an
eviction that looked at it before. Such an object may be missing in the end: section 4.

### Tree, WriteTree, Checkout

`Tree` has what the operations of an index share: the paths in the order of
`std::string`, the walk over two sorted lists (`Walk`, `Matches`), nodes, and digests. A digest is
what it is a digest of: the content of a file, or the set of lines of a directory
(`Line` is the line `operator<<` writes: name, type, permissions, target, digest), so that
two trees have the same digest exactly when their lines agree. `Lines` and `Listing` read
a tree back, with times of 0, as `operator>>` does. `Snapshot(disk, list)` is the digest
the workspace should have.

`WriteTree` has the variables of one workspace (`ws`, `ignored`, `clock`), its index file
(`saved`), the cache (`store`, the names of its objects, and `held`, the content of those
that have not the content of their digest), and of the process that works on it: `cmd`, `pc`, `scan`
(the sorted list of the workspace), `nodes` (`_inodes`), `root`. `StartWrite` to `Save` is
`fstree write-tree`: `ReadDirectory` lists a directory with the filter, `Refresh` is
`index::refresh` with `SetDirty` (which stops at the first directory that is dirty
already), `HashFile` and `AddFile` are the job of `cache::add` for a file, `EndAdd` the choice of dirty
directories when the jobs are over, `WriteDirectory` and `WriteRoot` the trees, written
from the last to the first, and the root. The environment edits
files in place, changes permissions, creates and deletes entries, evicts objects and
kills the command.

The job of a file reads it twice, or once without hashing: a file without a digest is
hashed (`HashFile`), and one whose object the cache lacks is copied (`AddFile`, `CopyFile`)
as it is then, under the digest just made or under the one that refresh has kept. If it was
written in between, or since the scan, the object is not what its name says. `held` has
its content, which a checkout then writes (`HeldBy`), and `mixed`, which is not in the
code, has all digests this has ever happened to.

`Checkout` adds `index::copy_metadata`, `index::checkout` and `checkout_node`: one action
for each branch of the loop of the walk (`CreateMissing`, `RemoveRest`, `RemoveExtra`,
`SkipBelowLink`, `ReplaceDirectory`, `ReplaceOther`, `Update`), each one turn with all it does
to the disk. `Real` follows the symlinks among the directories of a path, as the
operating system does when `std::filesystem` is called, so that a removal through a
symlink removes what it points to. A node that cannot be made ends the command (`Fail`)
with the disk as it is then, and the index of before.

Abstractions: modes, contents and targets are members of small sets, sizes are not
modelled (the code does not compare them); every edit has a time of its own, later than
any before; a file that is hashed or copied is read in one step, and one that a symlink has
replaced meanwhile cannot be read; what `checkout_node` makes is looked at in the same
step; during a checkout the user writes in place or changes
permissions only; other processes evict between commands and during a checkout, not
while `write-tree` has touched what it uses; a command is killed before it writes the
index or after (`write_truncated` begins with what a kill during the write leaves); the
path of the workspace has no symlinks; a directory of the tree in whose place the user has
put a symlink since the scan fails the checkout; the scan of a checkout may use any of the
lists of patterns, as it may with the file of the tree (`load_ignore_from_index`), and fails
if an object of the tree is missing, which may be that file; a remote has the objects that
a pull asks for, with the content of their digests. A push of `write-tree-push` that fails ends the
command before the index is saved, as `Kill` does.

### Merge, MergeIndex

`Merge` is `index::merge_recursive`: the children of a directory in each list (`Children`),
one turn of the loop over both (`MergeTurn`: the node that comes first, with what is below
it, and of two with the same path that of the second list), and all turns (`Combined`).

`MergeIndex` is `write_tree` of several paths in `simple.cpp`: for each path the workspace
is refreshed and added (`RefreshAdd`), and its index merged into the common one
(`MergeOther`), and the result is added (`AddMerged`: `cache::add` with the digests that
`clone_node` copied). `Overlay` is the reference: the workspaces copied over each other.
The index files that are saved are left out: that of each path after its `add`, and that of
the merged index (`simple.cpp:93`), which nothing here reads again.

### GlobSegment, Glob

`GlobSegment` is `glob_match_segment`, one action for each branch of its loop, called with
any pattern and name. `Fits` is what matching means, without an algorithm: a name is cut
into one piece for each character of the pattern. `Glob` is `index::glob` of a list: the
patterns are added (`Add`, slashes at the end removed, a negation refused), compiled
(`Compile`), split into segments (`Split`, `Effective`), and the recursion of
`glob_match_node` is a stack of calls, whose names are matched by the actions of
`GlobSegment`. `Pieces` (by `Write`, one turn of the loop for each character) and `After`
are the regular expressions that `glob_list::compile` writes, and what they match. `Denotes`
says which paths a pattern is meant to find.

`compile` escapes the dot and nothing else. The characters `( ) [ ] { } | ^ $ +` and the
backslash (`Special`) reach `std::regex` as operators: it may throw (`FinalizeThrows`), or
match what the pattern does not name. A dot of a regular expression takes no line break
(`Breaks`). What `std::regex` makes of these is not modelled; `IgnoredBelow` and
`IgnoreCoversGlob`, which are about the compiled list, are of lists without a special
character (`Literal`) and of paths without a line break (`LiteralPath`). The search compares
characters, and `GlobFinds` is of all patterns and names.

Abstractions: a path is the sequence of its names; a node has children if the tree has
them. `glob_linear`, for an index without a tree of inodes, and the reading of a pattern
file are not modelled.

## 3 Runs

Bounds come from the smallest instance in which the interesting case happens.

| run | instance | shows |
|---|---|---|
| `scan` | 2 workers and the main thread, 4 subdirectories on 2 levels, 2 files; any entry skipped, any directory or symlink unreadable | types, permits, wakeups, wait groups, `TreeScan`, the end of the process |
| `push` | 2 workers, a tree with two subtrees, one of them also below the other, a shared file, and an object that is not of the tree; every initial content of the remote, both protocols, other clients, failing checks and transfers | types, nothing forgotten, quiet after return, `Upload`, the end |
| `pull` | 2 workers, 4 trees on 3 levels of which two have the same digest, 3 files of which two have the same, a symlink; every initial content of the cache, both operations, failing downloads, evictions | types, count of jobs, quiet at the end, `Download`, the end |
| `cache` | 3 processes: one adds, one adds, pulls and stores trees, one evicts; 2 paths, 2 files, 1 tree, limit 2; copies and downloads fail, processes are killed | claims of `add` stay and are complete, trees are whole, eviction removes only the excess |
| `cache_copy`, `cache_threads` | the same with failing copies, and with two threads in one process | violations, see below |
| `workspace` | 2 workspaces over 7 paths, one with the symlink `a`, one with the directory `a`, and `a-b`; 2 commands in any order, 2 edits or evictions at any step; commands are killed | types, the tree written is the workspace, is stored, and is what is checked out; the index is truthful and complete; an object is first stored with another content than its digest says only while the user edits |
| `write_ignore` | that of `workspace` without the paths that come last; 1 command, the saved index made with any of 2 lists of patterns | violation, see below |
| `write_truncated` | 1 command, 1 edit, an index file cut after any entry | violation, see below |
| `checkout_link` | 1 command, none of the environment | violation, see below |
| `merge` | 5 workspaces over 7 paths, every sequence of one, two or three | the merged list, the tree, that it is stored |
| `glob` | 4 trees, every list of one or two of 21 patterns, two of them with a character that is special to `std::regex` | positions, soundness and completeness of a segment, what is found, what is left out, the end |

*Scan and push.* With two workers and four subdirectories the pool is saturated while a
directory is left over, workers wait inside nested calls, and the third thread is Main,
which has no permit. Subdirectories and symlinks are in different directories of the
instance; the other case is described [below](#4-what-the-runs-found). With two workers in
`push` one job can be in each step while the other appends, and the shared subtree is
found twice.

*Pull.* Two trees of one digest on different levels make a job find what another level has
fetched; two files of one digest make two jobs of a level fetch the same object. Three
levels are needed for the vectors to be replaced twice.

*Cache.* Three processes are needed for two that race on one digest while a third evicts;
two files with a limit of two make the evictor remove and then stop. `MCSymmetry` permutes
files and paths, which the model does not tell apart; that run has no liveness property.
The evictor of the run is alone: `EvictsExcessOnly` does not hold with two, because one
skips what the other has removed without subtracting its size (`cache.cpp:580`).

*Workspace.* The two workspaces differ in every way the walk tells apart: a path in one
only, a directory that becomes a symlink and back, other contents, and the name between
a directory and its entries. Two commands are needed for one that
finds what an earlier one left, be it an index, a workspace half made or an evicted
object. An eviction and an edit during a write-tree are needed to store an object with
another content than its digest says, and the second command, a checkout, uses it.
`WrittenIsSnapshot` and `CheckedOutIsTree` are of trees
none of whose objects has ever been stored with another content (`Unmixed`), and
`IndexIsTruthful` of digests under which nothing else has been; `MixedByEdits` says that
only a command during which the user edits can first do that. `TreeIsStored` is of a
write-tree during which nobody edits, as `WrittenIsSnapshot` is; section 4 says why.
The path `z`, which comes last in the workspace with the symlink, is never deleted and keeps
the walk of its tree from the branch that `checkout_link` is about; the walk of the other
tree removes `z` there.

*Merge.* A list that a merge has left is no longer in the order of the strings, and the
third merge begins with it. *Glob.* The patterns have `**` at the beginning, in the
middle, at the end and alone, two `*` in a segment, and the two anchors; the names repeat
(`abab`), so that the loop has to go back. One tree has a name with a plus, and one with a
line break.

**Fairness.** `FairSpec` of `DirScan`, `Push` and `Pull` has weak fairness of `MainStep` and
of `WorkerStep(w)` for each worker: the operating system schedules every thread, critical
sections are short, and requests to a remote return if only with an error. It is per
thread, so no thread is assumed to be preferred, and spurious wakeups, other clients and
evictions have none. `Glob` is one thread in one call, with weak fairness of its next
step. `ObjectCache`, `Checkout` and `MergeIndex` are checked for safety only and have no
fairness.

**Deadlock** is checked in `scan`, `push`, `pull` and the runs of the cache, where
`Terminated` is the end of the process or of the call; a run that blocks before would be
reported. It is not checked in the others: a search or a merge is over when it has
returned, and in `workspace` the user may give no further command (`MaxRuns`, `MaxEvents`).

Each property of a passing run has a mutant: a change of one definition, like a dropped
count or a lock that is not taken, under which TLC finds the property violated. The
mutants stand beside the definitions they change, marked `Mutant`.

## 4 What the runs found

* `cache_copy`: a copy that fails leaves a part under the name of the object, which the
  next `add` takes for the object.
* `cache_threads`: flock does not exclude threads of one process.
* `write_ignore`: a directory whose own metadata have not changed keeps its digest, so a
  file that the patterns have come to match is still in the tree that write-tree prints.
* `write_truncated`: an index file that was cut short, which is loaded as far as it goes,
  makes write-tree reuse the digest of a directory below which a file has been edited.
* `checkout_link`: when the list of the tree is exhausted first, checkout removes what is
  left of the list of the workspace without the test for symlinks, and removes a file
  through the symlink that it has just put in place of the directory.

Other behaviour of the code that the models have and no run reports, each to be seen by
changing a constant or a property:

* `read_symlink` throws out of `read_directory` without waiting for the jobs of
  subdirectories already submitted, which then use a destroyed wait group
  (`directory_iterator_posix.cpp:74`): give the instance of `scan` a symlink beside
  subdirectories, and `WaitGroupOutlivesJobs` does not hold.
* An error of `has_tree` leaves `push` while its jobs run (`cache.cpp:379`), and a job
  reports to the wait group before it unlocks the mutex that the caller destroys
  when another job has failed (`cache.cpp:433`): `QuietWhenReturned` is of a push that
  returns, and would not hold of one that throws. `pull` does not have this:
  `QuietWhenOver` is of both.
* Every answer to HEAD but 200 means missing (`remote_http.cpp:206`): with `head` in
  `Faults`, push sends the same tree for ever and `PushEnds` does not hold.
* An eviction looks at the time of an object (`cache.cpp:576-588`), a pull finds the object and
  touches it, and the eviction removes it (591): its lock does not exclude a pull, which takes
  none. Pull returns without an object of the tree: `PulledIsCached` as an invariant of `pull`
  does not hold. In `ObjectCache` it is seen with `Watched` set to `pull`, and `ClaimedIsPresent`.
* The object of a file that seems not to have changed is missing, the file is written after the
  scan, and `add` copies the new content under the old digest (`cache.cpp:86-91`); so it does
  when a file is written between its hash and its copy (80-84; in `ObjectCache`, `Faults` with
  `edit`, and `ClaimedIsWhole`). The object stays wrong for every command and process that uses
  the cache, until it is evicted. A checkout of the tree that is printed gives the new content:
  `CheckoutIsTree` as an invariant of `workspace` does not hold. The index of that checkout
  records the old digest for the new content, and the next write-tree prints it.
* A tree that `create_dirtree` finds is not touched, so that an eviction may remove it:
  `Watched` with `tree`.
* The user deletes a directory's entry, or the directory itself, between the scan of the
  directory above and its own, after an eviction has removed the object of a file in it:
  the digest that refresh reuses names the object, which no job of `add` looks for, and the
  tree is printed without it (`cache.cpp:105`): `TreeIsStored` without `quiet`.
* The tree of several workspaces lacks, in a directory that two of them have, the entries
  of the first, although the index lists them (`index.cpp:839`): `DisjointIsOverlay`
  without its hypothesis.
* A pattern with `**` between two names, and `/**/a`, find directories at any depth, while
  the compiled form (`glob_list.cpp:73`) takes one directory for the `**`, or several whose
  names have one character: `IgnoreCoversGlob` without the exception `Between`.
* A pattern with one of `( ) [ ] { } | ^ $ +` or a backslash is not the pattern of the search
  when it is compiled (`glob_list.cpp:88-99`): `a+b` finds the file `a+b`, while the regular
  expression takes `aab` and not `a+b`; `a|b` leaves out the directory `a` and not what is below
  it; `(` makes `std::regex` throw. What `std::regex` matches then is not modelled.
* `write_tree` of several paths saves the merged index in the current directory
  (`simple.cpp:93`, an index without a root): if that is one of the paths, its own index is
  replaced by one with the files of the others. No module has this.
* A name that holds a `*` may be denied although it fits: `Complete` without its hypothesis.

## 5 Proofs

Every theorem is for all values of the constants that satisfy the assumptions of the
module: any finite tree and set of workers (`ScanAssumption`, `PushAssumption`,
`PullAssumption`), any threads, processes, files and faults (`CacheAssumption`), any
workspaces (`MergeAssumption`), any characters, of which any may be special to `std::regex`
(`GlobAssumption`).

**DirScanProofs.** Three invariants, each on top of the one before. `PoolInv` = types, the
agreement of a thread's place with its worker's (`Roles`), `PermitsConserved` and
`QueuedJobHasWaker`; it is inductive. From it: `PermitsConservedTheorem`,
`QueuedJobHasWakerTheorem`, and `QueuedJobHasWorkerTheorem`: queued jobs and busy workers
together are no more than the workers, so that workers which block with a permit never
use up the pool.

That `count` never goes below zero and that a call ends only when its jobs have reported
needs to know where each directory is. `IInv` adds to `PoolInv`: `CallInv` (a call is on
one stack), `NestInv` (nested calls are chains), `PlaceInv` (a directory is in one place
until it is read), `TodoInv` (what readdir has left has not been found) and `CountInv`
(the wait group counts the outstanding subdirectories). `TypeCorrect` follows for all
faults, and `WaitGroupOutlivesJobsTheorem` when `read_symlink` does not throw, without
which it does not hold (section 4).

`ImplementsTreeScanTheorem`: under the same hypothesis every step of the parallel scan is
a step of `TreeScan` or a stutter. Beyond `IInv` it needs that a failure below is seen by
the wait group above.

**PushProofs.** `PushInv` = `Typed`, `JobInv` (what a worker does agrees with its digest),
`PlaceInv` (the locals at each step of the caller), `CountsJobs` (the
theorem `PushCounts`; the run `pull` checks its counterpart), `MissingIsPending`. The last is the argument of the algorithm: whatever a check of the root would name now is the
work of a job or below a tree still to be checked. It is inductive because a walk of a
remote with more trees goes on from those trees, which are themselves pending (the
lemmas about `Reach`). When nothing is pending it says the remote has everything:
`PushImplementsUpload`. That a transfer is of something the tree is made of is `JobInv`, and
that none is under way or begun after push has returned is the count of the jobs.

**PullProofs.** `PullInv` has three parts. `CountInv` = `Typed`, `JobInv`, `PlaceInv` and
`CountsJobs`: jobs that count further jobs are themselves counted, so that the count does
not reach zero between; it gives `PullTyped`, `PullCounts` and `PullQuiet`. `Listing` =
`OnceInv` (a tree whose inodes have still to be listed is in one place: the next level, this
one, the queue or a worker), `ListInv` (an inode is listed once, after the tree it is
in) and `FoundInv` (unless a job has failed, an inode that is not listed is in the hands of
a worker, or its tree is in one of those places, or is itself not listed yet). When nothing
is left, an inode that is not listed would be in a tree that is not listed, and so on up;
that `Parent` has no cycle (`PullAssumption`) is needed here, and stated as a minimal
element of every set rather than by induction. `UsedInv`: what a pull has listed it has
touched, or a job will. `PullImplementsDownload` follows; it does not say that what was touched
is still there, which need not be so (section 4).

**ObjectCacheProofs.** `TreesAreWholeTheorem` has no hypothesis. `ClaimedIsPresentTheorem`
assumes one thread in each process (`OneThread`) and looks at the claims of files of
`add` (`AddWatched`); `cache_threads` shows what several threads do, and section 4 what the
claims of a pull are worth. The invariants are `LockInv` (between lock and unlock the
process has the lock) and `KeptInv` (claims, and what is about to be claimed, are present
and recent, and no eviction is about to remove them). `ClaimedIsCompleteTheorem` also
assumes that files are not written while they are added (`NoEdit`): `CopyInv` says that an
object which is in part is being copied by a thread that has the lock. `CacheTyped` is the
type invariant; `SizeInv` shows that the size an eviction counts down (unsigned in the
code) covers what it has still to visit, so that it never wraps. `EvictsExcessOnlyTheorem`
assumes that one thread evicts (`OneEvictor`): `ExcessInv` says that the size it counts is
then no more than what there is, since only it removes, and has reached the limit when an
entry is taken.

**GlobProofs.** First the match of a name, for every pattern, name and alphabet:
`SegmentTyped` (no position is read that is not there), `SoundTheorem` and, for names
without `*`, `CompleteTheorem`. The reference is `Fits`, which has no recursion, so that no
induction is needed; three lemmas (`FitsEnd`, `FitsTail`, `FitsCons`) say how a fit begins.
The invariant says that the fits still to be tried are those from the two positions and
those in which the last star takes more. That an earlier star need not be tried again is
`StarInv`: a fit in which the last star takes more leads to a later place of the name at
every position of the pattern, in particular at the next star, which could as well take
what is between.

Then the search, for every tree and list of patterns. `SegmentRefinement`: it calls the
match of names only as `GlobSegment` allows, so that the above holds of each of its calls
(`SegmentCalls`). `GlobFindsTheorem`: it finds what the patterns denote. The invariant
(`Found`) says that a path which the pattern denotes has been found or is still denoted, by
the rest of the pattern, from a node on the stack (`Covers`), and that what was found or is
covered is denoted; each call is replaced by others that cover the same paths. For a pattern
without `**` the calls on the stack have no path in common (`Once`, `Claims`), so that
nothing is found twice. The two theorems about the compiled list are of lists without
characters that are special to `std::regex`. `IgnoredBelowTheorem`: each piece of a compiled pattern may end
wherever in the string of a path it may end in the string of a path above it
(`AfterUnder`), and the last piece takes the rest, if a slash comes next.
`IgnoreCoversTheorem` is about two readings of a pattern that share nothing in the code: the
split into segments and the regular expression. It follows both character by character:
`Placed` says that some place in the name which the segment being read takes is open to what
has been written (`Reaches`), and that the rest of the segment fits from there; `WriteOne`
and `WriteStar` are the two kinds of characters, `Begins` says what the segments read so far
have to do with the whole, and `Offsets` where the names are in the string. Only a `**` at
the beginning takes several names, which the first piece does.

The operators that run along a string are folds of the community modules, which are
functions defined by recursion along sets of positions; `FoldStages` turns them into a
sequence of stages, one for each character, about which induction is possible.

**Recursion, TreeProofs.** What a recursive function is has to be proved before anything is
proved about it. `Recursion` has one theorem: a definition `f[x] == Def(f, x)` whose value
at `x` looks at `f` only where some measure in the naturals is smaller has a solution. Its
assumption that a set of numbers has a smallest element is a lemma of the modules that use
it (`WellOrdered`), as is induction over numbers (`Counting`); so `Recursion` extends no
other module of proofs, and each instance adds little to what the provers see. There is one
for each recursive function of the model: `Above`, `Sorted`, `Walk`, `Lines`, `Hashes`,
`Real`, `Refreshing`, the folds of `Glob`, and those of a merge. `TreeProofs` has then, by
induction over the smallest counterexample, what these functions do: `SortedTheorem`,
`MatchesTheorem` (the walk compares nodes of one path and stays within the lists),
`MatchesComplete` (of sorted lists it misses none), and
`LinesOfCache`: in a set of digests that has what each of its trees names (`IsCache`), a
listing leads to no other digests, and to digests of files where it says file.

**IndexProofs.** For any workspaces, patterns, edits, kills, evictions, and index files
that are cut short: `TypesHold`, `IndexTruthful` and `MixedOnlyByEdits`. The first two need an
invariant `Inv` of three parts.
`DataInv` is about times. Every step that changes a file gives it a time later than the
clock was (`Aged`), and no record has such a time; so a record, once right about the file
with its path and time (`Truthful`), stays right while the file is edited, removed or
replaced. This is said of the index file and of the nodes in memory, whose files may lack
a digest while they are added, and, as far as the type goes, of the scan (`RightScan`).
`ControlInv`: while files are added and trees are written, the nodes are those of the
scan, each path once. `CacheOf`: the digests of all nodes, and those that a command may
be given, are in some `IsCache`, so that a record of a file has the digest of a file, and
`copy_metadata`, which compares digests only, cannot take a directory for a file; and what
`checkout_node` writes is what the digest says. The set is not the cache of the model,
from which objects are evicted: it has all that ever was in it, and grows with each file
and tree that is added.

A record may also be wrong because the object that a checkout copied was. `Truthful` allows
that of the digests in `mixed`, and `HeldInv` says that the objects which have another content
are among them. `MixedOnlyByEdits` says where these come from: while nobody has edited since
the command began, each file is as the scan found it (`ExactInv`), and `Inv` says that its node
is right about it, or has a digest that was in `mixed` before; so what is copied is what the
digest says. The theorems below are of trees whose objects are not in `mixed`
(`Unmixed`), except `PrintedIsStored` and `PrintedLeavesOut`, which are about names only.

`PrintedIsSnapshot` proves `WrittenIsSnapshot` from two hypotheses: there is one list of
patterns, and no index file is cut short. Both are needed: `write_ignore` (a tree with an
ignored file in it) and `write_truncated` show what happens otherwise. The difficulty is that the digest of a
directory is reused although nobody looks below it, because it has the time the index
recorded; so the invariant (`SnapInv`) has to say what a record of a directory is worth, and
every step, a checkout that fails half-way included, has to leave only records that are
worth it. Its parts:

* `IndexInv`, of the index file and any disk: a directory that has the time recorded
  (`Current`) has the entries of the index, and its tree has those lines; if the directories
  below it have their times too (`Steady`), its digest is that of its nodes. `DirAged` says
  of every change of a disk, by the user or by a checkout, that a directory whose entries
  changed has the new time, so that nothing recorded is `Current` by accident.
* `ScanInv`: what the scan found of a directory that still has its time is what is in it,
  and everything, if nobody edited.
* `WriteInv`: the digests that refresh kept are of nodes that are clean with all that is
  above and below them, so that each is that of its nodes when the index is saved.
* `CheckoutInv`: the nodes are those of a tree; a directory that has the time of its node
  has no other entries than the tree, and all of those that the walk has passed (`TreeInv`).
  `WalkInv` says what the two positions of the walk have left behind. This is what makes
  the index of a checkout worth as much as that of a write-tree.
* `ForestOf`: all trees that the index or a command may name are of some set of trees that
  lead to trees of the set, without ignored paths.

`PrintedIsStored` and `PrintedLeavesOut` follow under the same hypotheses. `StoredInv`: a
file whose job is over, a directory that is not dirty and one whose tree has been written
have their digests in the cache, from which nothing is evicted while write-tree runs; so
when the root is written all digests of the nodes are there, and those are the digests of
the tree (`ListedNodes`: reading the tree back lists the nodes). What the patterns match is
no node, since the scan left it out, so no line is about it.

`CheckedOut` and `RecordedAll` prove `CheckedOutIsTree` and `IndexIsComplete`. They have one
more hypothesis, `LinkedNodeIgnored`: the walk leaves alone what is below a symlink, as its
comment says. `checkout_link` shows a behaviour in which it does not; there a file that has
just been checked out is removed through the symlink, so that the workspace is not the tree.
The invariant (`QuietInv`, on top of the others) says what is so of a checkout while nobody
edits. Its core is `TurnInv`: a node that the walk has passed is made (`Made`: the type, mode,
target, time and content are those of the node, unless its digest is in `mixed`), an entry it has not passed is as the scan
found it, or below a path which is not a directory of the tree, and nothing else is in the
workspace. `PlacedTurn` and `ExtraTurn` show that a turn keeps it, from what its changes of
the disk leave as it was (`StillAt`). When both lists are exhausted, the workspace has the
nodes of the tree and nothing else (`EndTurns`), and `Inv` says that a file whose time
agrees has the content.

*The merge.* A merged list is not sorted, so `TreeProofs` describes one by what is left of
the order: `IsBranch(list, d)` says that the nodes of each directory are in the order of
their paths (`Siblings`), and that every node is in a directory of the list and is, or is
below, a child of `d`. A path is then in it once (`BranchSingle`), and the nodes of a
workspace in the order of the strings are such a list (`DiskIndex`). `MergeTheorem`: of two
such lists, `Merge` makes one again, and says of which nodes. It is an induction over the
positions of the loop (`CombinedLists`) within one over the directories from the last path
to the first (`MergedDirectory`), in which the recursion below a node that is a directory
gives what is below it in both lists.

`MergeInv` is the invariant of `MergeIndex`: the merged index is that of the workspaces so
far (`IsMergedIndex`: each node is that of a workspace of which the overlay has the entry,
each path of the overlay has one, and the last workspace has all of its own), and the
objects of those workspaces are in the cache, which has whatever its trees name (`Whole`).
So no directory is dirty when the merged index is added, and only the root is written.
From it: `MergedListsOverlay`, `LastPathIsWhole` and `MergedObjectsStored` without a
hypothesis, and `ApartIsOverlay`. The last has the hypothesis of its property, that no
directory is in two workspaces; section 4 says what is lost otherwise.

Model-checked only: `ScanEnds`, `PushEnds`, `PullEnds` and `GlobEnds`, since liveness under
fairness is out of the prover's reach.

## 6 What is left out

* Bytes: the encoding of an index file, a tree object, a digest, status bits, sizes, URLs
  and arguments. A digest determines the content; a mode is one of a few values. An index
  file of another version, or one that is cut inside an entry, is one that is cut between.
* What `std::regex` matches for a pattern with a character that is special to it, and for a
  name with a line break.
* `glob_linear`, the reading of a pattern file, the Python objects, `find_node_by_path`
  (which searches by bisection a list that pull and merge leave unsorted,
  `index.cpp:436`; only the Python bindings call it).
* What travels inside one request to a remote; a download whose last write fails unseen
  (`remote_jolt.cpp:132`).
* Two commands at once on one workspace: the code has no protection there and promises
  none. Two commands at once on one cache are `ObjectCache`.
* A pool without workers (`hardware_concurrency` of 0). `direct_pool` is not used by the
  program.
* Windows and `std::filesystem` variants, events, reference counts, hash functions.
* Temporary files that a killed process leaves are not counted.

## 7 Plan

Done: 1 to 8.

1. `ThreadPool`, `DirScan`, `TreeScan` and proofs.
2. `Push`, `Upload` and proofs.
3. `ObjectCache` and proofs.
4. `Pull`, `Download` and proofs.
5. `Tree`, `WriteTree`, `Checkout`.
6. `Merge`, `MergeIndex`.
7. `GlobSegment`, `Glob` and proofs.
8. `TreeProofs`, and proofs that the index saved is truthful (`IndexIsTruthful`), that a
   write-tree prints the digest of the workspace (`WrittenIsSnapshot`), that a checkout
   makes the workspace the tree (`CheckedOutIsTree`) and that a merge is the overlay
   (`MergedIsOverlay`).
9. A write of the index file as several steps, with a kill between them, and a second
   retention period in `Checkout`, so that an eviction may run during a write-tree.
10. Encodings (status bits, tree lines), against a parser of the same.
