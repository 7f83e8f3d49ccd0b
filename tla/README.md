# Sync-Alibaba_Cloud_Disk: TLA+ models and proofs

The program keeps a local directory in step with a cloud disk. At this commit it
has three parts that carry logic of their own: a recursive directory watcher on
top of inotify (`inotify_tool/`), a client that keeps a port mapping on the home
router (`upnp/`), and the application that ties an HTTP server, that client and
its timers together (`httpd/`). The synchronisation itself is not written yet.

This directory models all three. For the watcher it proves that it implements an
abstract pipe of reports, when its assertion can fail and when not, when its map
has the right paths, when it misses no directory and when it reports every modified
file and no other; for the application it proves what becomes of the port mapping
and of the login. Paths below are relative to the root
of the repository, line numbers are those of `PROJECT.json`.

## 1. Inventory

| Part | State it keeps | Operations | Talks to |
|---|---|---|---|
| `InotifyTool` (`inotify_tool/inotify_tool.cpp`) | the descriptor, `m_pathWithWd` (watch descriptor and flag to path), the read buffer, the queue of items for the caller, the set of modified files, `m_errorCode` | `createInotify`, `destroyInotify`, `watchFile(s)`, `watchRecursive`, `waitCompleteEvent`, `getEventItem`; `removeWatch` has no body | the kernel, by system calls; the caller polls |
| path utilities (`inotify_utils.cpp`) | none | `CorrectionPath`, `StringReplace` | called for every path |
| `UPNPClient` (`upnp/upnp.cpp`) | `m_spDevice`, `m_hasValidIGD` | `hasValidIGD`, `addUPNP`, `delUPNP`, `displayUpnp` (prints only) | the router, through miniupnpc |
| `Application` (`httpd/application.cpp`) | the timers of `m_idleLoop`, the server | `init`, `run`, `stop`, three timer callbacks, `Signalcatch` | `UPNPClient`, libhv |
| `HttpHandler` (`httpd/http_handler.cpp`) | the login in `GlobalResourceManagement` | `Auth` and two static pages | two requests to the cloud |
| `HttpRouter`, `ConsoleConfig`, `main` | none that changes | set up | libhv, the command line |
| examples, third-party sources | | | |

What makes each part hard, and what it has to keep:

* **InotifyTool.** Other processes change the tree while it is walked, and the
  walk reads names, then attributes, then adds watches, as separate system
  calls. Events wait in the kernel queue while the map moves on, so a record may
  name a watch the map forgot or has not learned yet. Reads end in the middle of
  related records; the queue and the number of watches are limited; any call may
  fail half-way. To keep: map and kernel agree, paths in the map are the paths
  the directories have, every directory below a recursive watch gets watched,
  every finished modification is reported once, no assertion fires.
* **UPNPClient and Application.** A router that comes late, leaves or forgets;
  requests that fail after the router acted on them; a lease that runs out;
  a signal handler that makes network calls in the middle of others. To keep:
  no request without a router found first, a mapping while the server runs, no
  mapping after it has ended.
* **HttpHandler.** A login is two requests in a row whose answers are stored in
  globals; the cloud may answer badly or not at all after it has redeemed the code,
  and a field that cannot be read throws in the middle. To keep: a login is whole
  and stays, a redeemed code logs its user in, every request ends.

`PROJECT.json` lists the hazards one by one with the line where each bites and
the property that watches it.

## 2. Modules

| Module | Stands for |
|---|---|
| `InotifyPaths` | `CorrectionPath`, `StringReplace` and the searches in paths, on sequences of tokens |
| `InotifyKernel` | external: a directory tree changed by other processes, and one inotify instance with its queue, watches and limits |
| `InotifyTool` | class `InotifyTool`, EXTENDS the kernel |
| `InotifyToolProps` | what the class has to guarantee, and its refinement mapping to `EventPipe` |
| `EventPipe` | abstract: a pipe from records of the kernel to reports for the caller |
| `MCInotify` | trees, names and call arguments for TLC |
| `InotifyKernelProofs` | lemmas about the kernel, and about paths by induction on their length |
| `InotifyToolProofs` | theorems about the tool: types, entries and watches, what is held back |
| `EventPipeProofs` | `InotifyTool` implements `EventPipe` |
| `InotifyAbortProofs` | theorems about the descriptors in the map and about the assertion |
| `InotifyTreeProofs` | theorems about the paths in the map |
| `InotifyCompleteProofs` | theorems about the directories that a recursive watch covers |
| `InotifyModifyProofs` | theorems about the reports of modified files |
| `UPNPClient` | class `UPNPClient`, and external: the router |
| `Application` | class `Application` as far as it keeps the mapping; EXTENDS `UPNPClient`; its properties |
| `HttpHandler` | class `HttpHandler`, the login state in `GlobalResourceManagement`, the routes, and external: the cloud |
| `Server` | the program: `Application` and `HttpHandler` on one thread |
| `ServerProofs` | theorems about the port mapping and the login, and that `Server` implements `Application` |

### How the watcher is modelled

A call is a walk of `pc` away from `"idle"` and back. Every system call is an
action of its own, so other processes act between any two of them; the value of
`pc` says at which one the call stands. Recursion in `_watchRecursive` is the
sequence `stack` of open directories with the entries `readdir` has yet to
return. `caller` is where a watch call returns to: the application, or one of
the two record handlers that start one (`created` for CREATE, `moved_in` for
MOVED_TO). A record stays at the head of `buf` until its handler is through.
The handlers (`OnCreate`, `OnMovedTo`, `OnIgnored`, ...) stand in the order of the
tests in `_parseEvent`, and `LoopTail` is the code after them, the purge of a
directory that moved away included.

Paths are sequences of tokens with "/" as a token, not strings; a name of two
tokens serves as one that has another name as a prefix. That keeps exactly what
the code tests: prefixes, occurrences, doubled and final slashes.

Some things the source leaves open are choices in the model:

* `BiMap` comes from a library that is not part of the repository. What `insert`
  does when the key or the value is taken is the constant `InsertPolicies`, and
  the runs take both answers.
* A failing `LOG_ASSERT` is taken to end the process (`pc = "aborted"`); every
  property that forbids it says so by name.
* A read returns between one record and all that are queued (`Capacity`), only
  whole ones, as inotify(7) promises. Symbolic links, hard links and time are
  not in the model; `select` returns with or without a timeout, in no
  particular time.
* A file that is unlinked, or replaced by a rename, while a process has it open keeps its
  watch and goes on making records under its old name in its old directory (`unlinked`),
  up to the last close, which is when DELETE_SELF and IGNORED come.
* Events equal to the newest queued one are merged, the queue overflows at
  `MaxQueued`, `inotify_add_watch` fails at `MaxWatches`: that is inotify(7).

### How the port mapping is modelled

Port, protocol and host are constants of the configuration, so a router is a
lease in ticks (`left`), a flag that it answers (`reach`) and a request on its
way (`flight`). Each request of miniupnpc is one step that works or fails; a
request for a mapping is sent in one step and answered in another, so that a
signal, a tick or a failing router may come in between. `task` is the piece of
`Application` that runs (the start, a timer callback, `stop`), and `call` and
`pc` say where in `UPNPClient` it is. A signal handler never returns to what it
interrupted, both end in `exit`, so `Interrupt` and `Abort` just replace `task`
and `pc`.

`LoopRuns` deserves a remark. `m_idleLoop` is created (application.cpp:82),
gets its timers, and is never run by any line of the program: `LoopRuns = FALSE`
is the program as it is. With `TRUE` the callbacks do what they say, which is
what one wants to check about them; the proofs hold for both.

### The pipe of reports

`EventPipe` says what the caller of `getEventItem` may rely on: one report for each
record that has to be told, of the right kind and with its cookie, in the order of
the records. A record without a handler, or a file closed after it was opened for
writing, may be passed over; nothing else may. Its queue is the buffer of the tool
followed by the queue of the kernel (`buf \o kq`), so that a read, which moves
records from one to the other, and the bytes kept for the next read change no order;
`batch` (`Len(buf)`) is how many of its records have been read, and destroying the instance
loses exactly the others; `told` is the time in which the record at the head has been
reported or passed over and the tool still takes watches down at the end of its round
(`pc = "purge"`). A walk that runs inside a handler is `Accept`: it only lets
records arrive. The path in a report is not part of the pipe, `PathsRight` is about
those.

### How the login is modelled

A code stands for the user it was issued to, and the user for his name and his
picture, so `name` and `image_url` say whose they are, `Nobody` being the defaults.
`http` is what the one worker thread waits for: a request, the answer with the
token, or the answer with the user. Between two answers anything else may happen,
signals included, but no other request: `setThreadNum(1)` and blocking calls
(application.cpp:141, http_handler.cpp:72 and 97). `UserRead` tries every way in which
the fields of the answer may be readable or not. An answer that does not come at all
is a null pointer, checked at line 73 and not at line 98: `UserLost` is the crash,
and `Server!HandlerCrash` makes it the end of the process by `Signalcatch`. The
codes that the cloud has redeemed (`spent`) are external, as is `troubled`, which
records that the cloud did not answer as it should.

`Server` runs a handler only while the program serves and the main thread is in no
call of `UPNPClient`; `Interrupt` stops a handler for good, `stop` follows.

## 3. Runs

All 12 use TLC without symmetry, with named bounds in the cfg. `Calm` is the set of
stages at which the tree is left alone: `InMemory` holds only stages without a
system call, where an operation of another process can be moved before or after
without being noticed, so nothing is lost. `Walking` also covers the walk itself,
for the runs about what happens when nobody disturbs it.

| Run | Checks | Instance and why it is enough |
|---|---|---|
| `tree` | `IndInv`, `MarkKnown`, `AbortExplained`, `Complete`, `PathsRight`, `ReportsInOrder` | two directories below the root, three operations out of mkdir, rmdir and unmount at any point of the walk, all faults, reads of 1, 3 and 20 records: enough for nested creation, creation behind the walk, removal before the event is read, half-finished calls |
| `moves` | `Complete`, `PathsRight`, `NeverAborts`, `ReportsInOrder` | two levels, a directory that moves in with a child, four operations between walks |
| `files` | `ModifyReported`, `HeldBack`, `NoPhantomModify`, `ReportsInOrder` | two writers and a file, five operations, in a watched directory and a sub-directory |
| `wait` | `CallsReturn`, `NewDirWatched`, `Drained` | liveness, two operations during the walk out of mkdir, listing, a file truncated and a file renamed over another |
| `watchfiles` | `IndInv`, `EntryBacked`, `MarkKnown`, `ReportsInOrder`, `AbortsExplained` | lists of two paths of which the second fails, two watches at most, a queue of four; directories move in and out, a file is opened, renamed, unlinked while it is open and closed |
| `upnp` | `AppInv`, `DeviceValid`, `NothingLeft`, `StopExits` | lease 3, probe 1, two faults: the lease runs out between two requests, both kinds of timers replace each other; `LoopRuns = TRUE`, with no fairness of the timers |
| `server` | `HttpInv`, `LoginWhole`, `CodeNotWasted`, `LoginLasts`, `Answered`, `NothingLeft` | two codes, the least for a second user; any number of requests; one fault of the router; `LoopRuns = FALSE` as in the program |
| `reopen` | `NeverAborts` violated | two nested watches, destroyed and created again |
| `purge` | `StopsMovedOut` violated | two directories below a root, one is moved out, then the other is listed |
| `siblings` | `PathsRight` violated | `a` and `ab` side by side, one rename |
| `walk` | `Complete` violated | one rename during the walk |
| `idle` | `ProbeRegisters` violated | `LoopRuns = FALSE` and a router that comes up late, under `LoopSpec` |

Deadlock is checked in `moves`, `files`, `wait`, `upnp`, `server` and `idle`. In the others
the process may have been ended by the assertion, and that is a state without
successors.

What the properties mean:

* `Complete`: when everything queued has been read and no failure was reported,
  each directory below a recursive watch is watched itself.
* `PathsRight`: at such a moment the map has the present path of each of them.
* `MarkKnown`: outside of the calls that set up watches, the kernel has no watch
  the map does not know. It is the reason why the assertion on unknown
  descriptors can hold at all; `AbortExplained` says that it holds unless a
  recursive watch has failed or the queue has overflowed.
* `AbortsExplained` is the sharper form of it: the assertion fails only after a
  recursive watch failed or a `Mishap` came, and an overflow is none. A mishap is one
  of three things the code does: it gives a descriptor a path that another one holds
  (`Clash`), it keeps its buffer when the instance goes (`Relic`), or it removes a
  descriptor from the map whose records are still to be parsed (`Cut`, in the
  rollback of `watchFiles` and in the loop for a directory that moved out).
* `EntryBacked`: the other direction. An entry of the map has a watch, or the
  IGNORED record that will remove it is in the queue or the buffer.
* `HeldBack`: between reads the parser keeps back at most one record and only one
  without a name. The strict comparison at inotify_tool.cpp:468 does keep one.
* `ModifyReported`, `NoPhantomModify`: a MODIFY_OVER for each file changed and
  closed, none for a file that was opened and closed as it was.
* `ReportsInOrder`: the tool implements `EventPipe`. It is checked in the runs with
  small reads, overflow, several writers and failing calls.
* `Drained`: progress of the pipe. As long as a record is ready (there is more than
  the single one without a name that `HeldBack` allows), handlers go on finishing
  records. It is weak fairness of `Finish`, written out: TLC cannot decide ENABLED
  for an action that leaves `queue'` open.
* `LoginWhole`, `LoginLasts`: name and picture belong to one user whose code was
  redeemed or to nobody, and from a login on neither changes and no code is spent
  (the comment at http_handler.cpp:29).
* `CodeNotWasted`: as long as the cloud answers as it should, a code it redeemed has
  logged its user in when the handler returns, with a phone number or without.
* `Answered`: a request is answered or the process has ended.
* `NothingLeft`: a program that ended by SIGINT leaves no mapping on the router
  and none on its way, unless a network call failed or a request was under way
  when the signal came.
* `StopExits`: a program that got SIGINT ends.
* `StopsMovedOut` (violated): the loop for a directory that was moved away (lines 708-722)
  takes down only watches of directories that are now outside of the watched tree. It is
  stated by where the watched directories are, not by the path or record the code looks at.
* `ProbeRegisters` (violated): a router that comes after the start gets the mapping.

### Fairness

`InotifyTool!FairSpec`: the thread that is in a call goes on, and it calls
`waitCompleteEvent` again and again, which is the loop of
`examples/test_inotify_tool.cc:42-59`. Other processes get no fairness and perform
at most `MaxOps` operations; without a bound of that kind `waitCompleteEvent`
need not return, because the code reads until there is nothing left to read.

`Application!FairSpec`: the main thread runs, network calls end (miniupnpc has
timeouts), time passes, and a router that is there handles the request it got.
Nothing is assumed of the timers, because no line runs the loop they are in. `LoopSpec`
adds that a loop which is run fires the timers that are due; only `idle` uses it, so that
its counterexample is due to the loop not being run and to nothing else: with
`LoopRuns = TRUE` the same run finds no violation.

`Server!ServerFairSpec`: the main thread goes on, and the requests to the cloud and
to the router end, because libhv and miniupnpc give up after a time-out. Nothing is
assumed about when requests or signals arrive, nor about what the cloud answers.

## 4. Where the code and its comments disagree

Each is a run that ends in a counterexample, and a finding in `PROJECT.json`.

1. `reopen`: `destroyInotify` clears the map but not the read buffer. A record
   without a name that the parser held back is handled after the next
   `createInotify`, and the assertion at line 513 meets an unknown descriptor.
   The model has one record, OPEN, for the OPEN, ACCESS and CLOSE_NOWRITE of a listing, and puts
   it at `opendir`. Really the `closedir` of the root (line 449) comes last in a walk, so the
   record held back is one of descriptor 1, which the new instance knows as well; for
   an unknown descriptor another process has to have listed the sub-directory
   after the walk.
2. `purge`: the test at line 712 is the bare result of `find`. It is zero, that is
   false, for the paths below the directory that was moved away, and true for all
   others: those lose their watches. The loop runs for the record that follows the
   MOVED_FROM, if it has no handler: in the run it is the OPEN of a sibling, after which
   root and sibling are not watched any more, and the moved directory still is.
3. `siblings`: line 657 accepts a match anywhere and without a final slash, so
   renaming `a` also renames `ab`.
4. `walk`: an entry that vanishes between `readdir` and `lstat64` is skipped. When
   it was renamed, not removed, it stays unwatched, because a rename pair only
   changes paths that are in the map.
5. `idle`: see `LoopRuns` above.

Other behaviour one can see by changing the constants of a run:

* A directory moved between two watched directories gets a path below the wrong
  parent (`siblings.cfg` or `moves.cfg` with `FsOps = {"move"}`), as the old path is
  rebuilt from the new parent at line 656.
* Modified files are remembered by path (line 612): a file renamed between its last
  write and its close is forgotten and never reported (`files.cfg` with `Dirs = {"r"}`,
  `Names <- TwoNames`, `InitLoc <- FileInRoot`, `MaxOps = 4` and
  `FsOps = {"open", "write", "rename", "close"}`: `ModifyReported` is violated).
* Truncating a file makes a MODIFY without a CLOSE_WRITE, so it is never reported
  (the same with `FsOps = {"truncate"}`).
* A watch on a single file never reports a change, because the records of a file
  have no name (the same with `RecursiveArgs = {}` and `FilesArgs` holding the
  path of the file).
* `destroyInotify` does not clear `m_fileModifySet`, and lines 611-619 do not ask whose
  modification it remembers: a file written before the instance was destroyed is
  reported as MODIFY_OVER when it is opened and closed unchanged under the next one
  (the same with `Writers = {"w1"}`, `FsOps = {"open", "write", "close"}`, `MaxOps = 5`
  and `MaxCalls = 4`: `NoPhantomModify` is violated).
* A directory given to `watchFiles` without a final slash is put into the map as it
  was given, and names are appended to that: what happens to `/r/b` is reported as `/rb`
  (as before with `MaxCalls = 2`, `RecursiveArgs = {}` and `FilesArgs <- WatchRoot`:
  `ModifyReported` and `NoPhantomModify` are violated).
* The read buffer that outlives an instance does harm without an assertion, too. A
  DELETE_SELF has no name, so it may be held back; handled under the next instance,
  whose descriptors start again at 1, it takes down a new watch, and modifications go
  unseen (`files.cfg` with `FsOps = {"rmdir", "remake", "create", "write", "close"}`,
  `Faults = {"read"}`, `Capacity = {1}` and `MaxCalls = 4`: `ModifyReported` is violated).
* When the request for the user's data is refused, or its answer is no JSON object,
  `Auth` shows the home page with status 200 although nobody is logged in and the
  code is spent (http_handler.cpp:119-128, `UserRefused`).
* When that request gets no answer at all, the null pointer at line 98 ends the
  process, and `Signalcatch` exits without `stop`: the mapping stays until its lease
  runs out (`UserLost`, `HandlerCrash`).
* A directory made, removed and made again under one name: the map still holds its path
  under the old descriptor. `tree.cfg` with `FsOps = {"mkdir", "rmdir", "unmount", "remake"}`
  (three operations, as there) refutes `MarkKnown` whichever answer `insert` of `BiMap`
  gives. `AbortExplained` falls in it when the old entry is replaced, and when it is kept
  with `Names <- OneName`, `FsOps = {"mkdir", "rmdir", "remake"}`, `MaxOps = 5`,
  `Faults = {}` and `InsertPolicies = {"keep"}`. This is why `tree` makes no directory twice.
* A file is written, unlinked while it is open, and a new one made under its name:
  the CLOSE_WRITE of the new one finds the path of the old one in `m_fileModifySet` (line
  612), and it is reported as MODIFY_OVER though nobody wrote to it (`files.cfg` with
  `Files = {"f1", "f2"}` and `FsOps = {"create", "write", "unlink", "close"}`:
  `NoPhantomModify` is violated). A file renamed over one that has been
  written to is reported in the same way (with `Names <- TwoNames` and
  `FsOps = {"create", "open", "write", "replace", "close"}`).
* With running timers the mapping is still not kept: when the lease timer finds no
  router it is replaced by a probe timer, which is killed after its first success.
  From then on the mapping runs out with its lease, and no timer is left.
* A directory given to `watchFiles` gets an entry that is not recursive (line 146). The
  kernel has one watch for it and for the walk that meets it, so the map has one entry, and
  when that is the plain one, what is created in the directory is never watched, although
  it is below a recursive watch (`tree.cfg` with `FsOps = {"mkdir"}`, `InitLoc <- OneDir`
  and the path of that directory in `FilesArgs`: `Complete` is violated).
* The map holds the paths of recursive watches with a final slash, and the check at
  lines 188-192 looks for the path as it was given: a second recursive watch of the
  same directory, given without the slash, is not refused.

## 5. Proofs

TLAPS checks eight modules, `InotifyKernelProofs`, `InotifyToolProofs`,
`EventPipeProofs`, `InotifyAbortProofs`, `InotifyTreeProofs`, `InotifyCompleteProofs`,
`InotifyModifyProofs` and `ServerProofs`, for all values of the constants that satisfy
the named assumptions: any tree, any set of names, any queue length and number of
watches, any `Capacity` and faults, either policy of `BiMap`; any lease, probe interval
and number of failures; any set of codes. The assumptions are those named in the
modules: a name is not empty and has no slash in it (`InodesAssumption`,
`NamesAssumption`), the places at the start form a tree (`TreeAssumption`: no two inodes
at one place, and what is not at the top is in a directory), the paths the application gives are strings
(`ArgsAssumption`), there is at least one place in the queue and the like, and
`Nobody` is no code.

**The watcher.** `IndInvHolds` is `Spec => []IndInv`. `IndInv` has these parts:

* `TypeOK`, the types of the tool and of the kernel, and `ControlOK`: directories
  are open only during a walk, collected watches exist only until they are
  inserted, a handler has its record at the head of the buffer, and without an
  instance nothing runs. Handlers need it to know what they are looking at.
* `MarksUnique` and `WritingLive` about the kernel: at most one watch per inode,
  since `inotify_add_watch` returns the descriptor there is; open files are in
  the tree, or unlinked from a directory that is.
* `HeldBack`, which the parser loop restores at each exit.
* `EntryBacked` and `FoundBacked`. The first is what one wants to know and is not
  inductive: a walk collects descriptors in `infoList` and copies them to the map
  later, and a directory may be removed meanwhile. `FoundBacked` says the same of
  what is collected. Both speak of records in the queue *or* in the buffer, since a
  read moves them from one to the other.

The kernel module proves for each operation of other processes that the queue only
grows (`Grows`) and that a watch that goes away leaves an IGNORED record unless the
queue overflowed (`GoneKeeps`, `RmWatchKeeps`). The tool module has one lemma per
action, collected in `NextIndInv`. `TypeCorrect`, `EntriesBacked` and
`NamedNotHeldBack` follow.

**The pipe.** `ImplementsPipe` is `Spec => ReportsInOrder`. Initial states map to
initial states, and each action to a step of the pipe or a stutter. The invariant
behind it, `PipeInv`, adds two parts to `IndInv`. `HandlerOK` ties the stages inside a
handler to the record it handles: while a walk runs for `created` the head of the
buffer is a CREATE of a directory, and so on; without it one could not say that the
report pushed after a walk is the one that record asks for. `ItemsOK` says that the
reports form a sequence. Two facts carry most steps: whatever other processes and
system calls do only extends the kernel's queue (`Extends`, from the kernel's
proofs), and extending the second part of a concatenation extends the whole
(`ConcatPrefix`).

**The assertion.** That the map knows every watch (`MarkKnown`) does not keep
`LOG_ASSERT` (line 513) from failing: what is looked up is the descriptor of a record,
and the record may be older than the end of its watch. `AbortInv` therefore speaks of
watches and of records:

* `Tidy`: in the buffer followed by the kernel's queue, IGNORED or UNMOUNT is the last
  record of its descriptor that needs the map, and a descriptor with such a
  record, or with a DELETE_SELF, is not watched any more. So removing an entry when its
  IGNORED is parsed takes nothing away that is needed.
* `MapsAll`, as long as no recursive watch has failed: every watch, and every
  descriptor that a record will be looked up by, is in the map or among the watches a
  walk has collected for it (`Entries`).

`Tidy` needs no more than that no record outlives its instance (`RecordsTidy`): under a
new instance an old record is one of a descriptor that may be watched again. `MapsAll`
does not survive a mishap, and the three kinds are all needed: TLC refutes `AbortsExplained` without `Relic` in `reopen`, without
`Cut` in `watchfiles`, and without `Clash` in an instance of `tree` with
`InitLoc <- OneDir`, `FsOps = {"mkdir", "rename", "remake"}` and `Capacity = {1}`: the
two records of a rename of `a` come in two reads, the entry of the directory keeps
the path of `a`, and a new `a` evicts it. The theorems are
`AbortsAreExplained` (`Spec => AbortsExplained`), `MapKnowsMarks` and
`AbortExplainedHolds` (the invariants `MarkKnown` and `AbortExplained`, of each
behaviour without a mishap), and `AssertionHolds`: without a mishap and without a
failed recursive watch, `NeverAborts`. Mishaps are conditions on states, checkable where
they would happen; what other processes do, lost records and failing calls are not
restricted.

**The paths.** `PathsStayRight` is `Spec => ([][~DirRenamed]_vars => []PathsRight)`: files
may be moved at will, directories made, removed and unmounted at any moment, also between
the system calls of a walk. The inductive invariant `TreeInv` says of every entry of a
recursive watch, and of each watch a walk has collected, that its path is the one of
the inode it watches (`Placed`), at all times and not only when the tool has caught up.
For this the watched inodes have to be in the tree, or unlinked while open (`MarksLive`), descriptors have to be
below the next one, or a new watch would inherit an old entry, and no record may
tell of a directory that moved (`MovesOK`), so that neither loop over the map that a
rename starts is entered. That renames break it is not a weakness of the proof:
`siblings` is such a behaviour.

The step that needs paths as strings is `ScanAdd`: what `CorrectionPath` returns ends with
exactly one slash, what names a directory without it does not, so an inode found at
that path is a directory and the path is `DirString` of it (`CorrectedNamesDir`). It rests
on the last part of `InotifyKernelProofs`, which unfolds `CorrectionPath` and `PathString` for paths of any
length. They are recursive functions, not RECURSIVE operators, so they exist by a
smallest counterexample (`NatMin`, `Iteration`) and no induction rule with
an operator as its parameter is needed.

**What is watched.** `NothingMissed` is `Complete` for every behaviour without a mishap,
without a directory given to `watchFiles` (`PlainWatch`) and without a rename of a
directory. `Complete` speaks only of the moments at which everything has been read. Its
invariant `CompleteInv` says what has to be true between them:

* `Covered`, as long as no failure has been reported: for each watched directory and each
  directory in it, the second is watched, or its CREATE record is still to be handled
  (`Heard`: in the buffer behind the record at work, or in the kernel's queue), or the walk
  has it before it (`Walked`: it is the path about to be watched, or its parent is about
  to be opened, or its name is among those `readdir` has yet to return).
* `IsTree(loc)`: the tree stays one, so a directory has one parent, and a path one inode.
* `RecOK`: the entry of a watched directory is a recursive one, or the CREATE handler
  would pass over what appears in it. `MadeOK` keeps the rollback of `watchFiles` away from
  directories, and `pc # "purge"` the loop for a directory that has moved out.

The argument is the one that the order of the calls in `_watchRecursive` stands for: it
watches a directory *before* it reads its entries (lines 393 and 402), so what is there
when `opendir` comes is listed, and what comes later has a record. `ScanAddComplete`,
`ScanOpenComplete` and `ScanEntryComplete` are these steps; `HandledComplete` is the other
half, that a CREATE record is dropped only when the directory it tells of is gone, watched
or next in the walk. Here `TreeInv` is needed to know that the record and the
walk speak of the same directory by its path, and `AbortInv` that a watch the kernel
has is in the map. From `Covered`, `AllMarked` gets all directories below a
recursive watch, by a smallest counterexample in the length of their places.

The rename and `PlainWatch` are excluded because TLC refutes `Complete` with either of
them (run `walk`; section 4). `CompleteInv` itself needs, besides these, only that no
record outlives its instance (`CompleteInvHolds`), for `Tidy`. The other two mishaps are
excluded because `AbortInv` is: in the instances tried `Complete` holds with them
too, and whether it always does is open.

**Modified files.** `NoPhantoms` is `NoPhantomModify` and `ModificationsReported` is
`ModifyReported`, both for behaviours in which no directory is renamed (`DirRenamed`) and no
file is moved, unlinked or replaced by another (`FileMoved`). The code knows a file
by a descriptor and a name while its records are under way, and by a path in
`m_fileModifySet` afterwards; the properties speak of the file. `Lying` joins the two: it
holds the triples of a descriptor, a name and the file that is the entry of that name in
the directory watched under that descriptor. As the tree is one and an inode has one
watch, the file determines descriptor and name and they determine the file
(`LyingMatched`), and a triple stays while nothing moves and no file goes, so that none
is ever open without a name (`NoneUnlinked`): a directory with a file in
it is not removed (`OthersPlaces`), and the tool takes no watch off a directory that
is there (`RmWatchEdits`; it needs `MadeOK` of `CompleteInv` for the rollback and
`Tidy` for DELETE_SELF and UNMOUNT). On it rest the three parts of the invariants:

* `EditsOK`: each MODIFY or CLOSE_WRITE with a name, in the buffer followed by the kernel's
  queue, is of a file that lies there, and a MODIFY is of one that is still `dirty`, that
  is, modified since its last report.
* `Remembered`: each path in `m_fileModifySet` is the path of a `dirty` file.
  `PhantomInv` is these two; overflows do not touch them, so `NoPhantoms` needs no
  condition on lost records.
* `OwedOK`, as long as the queue has not overflowed: a `dirty` file lies in a watched directory,
  its path is in `m_fileModifySet` or a MODIFY of it is on its way, and it is open or a
  CLOSE_WRITE of it is on its way *with no MODIFY behind it*. The order is the point. A file
  may be written and closed again while older records of it are unread, and a
  MODIFY_OVER takes the path out of the set: what is reported then is all that was
  modified up to that close, and what came later has a MODIFY in the queue that puts the
  path back, and a close behind that or still to come. `ModifyInv` is `EditsOK` and `OwedOK`.

`KeepsEdits` says what a step may do to the three parts. Most steps only add or remove
records that are no edits (`Plain`), which `QuietEdits` and `DropsEdits` settle for all of
them; `ModifyEdits` and `CloseFileEdits` are the two that make such records, merged with
the newest one or lost in an overflow if it comes to that (`EnqueuePuts`), and
`OnModifyEdits` and `OnCloseWriteEdits` the two that handle them. That the path
in a report is that of the file is `TreeInv` again, with `RecOK` for the entry to be a
recursive one.

The conditions are there because TLC has a counterexample for an instance in which one
of them fails and the others hold; section 4 describes most of these: a rename, unlinking or replacement of a file
(`FileMoved`), a rename of a directory (`DirRenamed`), a directory given to `watchFiles`
(`PlainWatch`), for `NoPhantoms` an `m_fileModifySet` that outlives the instance (`Stale`), and for
`ModificationsReported` a buffer that does (`Relic`), a file that is watched while its
directory is not (`Lone`) and a truncation of a file that no process has open
(`Truncated`). `NoPhantoms` has `Relic` only because `TidyInv` needs it; whether a
buffer that outlives the instance can lead to a wrong MODIFY_OVER is open. The invariants
were model-checked before they were proved, with directories and files that come and go,
two writers, a file given to `watchFiles`, three calls, and queues of two and of twenty records.

**The port mapping.** `AppInvHolds` is `Spec => []AppInv`. `NothingLeft` alone says
nothing before the program has ended, so `AppInv` follows the mapping through
`stop`: `TakenDown` holds from the moment the router was asked to delete the
mapping, or was found missing. To know that nothing comes afterwards,
`FlightOwned` says that a request under way belongs to the call that waits for it,
or is excused; to know that a missing router holds nothing, `NeverThere` says that
without a failure it never was there; `CallOK` keeps `stop` from asking for a
mapping. `RequestsHaveDevice` and `MappingTakenDown` follow.

**The server.** `HttpInvHolds` is `ServerSpec => []HttpInv`. `LoginWhole` is not
inductive by itself: when `Auth` stores the user it has to be known that the code in
hand was redeemed, and `CodeNotWasted` speaks only of the time between requests.
`Underway` says both for every moment: nobody is logged in while `Auth` waits, the
code in hand is spent once there is a token, and before that, without trouble, none
is. `LoginIsWhole`, `CodesServe` and the action property `LoginStays` follow.
`ServerIsApplication` shows `ServerSpec => Spec`: a handler is a stutter of
`Application`, and a handler that crashes is its `Abort`. So `ServerTakesDown` is
`MappingTakenDown` carried over, not proved again.

**Only model-checked:** the liveness properties and everything about ENABLED, `Drained`
included. `StopsMovedOut`, which the code does not keep (run `purge`), and the properties of
the other runs that expect a violation have no theorem either. Without the conditions in
the theorems, `MarkKnown`, `AbortExplained`, `NeverAborts`, `PathsRight`, `Complete`,
`NoPhantomModify` and `ModifyReported` are checked for the instances of the runs only, and
have to be: TLC refutes them for other constants (section 4), so there is no theorem to
prove. What `StringReplace` computes is not needed by any proof.

## 6. What is left out

* The fields of tokens, which `Auth` logs and drops, the text of the pages, and the
  requests that are commented out in `Auth` (lines 130-170).
* What `init` does before there is any state: it ends the program when the command
  line or the configuration cannot be read.
* `displayUpnp`, `DumpInotifyEvent`, `Event2String`, logging, command line, YAML:
  input and output without a state that matters here.
* The bytes of a record and the size of the read buffer: see `Capacity`.
* `removeWatch` (no body) and `timeout & 1000 * 1000` at line 234, which only
  changes how long a `select` waits.
* Third-party sources under `third_party/`, and the examples, except for the loop
  that justifies fairness.

* In the tree: a directory renamed over an empty one; the removal of a directory that an
  open, unlinked file was in; that DELETE_SELF of a directory waits until no process has
  it open. After an `Unmount` the place is empty, while really the directory the volume
  was mounted on reappears there, which nobody watches and no record but UNMOUNT tells of.
* The ACCESS and CLOSE_NOWRITE records of a listing, for which OPEN stands (section 4, item 1).
* `m_httpServer->stop()` (application.cpp:155) is no step of the model: it is taken to return.

## 7. What could come next

1. `InotifyPaths` against reference definitions over all short paths.
2. The paths in the reports as a part of the pipe, on top of `TreeInv`.
3. When the timers run one day: that some timer stays set as long as the server
   does, which is not so now (section 4).
