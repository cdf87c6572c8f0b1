# TLA+ models of the Zeppe-Lin tools

Zeppe-Lin is a GNU/Linux distribution.  Its repository is mostly *recipes*
(`Pkgfile`, `.footprint`, `.md5sum`, patches); the programs of its own are the
tools that build, install, upgrade and remove packages, the one the boot scripts
start and stop daemons with, and a window manager.  This directory holds TLA+
models of them, the configurations that check them with TLC, and the theorems
proved about them with TLAPS.

Contents: 1 the system, 2 the modules, 3 the runs, 4 the proofs, 5 what the code
does and its documents do not say, 6 what is not modelled, 7 the plan.

## 1. The system

### 1.1 Components

**pkgutils** (`core/pkgutils`; C++: `pkgadd`, `pkgrm`, `pkginfo`).
*State*: the package database `var/lib/pkg/db` (package → version, files), the
file system below the root, the rejected files below `var/lib/pkg/rejected`, and
the `flock` on `var/lib/pkg`.  *Operations*: install, upgrade (`-u`), with or
without `--force`; remove; query.  The rules of `pkgadd.conf` say which files of
an archive are never installed (`INSTALL`) and which an upgrade leaves alone
(`UPGRADE`).  *Hard*: several processes; the database is committed before the
files are extracted (pkgadd) and after they are deleted (pkgrm); an extraction may
fail half-way, a process may be killed anywhere.  *Correct* means: no file has
two owners, no run touches files of others unless forced, the database accounts
for what is on disk, protected files survive, runs end and release the lock.

**The database file** (`pkgutil::db_commit`).  *State*: three names
(`db`, `db.incomplete_transaction`, `db.backup`) and the inodes behind them.
*Operations*: unlink, creat, write, fsync, unlink, link, rename.  *Hard*: each
call may fail, the process may be killed and the power may fail between any two
of them; readers take no lock while they read.  *Correct*: a reader finds a whole
version at any time, also after a power loss; the backup is the version before.

**pkgman** (`core/pkgman`; C++).  *State*: a copy of the package database, read
once; the file of locked packages (`Locker`); log files; exit status.
*Operations*: `install`, `update`, `remove`, `sysup`, `lock`, `unlock`, and
commands that print.  A command becomes one or two *transactions*; a transaction
takes its packages in order and runs `pkgmk`, `pkgadd` or `pkgrm` as child
processes (`Process`), collecting the results in lists from which
`evaluateResult` computes the exit status.  Dependencies are ordered by a
topological sort (`DepResolver`).  *Hard*: the copy is stale after hours of
building while other instances work; children fail, are killed or cannot be
forked; the locked packages are read at the start and written back whole; cycles,
repeated and missing dependencies.  *Correct*: what is needed is installed first,
`--group` stops, locked packages are not updated, nothing is removed that others
need, exit status 0 means that the work was done.

**pkgmk** (`core/pkgmk`; shell).  *State*: in the directory of a package the
sources and partial downloads, the checksums `.md5sum`, `.footprint`, the package, the work
directory, and the modification times that decide whether there is anything to
build.  *Operations*: build, download only, extract only, clean, update the
checksums or the footprint, say whether a build is needed.  *Hard*: every step
may fail or be interrupted, and the next run judges by what was left behind.
*Correct*: a failed build never passes for a good one, nothing is packed from
sources whose checksum is wrong, the work directory goes.

**pkgman's questions**: what is asked before and beside the transactions.  *State*: the
configuration, a list of directories of which each may be narrowed to some
packages; the packages found there, of which the first of a name hides the
others; versions.  *Hard*: options and settings that meet, recursion over a graph
that may have cycles, an order of versions made of special cases.  *Correct*: the
first directory wins and nothing is lost, a list of dependencies is complete and in
order, two versions compare alike both ways round.

**rejmerge** (`core/rejmerge`; shell) walks through the rejected files that pkgadd
leaves and asks what to do with each: keep, upgrade, merge or skip.  *Hard*:
interruptions between two commands of one answer, an `mv` across file systems, a
pkgadd meanwhile.  *Correct*: what goes was decided upon, nothing is lost.

**revdep** (`core/revdep`; C++) reads the database, `ld.so.conf` and the headers of ELF
files and names packages with libraries that are not found.  *State*: the cache
of ELF files.  *Hard*: it has to find a library as the loader does.  *Correct*: a
package is named if and only if a library is missing.

**start-stop-daemon** (`core/start-stop-daemon`; C, from dpkg).  *State*: none of its
own but the pid file; it looks at and changes the process table.  *Operations*:
start (in the foreground or `--background`), stop (with a schedule of signals and
timeouts, `--retry`), status.  *Hard*: everything it has looked at may have
changed when it acts; processes end late or not at all, and their numbers are
used again; two callers at once.  *Correct*: one daemon, a stop that succeeds has
stopped it, a status that is true.

**dwm60cf** (`desktop/dwm60cf`; C), a window manager: dwm 6.0 with a dozen patches
merged by hand.  *State*: screens, on each the clients in two lists (order and
focus history), what tags are in view, and for each tag its settings (`pertag`).
*Operations*: a handler for each X event, and what keys and buttons do.  *Hard*:
the X server goes on while events are queued, a drag reads events out of order,
screens come and go, and every patch has its own idea of the settings.
*Correct*: no client is lost or listed twice, the keyboard follows the selection,
each tag keeps its settings.

Also: **pkgmaint** (`system/pkgmaint`; shell) looks for problems in the ports tree;
**mkinitramfs** (`system/mkinitramfs`; shell); **rc** (`core/rc`; boot and shutdown
scripts); **desktop tools** (dwmblocks, qemuconf, xkbswitch); **vendored
programs** (st, jukebox); **mkrootfs** and **rssfeeds**.

### 1.2 How they interact

    pkgman ──runs──> pkgmk ──leaves package in──> the package's directory
       │                                              │
       ├──runs──> pkgadd / pkgrm ──flock, db_commit──> var/lib/pkg/db
       │                  └──rejected files──> var/lib/pkg/rejected ──> rejmerge
       └──reads without lock──────────────────> var/lib/pkg/db <──reads── revdep

The interactions are shared files and exit codes.  In the models:
`DbCommit` justifies the single step in which `PkgUtils` writes the database, and
that readers without a lock (pkgman, revdep) see a whole version; `PkgUtils`
implements `PkgStore`; `Pkgman` takes from it that pkgadd and pkgrm are single
changes of the database that happen or fail, refusing to install what is
installed or to upgrade what is not; `DepResolver` justifies the orders that
`Pkgman` assumes.  `RejMerge` works on the files `PkgUtils` rejects, and its
assumption `Unseen` is a pkgadd that comes in between; `Revdep` reads what
`DbCommit` writes.  The scripts of `rc` call start-stop-daemon with the command
lines of the run `start_stop`.

## 2. The modules

| module | models | source |
|---|---|---|
| `PkgStore` | abstract: the database maps packages to files; one whole command at a time changes it | |
| `PkgUtils` | pkgadd, pkgrm, pkginfo over database, disk, rejected area and lock | `core/pkgutils/src/{pkgutil,pkgadd,pkgrm,pkginfo}.cc` |
| `AtomicStore` | abstract: a reader finds a whole version; a power loss may take back what was not flushed | |
| `DbCommit` | `db_commit`, system call by system call, over a file system that loses data | `pkgutil.cc` |
| `DepResolver` | `checkDependecies`, `checkPackage`, `DepResolver::resolve`, edge by edge | `core/pkgman/src/{transaction,depresolver}.cpp` |
| `Pkgman` | the commands, transactions, children, logs and locked packages | `core/pkgman/src/{pkgman,transaction,locker,process,pkgdb}.cpp` |
| `Pkgmk` | runs of pkgmk in a package's directory | `core/pkgmk/src/pkgmk.in` |
| `VersionComparator` | which of two versions is higher, character by character | `core/pkgman/src/versioncomparator.cpp` |
| `PkgmanConfig` | command line, configuration, choice of the command | `core/pkgman/src/{argparser,config,main}.cpp` |
| `PkgmanRepo` | directories of packages, Pkgfiles, the lists of installed and locked packages | `core/pkgman/src/{repository,package,pkgdb,locker}.cpp` |
| `PkgmanQueries` | the commands that only look, and the report of a transaction | `core/pkgman/src/pkgman.cpp` |
| `PkgmanChecks` | facts about these four, as named assumptions | |
| `Revdep`, `RevdepChecks` | revdep, and facts about it | `core/revdep/src/*.cpp` |
| `RejMerge`, `RejMergeChecks` | rejmerge, and facts about it | `core/rejmerge/src/rejmerge.in` |
| `StartStop` | start-stop-daemon, side by side over one process table and one pid file | `core/start-stop-daemon/src/start-stop-daemon.c` |
| `Dwm` | the window manager and the X server under it | `desktop/dwm60cf/src/{dwm60cf.c,config.h}` |
| `DwmLayouts` | where layouts put windows, size hints, snapping, the bar | `desktop/dwm60cf/src/dwm60cf.c` |
| `MC…` | instances for TLC | |
| `…_proofs` | theorems and their proofs | |

Definitions have the names of the functions they model where TLA+ allows it.
A definition whose comment begins with "Mutant" is a wrong variant of the one that follows
it, such as a plausible mistake in the code would give; TLC finds a property
violated when it takes the place of the right one.  `PROJECT.json` pairs each
property with one.

Programs that have a state others see are state machines with properties.  Those
that compute something from their input (comparison, configuration, queries,
revdep, rejmerge, geometry) are operators; what is true of them is stated in a
`…Checks` module, or in `MCDwm`, as named assumptions over all inputs up to a bound, which TLC
evaluates at the start of the run whose module extends it: `PkgmanChecks` with
`deps`, `RevdepChecks` with `commit`, `RejMergeChecks` with `pkgutils` and
`pkgutils_live`.  An assumption about a defect says on which inputs it bites.

### 2.1 PkgUtils

`fs` and `rejected` map paths to a mode and a content or `Absent`; `db` maps a
package to its files (`{}` if it is not installed).  Each process has a phase
(`pc`), a command, its copy of the database (`mem`, `pkgutil::packages`), the files
it has still to delete (`todo`) and the archive entry it is at (`pos`).

| code | actions |
|---|---|
| `db_lock`, `LOCK_NB`; pkginfo gives the lock back after `db_open` | `db_lock`, `db_lock_busy` |
| `db_open`, reading the archive list and the rules | `db_open`, `OpenFails` |
| `pkgadd::run` up to the first deletion | `Add`, `AddForce`, `AddRefused` |
| `pkgrm::run`, pkginfo | `Rm`, `RmRefused`, `Query` |
| `db_rm_pkg`, `db_rm_files`, one `remove(3)` at a time, in reverse order | `RemoveFile`, `RemoveDone` |
| `db_commit` | `Commit`, `CommitFails` |
| `pkg_install`, one archive entry at a time | `SkipEntry`, `ExtractEntry`, `RejectEntry`, `ExtractFails`, `ReopenFails`, `EndOfArchive` |
| `ldconfig` (pkgadd last, pkgrm before its commit) | `ldconfig`, `LdconfigFails` |
| SIGKILL; other signals are ignored by the programs | `Kill` |
| the administrator edits a file | `Edit` |

Every conflict, keep and install rule is computed as in the code from `mem`, the
disk and `Rules`, of which the last that matches decides.  Details worth
knowing: a fresh installation that fails is taken back (`Throw`), while the
exception of a failed upgrade is dropped; an upgrade goes on after a file that
cannot be extracted; a header that cannot be read ends the loop as the end of the
archive does; the keep list is made from the files the database records, after the
`INSTALL` rules; a rejected file that equals the installed one is removed again
with the directories it leaves empty (`file_remove`).

Abstractions: a file is its mode and content; a regular expression is the set of
paths it matches; versions, owners and times are part of "mode"; an absent
database is one without packages.  A path is always a directory or always not
one: archives that turn a directory into a file are outside the model.  An
extraction that fails or is killed leaves nothing, something partial (`Broken`),
or the parent directories libarchive makes.

### 2.2 DbCommit

Inodes have contents as processes see them; `synced` are those whose contents are
on disk.  `dir` is the directory as processes see it; `pending` is the set of states of
the directory since it was last written back: a journaling file system
writes directory changes in order, so that after `Loss` one of those states is
there.  `db_commit` synchronizes the file and not the directory.
`Stop` is a failing system call or a kill, `Flush` the file system writing the
directory back.  After either the next commit starts over, from the left-overs.

### 2.3 DepResolver

The recursion of `checkDependecies` is an explicit stack, one dependency per
step.  Indices are given in the order in which packages are first seen; the edges
and predecessor counts are those of `depresolver.cpp`, including
that a dependency listed twice makes two edges, and that a package which lists
itself makes none (`depresolver.cpp:38`), so that it can be installed.  The successors of the element being
visited are the set of the pairs still to be knocked down (`succs`), taken in any order.  The recursion ends at a
package seen before; a missing package is recorded.

### 2.4 Pkgman

Each instance has the command it runs, its copies `known` (`PkgDB`) and `mine`
(`Locker`), the `plan` of transactions with the packages to come, the lists
(`report`) and whether `m_returnValue` is an error (`failed`).  `Open` computes the
plan as `install`, `remove` and `sysup` do; the actions that follow take one
package each: ignored, missing, already installed, log file, pkgmk, pkgadd,
pkgrm.  `Truncate` and `Write` are the two moments of `Locker::store`, which
`remove` and `setLock` call.  A child that fails has a status of its own; one
that is killed or cannot be forked has status 0 (`Made`, `AddLost`, `Removed`),
because `Process::executeShell` divides the wait status by 256.

Abstractions: a database maps a package to *none*, *old* or *new* as compared with
its sources; the copy `known` is read at once (the code reads it lazily, at
the first question, before any transaction); `DepResolver` is any order that its
property `Sorted` allows; an orphaned child of an instance that got a signal is
taken as done before the signal; what `Write` leaves of another instance's lines is
any subset of them (the files are small, but nothing in the code orders the
writes).

### 2.5 Pkgmk

The modification times are one variable, `age`: the package is *newer* than the
Pkgfile and every source, or *older* (`build_needed`).  A download takes the server's
time, so that it may or may not make the package out of date; one that was cut short
is resumed by the next run, also if the file has changed upstream, so that a
downloaded source may contain anything and what was cut short needs no variable.
`target` is the package: its `state` (*open* while bsdtar writes it or after a
failure, *whole*, *cut* short by a signal, or *forced* by `-uf`), the source and the
list of files it was made of, and whether its `recipe` is *this* Pkgfile or a
*former* one.  `state` and `recipe` serve the properties only: pkgmk sees
nothing of them.
`work` is the work directory, removed by `atexit` at every
exit but a SIGKILL, unless `-kw`.  `md5sum` and `footprint` are written by the
first run that finds none.  The script runs under `sh -e` (`pkgmk.in:1`), and what fails outside a
condition ends it with its own status: a failed `build`, or what is done to its files before
bsdtar, leaves the package as it is and as new as it is (`BuildFails`), and so does a failed
download command (`DownloadFails`); the constant `Status` holds the statuses
commands fail with.  Only bsdtar stands in an `if`, whose failure makes the package older and
exits with 8 (`Fail`).  Runs follow one another; between runs somebody may
change the recipe, the checksums, the footprint or remove sources (`Edit`).

Abstractions: one source, standing for the first that fails; one mode per command
line; the checks of directory permissions are left out.

### 2.6 StartStop

An instance goes through a command line at a time: `Invoke` parses it
(`parse_options`, with everything that is refused and its exit status; `setup_refuses` for users
and groups that are not in `Uid` and `Groups`), then
`do_findprocs` looks at the pid file or at one process after the other
(`do_pidfile`, `CheckPid`), and start, stop or status follow.  `daemonize`,
`SecondFork`, `OpenPidfile`, `write_pidfile`, `wait_for_child` and `Exec` are the steps of a
`--background` start, whose two processes go on side by side; `Signal`, `Poll`,
`do_stop`, `Judge` those of a stop and its schedule, in which a string is a
signal, a number of seconds or *forever* (a jump back).  A process may end (`Die`)
and its number go to another program (`Reuse`) between any two of these.
`careful` says that nobody has, so far, used it in one of the ways the code does not guard
against.  `Careful` asks that runs do not overlap; that every start records its daemon in the
pid file, matches by nothing but that file and `--exec`, and by `--exec` only when no earlier start is still on its way
to `execv`; and that a stop which removes the pid file goes by it alone, waits (`--retry`),
sends signals that exist and may signal the daemon.  Time is counted in ticks.
Left out: how the kernel is asked (one file of ten, one per system), `--chroot`,
`--chdir`, `--nicelevel`, and the notification protocol, which the package's own
patch compiles out.

### 2.7 Dwm and DwmLayouts

dwm is one loop that runs one handler at a time, so each handler is an operator on
`wm`, the record of what dwm and the X server know, composed as the functions call
each other (`focus`, `unfocus`, `arrange`, `drawbar`, …), and an action applies
it.  The concurrency is outside: programs map, unmap and destroy windows and take
the focus (`Map`, `Unmap`, `Destroy`, `Steal`), or say themselves that their window is
unmapped, which dwm only notes (`Withdraw`), while `queue` still holds the events
that say so, and X errors that come late are ignored as in `xerror`.  A drag
(`StartDrag` to `DragRelease`) takes `MapRequest` out of the queue before what
stands ahead of it.  `toggleview` shifts by `curtag-1`, which is undefined for
*all tags*: any outcome is allowed there.  `drawbar` with no client selected sets
`run` to *crashed*, and nothing happens afterwards.  A loop of the code that takes one
client or screen after the other (`scan`, screens that go, `updategeom`) is a recursive
function over their number.
At its start dwm manages the windows that are mapped and those an earlier manager has left as icons (`Scan`);
new size hints may make a client's size fixed or not (`SizeHints`).
`DwmLayouts` computes places with C's division: `applysizehints`, `resize`'s
callers, snapping, the five layouts, the position of the bar.

### 2.8 The programs as operators

`VersionComparator` splits a version into blocks, tokens and runs of digits as the
code does, with `strtol`'s saturation, and with *CRASH* where the code indexes an empty
string.  `PkgmanConfig` treats options as pairs of a name and a value, and
`PkgmanRepo` a pattern as the set of names it matches.  `PkgmanQueries` gives
what a command prints, line by line, and what it returns; a recursion that does not end
is one that exceeds `MaxLevel`.
`Revdep` takes a path as the sequence of its parts; a file is what `Elf` reads of
it; `realpath` is a function.  `RejMerge` turns answers into lists of commands
(`rm`, `mv`, `chmod`, `chown`) on an installed and a rejected file, so that an
interruption is a prefix of the list.

## 3. The runs

All runs use small sets of model values named in the `MC` module or the `.cfg`.

| run | question | bounds | result |
|---|---|---|---|
| `pkgutils` | two processes, every command, every fault but a failing deletion: ownership, protection, orphans, removals, refinement of `PkgStore` | 2 processes; packages A, B; two versions of A; a directory with a configuration file, a program both packages ship, a document that is never installed; 8 command lines, symmetry of the processes | holds, 434,862 states |
| `pkgutils_live` | every run ends and gives the lock back; a pkgadd that read its archive leaves everything; nothing on disk is adopted, not even what a failed deletion left | as above with 4 command lines; deletions may fail, the second open may fail, processes may be killed; no symmetry | holds, 248,620 states |
| `commit` | `db_commit` is atomic, the backup right, the refinement of `AtomicStore`; the facts about revdep | 4 inodes, 2 values; programs with up to two libraries in five directories | holds, 396,584 states |
| `deps` | order, cycles, missing packages, termination; the facts about pkgman's questions | all graphs of 3 packages with up to two listed dependencies (one for the third) and a name without sources; arguments up to length 2 | holds, 140,478 states |
| `pkgman_one` | every operation of one instance: order with `--group`, removals with `--deps`, locks, exit status | every database of 4 packages, three sets of locked packages, every operation with the options that matter; children fail, signals | holds, 1,138,867 states |
| `pkgman_two` | two instances with stale copies: what happens to installed packages | 5 command lines, two databases; lost children, failing store, logs in append mode | holds, 384,876 states |
| `pkgmk` | sequences of runs with every mode and option | 2 contents, 2 lists of files; every fault, commands that fail with 8 or another status | holds, 2,199,967 states |
| `start_stop` | two callers over one process table: one daemon, stops that tell the truth, statuses that are true | 2 process numbers; the daemon and another program; 9 and 5 command lines, of the rc scripts and beyond; processes end, multiply and lose their numbers; the pid file or exec may fail | holds, 1,133,362 states |
| `dwm` | every handler, screens that come and go, drags, programs that act meanwhile; the facts about geometry | 2 windows, one the dialog of the other; 2 tags, 2 screens; 4 inputs of users and programs (`MaxInputs`, a change of a setting, a sent event and new size hints count twice, a window unmapped at the start once), 3 queued events | holds, 332,960 states |
| `pkgman_lost`, `pkgman_group`, `pkgmk_signal` | see section 5 | one instance, one command line each | violated |

Why the bounds are enough: two processes give every pair of lock modes and every interleaving of a
writer with a reader or another writer, and more than two never get the lock together; two packages share a
directory and contend for a program; an upgrade drops a file, changes a mode
and a content.  Runs are not bounded in number: every process starts again when
it has ended, so that half-done work of killed runs is met by every command.
Three packages and two dependencies each give chains, diamonds (with the
arguments), cycles of length 1, 2 and 3, repeated and missing dependencies.  Four
inodes are the database, its backup, a left-over and the new version; the proofs
hold for any set of inodes.  The base of the packages in the
`pkgman` runs is a chain with a diamond (app needs lib and base, lib needs base) whose
end needs a package without sources.

Two callers of start-stop-daemon are enough for a start beside a start, a stop or a
status; two process numbers are enough for a number that is used again while the daemon
has the other.  In `dwm`, two clients give every order of the two lists, two
screens every way to send a client, two tags a view with and without it; the
four inputs start from every set of windows and hints that dwm may find at its start (`Scan`), and are
followed by as many events as they cause.  Deadlock is not checked there, because dwm may quit
or crash, and inputs run out.  All other runs check deadlock.

The run `pkgutils` leaves out failing deletions, because then a removal drops the
record of a file that stays (`Removed` and `NoOrphans` would say that deletions
do not fail); the run `pkgutils_live` and the proofs cover them.
It also has a header that cannot be read and extractions that fail in an upgrade,
where pkgadd exits 0 with files missing; hence `Complete` belongs to the other
run.

### 3.1 The properties

`PkgUtils`: `SoleOwner` (no file has two owners), `OwnRecordOnly` (a commit changes
only the record of its own package and what `--force` takes: no lost update),
`OwnFilesOnly` (without `--force` only files of the own package are touched),
`NoAdoption` (no package comes to own a file that is there), `NoOrphans` (a file
appears only when recorded and loses its record only when gone, at any step, so
also at a kill), `ProtectedKept` (upgrades leave protected files), `Complete`,
`Removed` (what is on disk at the end), `StoreSpec` (refinement of `PkgStore`),
`Terminates`.

`DbCommit`: `Intact`, `Frozen` (no file a reader may have open is written), `Backup`,
`StoreSpec` (refinement of `AtomicStore`).

`DepResolver`: `Ready` (counts agree with the edges), `Sorted`, `Cyclic`
(failure is reported exactly when there is a cycle), `Missing`, `Terminates`.

`Pkgman`: `GroupOrder`, `RemovableSafe`, `LockedKept`, `ExitStatus`, `InstallKeeps`.
`ExitStatus` claims something for one instance whose children are not lost, for
commands without `--test` and `-do`, and for packages that have sources.

`Pkgmk`: `NothingToDo`, `Verified`, `CleanWork`.

`StartStop`: `OneDaemon` (with careful use at most one daemon runs), `GoneOnSuccess` (a
stop with `--retry` that succeeds has seen the end of all it signalled; `Obeyable`
says for which command lines: `kill(2)` fails for a signal that does not exist, which the code takes
for a process that is gone, and a process that matched before its `execv` has to match after it),
`StatusTrue` (a status that says "not running" is right).

`Dwm`: `Listed` (each client once in both lists of its own screen), `NoGhosts`,
`FocusKept` (selection, top of the focus history and keyboard agree, and every
handler but the two named in it keeps that), `SettingsKept` (a tag's settings change only
by keys for settings while it is in view).
`MCDwm` states of the geometry: `LayoutsFit`, `PlacesFit`, `SnapsNear`, `HintsFit`
and `PointsFound`.

`PkgmanChecks`: comparison (`TestTable`, the table of the code's own test,
`Antisymmetric`, `NoOrder`, `Boundaries`), command line (`OptionsAnywhere`,
`RunsFirstWord`, `LostOption`), configuration (`RootOrder`, `SetNothing`,
`LogOnlyWithFile`, `DumpShows`), repository (`FirstRootWins`, `ShadowsItself`,
`GoneEnds`, `LastLineDecides`, `OutputDir`), dependencies (`DepsRight`,
`DepSorted`, `DepAndRevDep`, `TreeAndList`, `EndlessOnCycle`, `MissingDeps`,
`RemovableUnused`, `RemoveEndless`) and the other commands (`Orphans`,
`NodependentsRemovable`, `DiffCounts`, `DiffOverlap`, `RegexFindsNothing`,
`PrintfOrder`, `IsInst`, `LockUnlock`, `Reported`).
`RevdepChecks`: `Linking` (a library is found where a reference definition of the
search order finds one, whatever is cached), `Broken` (exit status 4 exactly
when something is missing), `ReadsWhatIsWritten`, `IncludeDepth`, `Resolved`,
`InheritedRPath`, `RelativeName`, `Named`, `Refusals`.
`RejMergeChecks`: `GoesWhenDecided`, `KeepsInstalled`, `Permissions`,
`SkippedPermissions`, `Resumable` (an interruption after any command loses
nothing, and the next run comes to the same), `TornMerge`, `Unasked`, `Unseen`, `EmptiesArea`, `StartsFor`.

### 3.2 Fairness

`pkgutils_live` assumes weak fairness of each process' `Step`: a process that has
been started is scheduled by the kernel until it ends.  Nothing blocks: the lock
is taken with `LOCK_NB`, and a process that does not get it exits.  Starting,
killing and editing are not fair.  `deps` assumes weak fairness of the
calculation, a sequential program.  The safety runs assume none.

## 4. The proofs

Each `…_proofs` module proves for all values of the constants, under the
assumptions stated in the modules (`ASSUME`; TLC evaluates them in the runs): any
number of processes, packages, paths, archives, rules, faults, windows, tags.

| module | theorems, and the property each proves |
|---|---|
| `PkgUtils_proofs` | `TypeCorrect` (`TypeOK`), `OneOwner` (`SoleOwner`), `OwnFiles` (`OwnFilesOnly`), `OwnRecord` (`OwnRecordOnly`), `Accounted` (`NoOrphans`), `Adoption` (`NoAdoption`), `Protection` (`ProtectedKept`), `Deleted` (`Removed`), `AllOnDisk` (`Complete`), `Refinement` (`StoreSpec`) |
| `DbCommit_proofs` | `DbTypes` (`TypeOK`), `DbIntact` (`Intact`), `DbFrozen` (`Frozen`), `DbBackup` (`Backup`), `Refinement` (`StoreSpec`) |
| `DepResolver_proofs` | `TypesHold`, `AssertionHolds` (`Ready`), `SortIsRight` (`Sorted`), `CycleIsReal` (`Cyclic`), `MissingIsRight` (`Missing`) |
| `Pkgman_proofs` | `TypeCorrect` (`TypeOK`), `LocksKept` (`LockedKept`), `RemovalsSafe` (`RemovableSafe`), `OrderKept` (`GroupOrder`), `KeepsInstalled` (`InstallKeeps`), `ExitMeans` (`ExitStatus`) |
| `Pkgmk_proofs` | `TypeCorrect` (`TypeOK`), `FailureShows` (`NothingToDo`), `SourcesVerified` (`Verified`), `WorkCleaned` (`CleanWork`) |
| `StartStop_proofs` | `TypeCorrect` (`TypeOK`), `Gone` (`GoneOnSuccess`), `AtMostOne` (`OneDaemon`), `Truthful` (`StatusTrue`) |
| `Dwm_proofs` | `TypeCorrect` (`TypeOK`), `ClientsListed` (`Listed`), `NoGhostsKept` (`NoGhosts`), `SettingsStay` (`SettingsKept`) |
| `Dwm_focus_proofs` | `FocusStays` (`FocusKept`) |

**PkgUtils_proofs.**  `IInv` is `TypeOK`, `LockInv` (an exclusive lock excludes
the others), `SoleOwner`, and for each process what its memory is worth at each
phase: from `db_open` to its commit `mem` is the database on disk, with just the
changes the command makes; the files to delete belong to the package (or are the
conflicts `--force` takes) and to nobody else, and are recorded until they are
gone; during the extraction the record on disk is that of the archive.
`SoleOwner` alone is not inductive: a commit writes `mem`, so one has to know that
nobody else has written since `mem` was read (which is the lock), and that the
conflict check covers every file that is new to the package.  The lemmas go
command by command (`AddStep`, `AddForceStep`, `RmStep`, `ThrowStep`,
`RemoveFileStep`, `RemoveDoneStep`, `InstallStep`, `CommitStep`).
What a run has done when it ends needs three more facts for each process:
`Emptied` (what the deletion has passed is gone, or is a directory that holds
something it will not come to: it goes through the paths in reverse order),
`Fresh` (`pkg_install` begins with the first entry) and `Laid` (the entries it has
passed are on disk, or are never installed).  `Accounted` and `Deleted` assume that deletions
do not fail and `AllOnDisk` that extractions do not, for a command that fails in them
leaves something else on purpose.

**DbCommit_proofs.**  `IInv` is `TypeOK`; `Recoverable`: in every state of the
directory that may come back, `db` is there, and what `db` and `bak` name is whole *and*
synchronized; and `NewInv`: the new file is at no other name in any such state, and
is whole from the write and synchronized from the fsync on.  `Intact` speaks only of the present directory and is not inductive under a
power loss.

**DepResolver_proofs.**  For every graph, with any number of packages.  Of the
recursion over the packages `IInv` says: the list is without repetitions and every package in it is in a pair
(`ListedOnce`); a call is for a name that was given or that a listed
package lists (`Called`); such a name is reported missing, paired with the one that lists it, or
its call is still to come (`Covered`); no pair, name or package is there
without reason (`Grounded`: the list lies in every set that is closed under dependencies).
Of the sort: a count is the number of the pairs that still hold the package back (`Counted`);
the result holds just those that wait for nothing, and each after what precedes it
(`Placed`); the pairs being knocked down begin at the element visited last
(`Visiting`); the verdict is that of the code (`Ended`).  `Sorted` needs the two halves together: that the
list is the closure comes from the first, the order from the second.  The
assertion in `topSort` (`Ready`) is not inductive alone, since a count says
nothing of which pairs it counts.  `Cyclic` at the end is an argument about a set: if counts are left, the packages they belong to
each have a predecessor among them.

**Pkgman_proofs.**  For any number of instances whose copies are stale, `IInv` is
`Types` and for each instance: where it is (`Stage`); that only updates
come after the first transaction of its plan (`UpdatesFollow`); that what its plan removes beyond its arguments is
needed by nothing it knows to be installed (`Unneeded`, by its copy, which is what the code
promises); that the plan of a `sysup` has no locked package (`LockFree`); and that with `--deps`
and `--group` what a package needs was there, is reported as installed, or comes
earlier in the plan (`Ordered`).  The last is why a package that is passed over,
fails, or is found installed does not break the order: with `--group` a failure ends the
plan.
`ExitMeans` is about one instance whose children are not lost and whose lock file can be written
(`Single`), because it is false otherwise (section 5).  `Duty` says what such an instance
still owes: its command and plan agree (`Fits`), its copies are what the files hold as far as it
matters (`Current`), what it is to do is done, reported or ahead in the plan (`OnTheWay`), and an instance that has exited
with 0 has done it (`Done`).  `OnTheWay` holds only while nothing was reported that makes the exit
status an error (`Clean`), and `evaluateResult` closes the gap: it fails exactly when
something was.

**Pkgmk_proofs.**  `IInv` is `TypeOK`, `CleanWork` and two more.  `Sound`:
outside bsdtar a package newer than its sources passes for a reason (it is whole and
current, or was cut by a signal, or forced), the one just packed is whole and
current, and a build ends with 0 only with one that passes.  `Checked`: from the check
of the checksums on, the sources agree with `.md5sum` unless `-im` was given, and
what is packed is made of them.  `NothingToDo` speaks only of the time between
runs; that it survives one needs `Sound` at each step, in particular that a
failing bsdtar makes the package older again, and that a build which fails before
bsdtar has begun has touched nothing.

**StartStop_proofs.**  For any number of callers, command lines and process numbers.
`Base` types the variables, says what `parse_options` accepts (a schedule is
never left at its end, since a jump leads back to an item) and where a run is.  `AllHits` is about a stop: what it
has signalled and not seen gone still matches, and the poll that is under way will come to it or has
found it; `Gone` rests on it, under `Obeyable`.  `Safe` holds while use is careful: `Secure`
says that one run at a time is on its way, that there is one daemon, that the pid file names it unless
the run that is to write it is still at it, and for each phase what the run has found
out.  `OneDaemon` alone is not inductive: a second start is refused because of
what stands in the pid file, and a stop may take that away.  The assumptions say
that process numbers begin at 1, what the pid file may hold at first, and, because
what a fold over the words of a command line yields cannot be proved here, that it is a record of options.

**Dwm_proofs.**  For any number of windows, tags, rules and screens.  `IInv` is `Sound`, of which the core is `Good`: a
client is on a screen that is there and has a tag, a screen shows a tag, and the two
lists of a screen hold its clients, each once (`Linked`).  Also: what a screen shows is what
its current tag has (`Tuned`), no client was there before `scan`, what is mapped exists, a drag is of a client,
and a client without a window has its event in the queue (`Ghostless`).
A handler is one step and calls a dozen functions, which break this and repair it: `Partial(d, A, B)`
is `Good` but for the clients of `A`, which are out of the list, and those of `B`, out of
the history.  So there is a lemma for each function of the code (`attachFact`, `detachstackFact`, `focusFact`,
`arrangeFact`, `sendmonFact`, …) that says what it makes of a good state, in terms of a few
relations that compose: `Leads` (good again, with the same clients, tags in view and settings), `Turns` (other
tags in view, the settings of every tag the same), `Changes` (the same tags in view, other settings for the current one),
`Shows` (but the current tag's settings are still to be fetched), `Joins` and `Leaves` (a client more or less),
`Frees` (clients let go at the end), `Refits` (screens that come or go), `Asks` (requests to map).
`SettingsStay` follows from which of them each handler has: all but the keys for settings keep
`Same`, those keys come down to `Sets`.  That a view keeps the settings is the step to look at (`apply_viewFact`): it
calls `togglebar`, which stores what it shows, and stores what is there only because the current tag
has changed before and the bar is toggled just when the two differ.
Recursive functions over clients and screens are unfolded by one lemma (`Unfolding`); that
what holds of each step holds of all is induction over the natural numbers, for which
`Upward` takes the least counterexample.

**Dwm_focus_proofs.**  That the focus is right (`Focused`) is no invariant: two handlers break it
and do not repair it.  So `FocusStays` is about single steps, from states in which `IInv` holds.
Most handlers end with `focus`, whose lemma says that it leaves the state `Settled`: the selection
is the first of the history that is in view, is not urgent, and has the keyboard unless it is hidden
or does not want it; drawing the bars afterwards keeps that or ends the program (`Ends`).  The
others (flags, settings, hints, layouts) are `Steady`: selected screen, history, what is in
view and the keyboard stay as they were.  `Focuses` follows from either, and
composes.  The keyboard may also be with a window that stole it, as long as the event that gives it
back waits; the lemmas on the queue (`WaitsAppend`, `WaitsJoined`, `WaitsTail`, `WaitsRemoved`) say
what a handler that adds or takes events does to that.  A change of screens ends with `focus`
but in one case, fewer screens and the same clients (`updategeomFact`), which is the
exception `FocusKept` names.

Not proved, only model-checked: liveness (`Terminates` of `PkgUtils` and
`DepResolver`; out of the reach of the provers); the facts
about operators, evaluated for all inputs up to a bound.

## 5. What the code does and its documents do not say

Shown by a run that finds the documented behaviour violated:

- `pkgman_lost`: `Process::executeShell` (`process.cpp:66`) turns the status of a
  child that was killed, and the -1 of a failed fork, into 0.  pkgman reports the
  package as installed.
- `pkgman_group`: `update --deps --group` does not look at the result of the
  transaction of the missing dependencies (`pkgman.cpp:827`) and updates what needs
  them.
- `pkgmk_signal`: the trap for signals (`pkgmk.in:522`) does not age the package as
  it is when bsdtar fails.  A package that was cut short is newer than its sources, and
  the next run, and pkgman, take it for up to date.

Part of the models and reachable there, without a run of its own: a rejected
directory is deleted again when the last rejected file in it turns out equal
(`pkgutil.cc:993`); `Locker::store` writes back a list as old as the process and
truncates it first (`locker.cpp:54`); two instances use the same log file, because
`logFileCreate` never fails for one that exists (`transaction.cpp:500`);
`unlock` of a name given twice refuses the second one and stores nothing (`pkgman.cpp:938`);
`remove --test` stores the list of locked packages (`transaction.cpp:302`);
`remove --deps` goes by name, not in the listed order (`pkgman.cpp:857`);
`install --deps` says nothing of an argument without sources (`pkgman.cpp:832`);
a footprint mismatch does not fail the next run (`pkgmk.in:453`); under `sh -e` a failed build
exits with the status of the command that failed and not with the 8 of `pkgmk.8.pod:169`, so that
`pkgmk.in:464` is only for bsdtar, and after a `-f` that failed so the old package still counts as up to date; a failed
download command does not give the 4 of `pkgmk.8.pod:153`, and a download that cannot be resumed is not
restarted (`pkgmk.in:175`); `-eo` removes
what it has extracted, and `-utd` and `-h` a kept work directory, on the way out
(`pkgmk.in:528`).

The following is reachable in the models of the other programs, or stated by an assumption of
a `…Checks` module where one is named.

**start-stop-daemon** (all outside `careful`, or inside what `StatusTrue` and
`GoneOnSuccess` do not claim).  Two starts that overlap run two daemons, and so does a start
that matches `--exec` before the child of a `--background` start has reached `execv`.  A `write_pidfile` that
fails in the second parent, at its `open` or its `fclose`, leaves a daemon that no pid file names.  A process number
taken over between the look and the signal gets the signal.  A pid file that was
opened and not written yet is "unknown".  `--remove-pidfile` without `--retry` removes
it while the process lives.  A pid file with 0 signals the own group; one that
`--umask 0 --make-pidfile` has written is refused later.  A slash at the end of
`--retry` is an internal error, `--procsched fifo` without a priority is refused,
`fatal` exits with 2 where the manual page has 3.

**dwm60cf**.  `drawbar` (line 1152) reads the selected client where there is none, when an
empty screen is focused and another one shows a window in the monocle or
floating layout.  The current tag of `pertag` is not one in view after two
`toggleview`s and Mod+Tab.  A window that is mapped and announced during a drag changes which client
`togglefloating` acts on; one that is unmapped and mapped again before the drag reads the request stays unmapped,
because the request is dropped.  A screen without clients that is unplugged, and a client
that begins to accept the keyboard, leave the focus where it is (the exceptions
in `FocusKept`).  Asking twice for the full screen forgets the old state.  `tags`
is indexed by the screen's number, a constant 255 stands for nine tags, `winview`
uses the selected screen for a client of another one, `updategeom` ignores a
changed geometry when screens go.

**pkgman**.  `--prefer-higher` and `--strict-diff` are documented
(`pkgman-list-dup.1.pod` and others) and not known to the parser: after the
command they are reported, the command runs and later options are lost
(`LostOption`).  LESS has a cycle, two dots in a row may end pkgman (`NoOrder`,
`Boundaries`).  `useregex yes` lets plain `list` and `mdep` find nothing
(`RegexFindsNothing`).  A configuration that cannot be read takes `--config-set` and
`--log` with it (`LogOnlyWithFile`); `dumpconfig` hides three settings
(`DumpShows`).  A directory listed with a filter and again is its own duplicate
(`ShadowsItself`); one that is gone ends pkgman (`GoneEnds`); a remark in a
Pkgfile that looks like a list of dependencies is one (`LastLineDecides`).
`dep`, `rdep` and `remove --deps --recursive` do not end on a cycle
(`EndlessOnCycle`, `RemoveEndless`); `list-orphans` fails when nothing installed
has sources (`Orphans`); overlapping patterns of `diff` are refused (`DiffOverlap`);
`printf --sort` loses a package whose sort values and name run together to the key of another
(`PrintfOrder`).

**revdep**.  The RPATH of a program is not used for its libraries' needs
(`InheritedRPath`), and a name with a slash is taken from the program's directory
(`RelativeName`); `revdep.1.pod:17` says "the same algorithm that ld.so uses".  A path and a
directory that both name `$ORIGIN` are replaced for ever (`Resolved`); a record
with one line hides all after it (`ReadsWhatIsWritten`); an unknown package on the
command line is passed over with status 0 (`Named`).

**rejmerge**.  A merged file gets the mode of the installed one and not its owner
(`Permissions`); permissions that were skipped are forgotten when the contents are
equal (`SkippedPermissions`); a rejected file whose installed one is a dangling
link is removed without a question, and `mv` puts a file into a directory
(`Unasked`); the merged file's way from `/tmp` may be cut short (`TornMerge`);
what the user has seen may be replaced meanwhile (`Unseen`).

## 6. What is not modelled

- pkgutils: `pkginfo -f`, which only prints.  pkgman: run scripts (their results
  are printed only), the bytes of the log pipe, the text of patterns, `DataFileParser`
  (nothing calls it), commands in a version (`expandShellCommands`).
- pkgmk: runs side by side in one directory, more than one source.
- rejmerge: `rejmerge.conf`, which may redefine its functions; names with blanks.
- revdep: what libelf makes of a malformed file; what `--verbose` prints.
- start-stop-daemon: see 2.6.  dwm60cf: drawing, colours and fonts, `spawn`,
  `nametag`, patches that are not compiled in.
- `pkgmaint`, `mkinitramfs`, `mkrootfs`, `rssfeeds`: they read and print, or
  copy files, without state that another step relies on.
- `rc`: straight-line scripts; how they use start-stop-daemon is in `start_stop`.
- dwmblocks, qemuconf, xkbswitch: small; st and jukebox: third-party.
- Recipes: data for pkgmk.

## 7. The plan

Done: the models of section 2 and their runs; theorems for every invariant,
refinement and action property that the runs find to hold.

What is left, in the order of its worth:

1. Two runs of pkgmk in one directory.
2. dwmblocks' signal handling, the runlevels of `rc`.
