--------------------------------- MODULE Pkgmk ---------------------------------
(***************************************************************************)
(* pkgmk: runs in the directory of one package, one after the other, with  *)
(* what they leave there: the package, its sources and their checksums,    *)
(* the footprint and the work directory.  Whether there is anything to     *)
(* build is decided by modification times, and a run may fail or be cut    *)
(* short anywhere.                                                         *)
(***************************************************************************)
EXTENDS Naturals

CONSTANTS
  Content,  \* what a source file may contain
  Listing,  \* what files a build may install
  None,     \* no such file
  Cmds,     \* the command lines to consider
  Status,   \* with what the commands of a build or a download may fail
  Faults    \* what may go wrong: a subset of Fault

Mode == {"build", "do", "eo", "utd", "uf", "um", "c", "h"}
Option == {"d", "f", "if", "im", "cm", "kw"}
Command == [mode : Mode, opts : SUBSET Option]

Fault == {"download", "unpack", "build", "pack", "signal", "kill"}

\* A package: how far bsdtar came with it, the source it is made of, its files,
\* and whether the Pkgfile is still the one it was built by.  That bsdtar was cut
\* short by a signal, or that -uf has made the package pass for a good one, is
\* kept for the properties only.
Package == [state : {"open", "whole", "cut", "forced"}, source : Content,
            listing : Listing, recipe : {"this", "former"}]

ASSUME PkgmkAssumption ==
  /\ None \notin Content \union Listing \union Package
  /\ Cmds \subseteq Command
  /\ Status \subseteq 1..255
  /\ Faults \subseteq Fault

VARIABLES
  source,     \* the source file
  md5sum,     \* what .md5sum says of the source
  footprint,  \* .footprint
  target,     \* the package
  age,        \* it is newer or older than the Pkgfile and the sources
  work,       \* the work directory: none, made, or with the sources in it
  pc,         \* what the run is at
  cmd,        \* its command line
  code        \* the exit status of the last run, or how it ended otherwise

files == <<source, md5sum, footprint, target, age>>
vars == <<source, md5sum, footprint, target, age, work, pc, cmd, code>>

\* Beyond every exit status: no run has ended since the files were edited; the
\* last one was killed.
NoRun == 256
Killed == 257

\* A fresh checkout of the package's directory.
Init ==
  /\ source = None
  /\ md5sum \in Content \union {None}
  /\ footprint \in Listing \union {None}
  /\ target = None
  /\ age = "older"
  /\ work = None
  /\ pc = "idle"
  /\ cmd \in Cmds
  /\ code = NoRun

Has(opt) == opt \in cmd.opts

\* Mutant: what is left to clean is only cleaned at the end of a build.
ExitNoTrap(status) ==
  /\ pc' = "idle"
  /\ code' = status
  /\ work' = IF Has("kw") \/ status \notin {0, 8} THEN work ELSE None

\* Every exit runs atexit, which removes the work directory.
Exit(status) ==
  /\ pc' = "idle"
  /\ code' = status
  /\ work' = IF Has("kw") THEN work ELSE None

Go(where) == pc' = where /\ UNCHANGED code

Start ==
  /\ pc = "idle"
  /\ cmd' \in Cmds
  /\ Go("main")
  /\ UNCHANGED <<files, work>>

-------------------------------------------------------------------------------
(* main: what does not build.                                              *)

\* Help and version; -utd only says what build_needed found.
Inform ==
  /\ pc = "main"
  /\ cmd.mode \in {"h", "utd"}
  /\ Exit(0)
  /\ UNCHANGED <<files, cmd>>

clean ==
  /\ pc = "main"
  /\ cmd.mode = "c"
  /\ target' = None
  /\ source' = None
  /\ age' = "older"
  /\ Exit(0)
  /\ UNCHANGED <<md5sum, footprint, cmd>>

\* The footprint of the last package becomes the right one, and the package
\* up to date.  Of an archive that is cut short it is what can be read.
update_footprint ==
  /\ pc = "main"
  /\ cmd.mode = "uf"
  /\ IF target = None
     THEN Exit(1) /\ UNCHANGED <<footprint, age, target>>
     ELSE footprint' = target.listing /\ age' = "newer" /\ Exit(0)
          /\ target' = [target EXCEPT !.state = "forced"]
  /\ UNCHANGED <<source, md5sum, cmd>>

build_needed == target = None \/ age = "older"

UpToDate ==
  /\ pc = "main"
  /\ cmd.mode = "build"
  /\ ~ build_needed /\ ~ Has("f") /\ ~ Has("cm")
  /\ Exit(0)
  /\ UNCHANGED <<files, cmd>>

ToDownload ==
  /\ pc = "main"
  /\ cmd.mode \in {"do", "eo", "um"} \/ (cmd.mode = "build" /\ (build_needed \/ Has("f") \/ Has("cm")))
  /\ Go("download")
  /\ UNCHANGED <<files, work, cmd>>

-------------------------------------------------------------------------------
(* download_source.                                                        *)

Downloads == Has("d") \/ cmd.mode = "do"

\* A download that was cut short earlier is resumed, also where the file upstream
\* has changed, so that the source may be anything.  It gets the server's time,
\* which may be before the package's.
download_file ==
  /\ pc = "download"
  /\ source = None /\ Downloads
  /\ source' \in Content
  /\ age' \in {"older", age}
  /\ UNCHANGED <<md5sum, footprint, target, work, pc, cmd, code>>

\* Mutant: a source that is not there does not end the run.
DownloadFailsOn ==
  /\ pc = "download"
  /\ source = None
  /\ Downloads => "download" \in Faults
  /\ Go("prepare")
  /\ UNCHANGED <<files, work, cmd>>

\* Nothing is to be downloaded; or the command is not there (1), the source has
\* no URL or the command leaves no file (4); or the command fails, which under
\* sh -e ends the script with the command's own status.
DownloadFails ==
  /\ pc = "download"
  /\ source = None
  /\ \/ ~ Downloads /\ Exit(4)
     \/ /\ Downloads /\ "download" \in Faults
        /\ \E status \in Status \union {1, 4} : Exit(status)
  /\ UNCHANGED <<source, md5sum, footprint, target, age, cmd>>

Downloaded ==
  /\ pc = "download"
  /\ source # None
  /\ CASE cmd.mode = "do" -> Exit(0) /\ UNCHANGED md5sum
       [] cmd.mode = "um" -> md5sum' = source /\ Exit(0)
       [] OTHER -> Go("prepare") /\ UNCHANGED <<md5sum, work>>
  /\ UNCHANGED <<source, footprint, target, age, cmd>>

-------------------------------------------------------------------------------
(* build_package: make_work_dir with the check of the checksums, and so    *)
(* on.                                                                     *)

\* Mutant: a mismatch only counts where checking is all there is to do.
MismatchIfChecking == md5sum # None /\ md5sum # source /\ Has("cm")

Mismatch == md5sum # None /\ md5sum # source

check_md5sum ==
  /\ pc = "prepare"
  /\ IF Mismatch \/ (md5sum = None /\ Has("cm"))
     THEN Exit(6) /\ UNCHANGED md5sum
     ELSE /\ md5sum' = IF md5sum = None THEN source ELSE md5sum
          /\ IF Has("cm") THEN Exit(0) ELSE work' = "made" /\ Go("unpack")
  /\ ~ Has("im")
  /\ UNCHANGED <<source, footprint, target, age, cmd>>

IgnoreMd5sum ==
  /\ pc = "prepare"
  /\ Has("im")
  /\ work' = "made"
  /\ Go("unpack")
  /\ UNCHANGED <<files, cmd>>

unpack_source ==
  /\ pc = "unpack"
  /\ work' = "unpacked"
  /\ Go("build")
  /\ UNCHANGED <<files, cmd>>

UnpackFails ==
  /\ pc = "unpack"
  /\ "unpack" \in Faults
  /\ Exit(5)
  /\ UNCHANGED <<files, cmd>>

\* -eo is done.
Extracted ==
  /\ pc = "build"
  /\ cmd.mode = "eo"
  /\ Exit(0)
  /\ UNCHANGED <<files, cmd>>

\* Under sh -e a build that fails, or what is done with its files before bsdtar,
\* ends the script with the status of the command: what there is of a package
\* stays as it is, and as new as it is.
BuildFails ==
  /\ pc = "build"
  /\ cmd.mode = "build"
  /\ "build" \in Faults
  /\ \E status \in Status : Exit(status)
  /\ UNCHANGED <<files, cmd>>

\* bsdtar truncates the package of the last build.
Pack ==
  /\ pc = "build"
  /\ cmd.mode = "build"
  /\ \E listing \in Listing :
       target' = [state |-> "open", source |-> source, listing |-> listing, recipe |-> "this"]
  /\ age' = "newer"
  /\ Go("pack")
  /\ UNCHANGED <<source, md5sum, footprint, work, cmd>>

Packed ==
  /\ pc = "pack"
  /\ target' = [target EXCEPT !.state = "whole"]
  /\ Go("check")
  /\ UNCHANGED <<source, md5sum, footprint, age, work, cmd>>

\* Mutant: the package keeps the time at which it was written.
FailUntouched ==
  /\ Exit(8)
  /\ UNCHANGED <<source, md5sum, footprint, target, age, cmd>>

\* bsdtar stands in an if.  touch -r: what it leaves is as old as the Pkgfile.
Fail ==
  /\ age' = "older"
  /\ Exit(8)
  /\ UNCHANGED <<source, md5sum, footprint, target, cmd>>

PackFails == pc = "pack" /\ "pack" \in Faults /\ Fail

\* The package of a build whose footprint is wrong stays, as new as it is.
check_footprint ==
  /\ pc = "check"
  /\ footprint' = IF footprint = None /\ ~ Has("if") THEN target.listing ELSE footprint
  /\ Exit(IF Has("if") \/ footprint' = target.listing THEN 0 ELSE 7)
  /\ UNCHANGED <<source, md5sum, target, age, cmd>>

-------------------------------------------------------------------------------
(* Signals, kills, and what happens between two runs.                      *)

\* bsdtar leaves what it has written.  What a download leaves does not matter,
\* as it is resumed.
Cut ==
  /\ target' = IF pc = "pack" THEN [target EXCEPT !.state = "cut"] ELSE target
  /\ UNCHANGED <<source, md5sum, footprint, age, cmd>>

interrupted ==
  /\ pc # "idle"
  /\ "signal" \in Faults
  /\ Cut
  /\ Exit(1)

Kill ==
  /\ pc # "idle"
  /\ "kill" \in Faults
  /\ Cut
  /\ pc' = "idle"
  /\ code' = Killed
  /\ UNCHANGED work

\* A new version of the recipe, with new checksums or another footprint, and
\* sources that are removed.
Edit ==
  /\ pc = "idle"
  /\ \/ /\ target' = IF target = None THEN None ELSE [target EXCEPT !.recipe = "former"]
        /\ age' = "older"
        /\ UNCHANGED <<source, md5sum, footprint>>
     \/ md5sum' \in Content \union {None} /\ UNCHANGED <<source, footprint, target, age>>
     \/ footprint' \in Listing \union {None} /\ UNCHANGED <<source, md5sum, target, age>>
     \/ source' = None /\ UNCHANGED <<md5sum, footprint, target, age>>
  /\ UNCHANGED <<work, pc, cmd>>
  /\ code' = NoRun

Next ==
  \/ Start \/ Inform \/ clean \/ update_footprint \/ UpToDate \/ ToDownload
  \/ download_file \/ DownloadFails \/ Downloaded
  \/ check_md5sum \/ IgnoreMd5sum \/ unpack_source \/ UnpackFails \/ Extracted
  \/ Pack \/ Packed \/ BuildFails \/ PackFails \/ check_footprint
  \/ interrupted \/ Kill \/ Edit

Spec == Init /\ [][Next]_vars

-------------------------------------------------------------------------------
(* What holds.                                                             *)

\* The types; only a package can be newer than its sources, and a run that
\* builds has its sources.
TypeOK ==
  /\ source \in Content \union {None}
  /\ md5sum \in Content \union {None}
  /\ footprint \in Listing \union {None}
  /\ target \in Package \union {None}
  /\ age \in {"newer", "older"} /\ (age = "newer" => target # None)
  /\ work \in {None, "made", "unpacked"}
  /\ pc \in {"idle", "main", "download", "prepare", "unpack", "build", "pack", "check"}
  /\ pc \in {"prepare", "unpack", "build", "pack", "check"} => source # None
  /\ pc \in {"build", "pack", "check"} => work = "unpacked"
  /\ pc \in {"pack", "check"} => target # None
  /\ cmd \in Cmds
  /\ code \in (0..255) \union {Killed, NoRun}

Good == target # None /\ target.state = "whole" /\ target.recipe = "this"

\* A package that looks up to date, or that a build with exit status 0 leaves
\* or finds, is whole and of the present Pkgfile, but where bsdtar was cut short
\* by a signal or -uf has vouched for it: what a failing bsdtar leaves of it is
\* not taken for a good one, and where a build has failed before bsdtar the
\* package that still counts is that of an earlier build of this Pkgfile.
NothingToDo ==
  pc = "idle" /\ (age = "newer" \/ (code = 0 /\ cmd.mode = "build" /\ ~ Has("cm"))) =>
    target # None /\ (Good \/ target.state \in {"cut", "forced"})

\* Unless it was told to ignore them, a run packs only what it made of sources
\* that agree with the checksums, however they came here.
Verified ==
  pc \in {"pack", "check"} /\ ~ Has("im") => md5sum = source /\ target.source = source

\* Only a run that was killed, or told to keep it, leaves a work directory.
\* (Later runs that keep theirs leave the one they find.)
CleanWork ==
  pc = "idle" /\ code \in 0..255 /\ ~ Has("kw") => work = None

-------------------------------------------------------------------------------
(* What the manual page promises and the code does not keep.               *)

\* pkgmk(8): executing pkgmk brings the package up to date.
BroughtUpToDate ==
  pc = "idle" /\ code = 0 /\ cmd.mode = "build" /\ cmd.opts \subseteq {"d", "kw"} => Good
===============================================================================
