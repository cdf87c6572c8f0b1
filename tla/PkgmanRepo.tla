------------------------------ MODULE PkgmanRepo ------------------------------
(***************************************************************************)
(* What pkgman knows of packages: the directories with their sources       *)
(* (Repository), what a Pkgfile says (Package), the installed packages     *)
(* (PkgDB) and the locked ones (Locker).  A package of the repository is a *)
(* record; a set of names stands for what a pattern matches.               *)
(***************************************************************************)
EXTENDS Integers, Sequences, SequencesExt

CONSTANT Alphabet  \* the package names in the order std::map keeps them in

Sorted(names) == SelectSeq(Alphabet, LAMBDA name : name \in names)

-------------------------------------------------------------------------------
(* Pkgfile.  A line is a record: an assignment of version or release, or a *)
(* comment whose key is the word before the colon.                         *)

\* PackageData before load, and for good if the Pkgfile cannot be opened.
NewPackage(name, path) ==
  [name |-> name, path |-> path, version |-> "", release |-> "", version_release |-> "",
   description |-> "", packager |-> "", maintainer |-> "", url |-> "", depends |-> << >>,
   files |-> {}]

Fields == {"version", "release", "description", "packager", "maintainer", "url", "depends"}

\* The words a comment may start with, in any case, and be longer than.
CommentKeys ==
  "desc" :> "description" @@ "pack" :> "packager" @@ "maint" :> "maintainer"
  @@ "url" :> "url" @@ "dep" :> "depends"

loadLine(pkg, line) ==
  CASE ~ line.comment /\ line.key \in {"version", "release"} -> [pkg EXCEPT ![line.key] = line.value]
    [] line.comment /\ line.colon /\ line.key \in DOMAIN CommentKeys ->
         [pkg EXCEPT ![CommentKeys[line.key]] = line.value]
    [] OTHER -> pkg

\* Package::load, for a Pkgfile that can be opened and the other files there.
load(name, path, lines, files) ==
  LET pkg == FoldLeft(loadLine, NewPackage(name, path), lines)
  IN  [pkg EXCEPT !.version_release = pkg.version \o "-" \o pkg.release, !.files = files]

hasFile(pkg, file) == file \in pkg.files

fullpath(pkg, file) == <<pkg.path, pkg.name>> \o (IF file = "" THEN << >> ELSE <<file>>)

-------------------------------------------------------------------------------
(* Repository.  fs: for every directory, the packages it has sources of.   *)

Unread == [packages |-> << >>, shadowed |-> << >>, checked |-> {}, aborted |-> FALSE]

\* The package of that name is added, or hidden by the one there is.
addPackage(repo, name, path, listDuplicate) ==
  IF name \notin DOMAIN repo.packages
  THEN [repo EXCEPT !.packages = name :> path @@ @]
  ELSE IF listDuplicate
  THEN [repo EXCEPT !.shadowed = Append(@, [name |-> name, hidden |-> path, shown |-> repo.packages[name]])]
  ELSE repo

\* A directory that was listed without a filter is not read again.  One that
\* has gone since the configuration was read ends pkgman.
readRoot(repo, root, fs, listDuplicate) ==
  LET filter == root.packages # << >>
      names == IF filter THEN fs[root.path] \intersect ToSet(root.packages) ELSE fs[root.path]
      Add(r, name) == addPackage(r, name, root.path, listDuplicate)
      read == FoldLeft(Add, repo, Sorted(names))
  IN
  IF repo.aborted \/ root.path \in repo.checked THEN repo
  ELSE IF root.path \notin DOMAIN fs THEN [repo EXCEPT !.aborted = TRUE]
  ELSE IF filter THEN read
  ELSE [read EXCEPT !.checked = @ \union {root.path}]

sortByName(pairs) ==
  FlattenSeq([i \in DOMAIN Alphabet |-> SelectSeq(pairs, LAMBDA p : p.name = Alphabet[i])])

initFromFS(rootList, fs, listDuplicate) ==
  LET repo == FoldLeft(LAMBDA r, root : readRoot(r, root, fs, listDuplicate), Unread, rootList)
  IN  [repo EXCEPT !.shadowed = sortByName(@)]

\* The names that match, in the order of the map.
getMatchingPackages(packages, pattern) == Sorted(DOMAIN packages \intersect pattern)

\* Without --regex the description is searched in lower case, for the pattern
\* as it was given.
searchMatchingPackages(packages, inName, inDesc, searchDesc) ==
  Sorted({n \in DOMAIN packages : n \in inName \/ (searchDesc /\ packages[n].description \in inDesc)})

\* createOutputDir: the directories that are there when it is done; what cannot
\* be created ends it.
createOutputDir(path, dirs, canCreate) ==
  LET Mkdir(s, k) ==
        LET dir == SubSeq(path, 1, k) IN
        IF ~ s.ok \/ dir \in s.dirs THEN s
        ELSE IF dir \in canCreate THEN [s EXCEPT !.dirs = @ \union {dir}]
        ELSE [s EXCEPT !.ok = FALSE]
  IN  FoldLeft(Mkdir, [ok |-> TRUE, dirs |-> dirs], [k \in 1..Len(path) |-> k])

-------------------------------------------------------------------------------
(* PkgDB and Locker.                                                       *)

\* db: the version of every package in it; no file, no packages.
isInstalled(db, name) == name \in DOMAIN db
getVersionRelease(db, name) == IF isInstalled(db, name) THEN db[name] ELSE ""
installedMatching(db, pattern) == Sorted(DOMAIN db \intersect pattern)

isLocked(locked, name) == Contains(locked, name)
lock(locked, name) == IF isLocked(locked, name) THEN locked ELSE Append(locked, name)

\* Only the first line of that name goes.
unlock(locked, name) == RemoveFirst(locked, name)
===============================================================================
