----------------------------- MODULE PkgmanQueries -----------------------------
(***************************************************************************)
(* The commands of pkgman that only look: at the repository, the installed *)
(* packages, the locked ones and the dependencies.  A world w is what they *)
(* look at: repo (the packages of Repository), db (the installed versions),*)
(* locked, the settings preferHigher and useRegex (also set by --regex),   *)
(* and the command line: flags, verbose, args and filter, the names that   *)
(* --filter matches.  A command returns what it prints, line by line, and  *)
(* what pkgman returns.                                                    *)
(***************************************************************************)
EXTENDS PkgmanRepo

CONSTANTS
  Higher(_, _),  \* VersionComparator::compareVersions
  MaxLevel       \* the level of indentation at which a recursion counts as endless

Has(w, flag) == flag \in w.flags
InRepo(w, name) == name \in DOMAIN w.repo
Installed(w, name) == isInstalled(w.db, name)
Depends(w, name) == IF InRepo(w, name) THEN w.repo[name].depends ELSE << >>

Prints(out) == [out |-> out, ret |-> "P_OK"]
errx(out, ret) == [out |-> out, ret |-> ret]
Error == errx(<< >>, "P_GENERAL_ERROR")

briefInfo(w, name) ==
  IF InRepo(w, name)
  THEN [name |-> name, path |-> Has(w, "--path"),
        version |-> IF w.verbose > 0 THEN w.repo[name].version_release ELSE "",
        description |-> IF w.verbose > 1 THEN w.repo[name].description ELSE ""]
  ELSE [name |-> name, notfound |-> TRUE,
        version |-> IF w.verbose > 0 THEN getVersionRelease(w.db, name) ELSE ""]

Marked(w, name) == <<IF Installed(w, name) THEN "[i]" ELSE "[ ]", briefInfo(w, name)>>
Each(names, Line(_)) == [i \in DOMAIN names |-> Line(names[i])]

\* Without preferhigher any other version is a greater one.
compareVersions(preferHigher, v1, v2) ==
  IF v1 = v2 THEN "EQUAL" ELSE IF preferHigher THEN Higher(v1, v2) ELSE "GREATER"

\* What "*" matches.  As a regular expression it is invalid.
Star(w) == IF w.useRegex THEN {} ELSE ToSet(Alphabet)

\* Without --filter list and printf take "*", and with --regex ".": useregex of
\* pkgman.conf does not count here, but where the pattern is used.
Filter(w) ==
  CASE Has(w, "--filter=") -> w.filter
    [] ~ Has(w, "--filter=") /\ Has(w, "--regex") -> ToSet(Alphabet)
    [] OTHER -> Star(w)

-------------------------------------------------------------------------------
(* Transaction::calcDeps as a function; DepResolver has it step by step.   *)

RECURSIVE checkDependecies(_, _, _, _)
checkDependecies(w, s, name, depender) ==
  IF ~ InRepo(w, name) THEN [s EXCEPT !.missing = Append(@, <<name, depender>>)]
  ELSE
  LET edge == [s EXCEPT !.pairs = Append(@, <<name, IF depender = "" THEN name ELSE depender>>)]
      Check(t, dep) == checkDependecies(w, t, dep, name)
  IN  IF Contains(s.list, name) THEN edge
      ELSE FoldLeft(Check, [edge EXCEPT !.list = Append(@, name)], Depends(w, name))

\* The pairs of a package with another one it is to precede.
Proper(pairs) == {i \in DOMAIN pairs : pairs[i][1] # pairs[i][2]}

\* The answer grows: each element knocks down its pairs, one after the other.
RECURSIVE topSort(_, _, _, _)
topSort(pairs, answer, k, done) ==
  IF k > Len(answer) THEN answer
  ELSE
  LET mine == {i \in Proper(pairs) : pairs[i][1] = answer[k]}
      Knock(s, i) ==
        LET succ == pairs[i][2]
            left == {j \in Proper(pairs) : pairs[j][2] = succ} \ (s.done \union {i})
        IN  [done |-> s.done \union {i},
             answer |-> IF left = {} THEN Append(s.answer, succ) ELSE s.answer]
      knocked == FoldLeft(Knock, [done |-> done, answer |-> answer], SetToSortSeq(mine, <))
  IN  topSort(pairs, knocked.answer, k + 1, knocked.done)

calcDeps(w, names) ==
  LET Add(s, name) == checkDependecies(w, s, name, "")
      s == FoldLeft(Add, [list |-> << >>, pairs |-> << >>, missing |-> << >>], names)
      start == SelectSeq(s.list, LAMBDA b : \A i \in Proper(s.pairs) : s.pairs[i][2] # b)
      sorted == topSort(s.pairs, start, 1, {})
      result == IF names = << >> THEN "NO_PACKAGE_GIVEN"
                ELSE IF \A i \in DOMAIN names : ~ InRepo(w, names[i]) THEN "PACKAGE_NOT_FOUND"
                ELSE IF Len(sorted) < Len(s.list) THEN "CYCLIC_DEPEND"
                ELSE "SUCCESS"
  IN  [result |-> result, missing |-> s.missing,
       deps |-> IF result = "SUCCESS" THEN sorted ELSE << >>]

-------------------------------------------------------------------------------
(* Lists.                                                                  *)

\* One round: the first package that is left, behind what it needs of the rest.
RECURSIVE listDepSorted(_, _, _)
listDepSorted(w, rest, out) ==
  IF rest = << >> THEN Prints(out)
  ELSE
  LET name == Head(rest)
      calc == calcDeps(w, <<name>>)
      Line(n) == IF Has(w, "--all") THEN Marked(w, n) ELSE briefInfo(w, n)
      first == SelectSeq(calc.deps, LAMBDA dep : Contains(Tail(rest), dep))
      round == Append(first, name)
  IN  IF calc.result # "SUCCESS" THEN errx(out, calc.result)
      ELSE listDepSorted(w, SelectSeq(Tail(rest), LAMBDA n : ~ Contains(first, n)), out \o Each(round, Line))

\* The heading is a line of its own; it comes with --all only.
listPackages(w) ==
  LET names == IF Has(w, "--all") THEN getMatchingPackages(w.repo, Filter(w))
               ELSE installedMatching(w.db, Filter(w))
      heading == IF Has(w, "--all") THEN <<"heading">> ELSE << >>
      Line(n) == IF Has(w, "--all") THEN Marked(w, n) ELSE briefInfo(w, n)
  IN
  IF names = << >> THEN Error
  ELSE IF Has(w, "--depsort") THEN listDepSorted(w, names, heading)
  ELSE Prints(heading \o Each(names, Line))

\* The pairs of initFromFS, the one that has priority first.  versions: what
\* the Pkgfile in each directory says.
listShadowed(w, shadowed, versions) ==
  LET Line(p) ==
        [name |-> p.name, p1 |-> p.shown, p2 |-> p.hidden,
         c |-> compareVersions(w.preferHigher, versions[p.shown, p.name], versions[p.hidden, p.name])]
  IN  Prints(Each(shadowed, Line))

\* What no installed package with sources depends on.
listNodependents(w) ==
  LET required == UNION {ToSet(Depends(w, n)) : n \in DOMAIN w.db}
      Line(n) == briefInfo(w, n)
  IN  Prints(Each(Sorted(DOMAIN w.db \ required), Line))

listLocked(w, openFailed) ==
  LET Line(n) == briefInfo(w, n)
  IN  IF openFailed THEN Error ELSE Prints(Each(w.locked, Line))

\* Installed packages without sources, and with -v what their packages' sources
\* name and nobody has.
listOrphans(w) ==
  LET calc == calcDeps(w, Sorted(DOMAIN w.db))
      shown == SelectSeq(calc.missing, LAMBDA m : m[2] = "" \/ w.verbose > 0)
  IN  IF DOMAIN w.db = {} THEN Error
      ELSE IF calc.result # "SUCCESS" THEN errx(<< >>, calc.result)
      ELSE Prints(shown)

-------------------------------------------------------------------------------
(* One package.                                                            *)

\* The value of a directive of printf.
Directive(w, name, d) ==
  CASE d \in Fields \union {"name", "path"} -> w.repo[name][d]
    [] d = "installed" ->
         IF ~ Installed(w, name) THEN "no"
         ELSE IF compareVersions(w.preferHigher, w.db[name], w.repo[name].version_release) = "EQUAL"
         THEN "yes" ELSE "diff"
    [] d = "locked" -> IF isLocked(w.locked, name) THEN "yes" ELSE "no"
    [] OTHER -> IF hasFile(w.repo[name], d) THEN "yes" ELSE "no"

\* One line for each package, unless it is blank, by the values of --sort and the
\* name.  text: the place, in the order of strings, of what these values make
\* without a space between them; where two packages make the same, the last stays.
printf(w, format, sort, text) ==
  LET names == getMatchingPackages(w.repo, Filter(w))
      key == [i \in DOMAIN names |->
                text[Append([j \in DOMAIN sort |-> Directive(w, names[i], sort[j])], names[i])]]
      kept == {i \in DOMAIN names : \A j \in DOMAIN names : j > i => key[j] # key[i]}
      Blank(n) == \A i \in DOMAIN format : format[i] \in Fields /\ Len(w.repo[n][format[i]]) = 0
      Line(i) == [j \in DOMAIN format |-> Directive(w, names[i], format[j])]
  IN  Prints(Each(SetToSortSeq({i \in kept : ~ Blank(names[i])}, LAMBDA i, j : key[i] < key[j]), Line))

\* The commands for one package of the repository.
OfPackage(w, Do(_)) == IF InRepo(w, w.args[1]) THEN Do(w.repo[w.args[1]]) ELSE Error

SkipFiles == {"Pkgfile", ".footprint", ".signature", ".md5sum", ".junk"}

printReadme(w) ==
  LET Show(pkg) == IF hasFile(pkg, "README") THEN Prints(<<"README">>) ELSE Error
  IN  OfPackage(w, Show)

printInfo(w) ==
  LET Show(pkg) ==
        LET filled == [f \in {g \in Fields : g \in {"version", "release"} \/ Len(pkg[g]) > 0} |-> pkg[f]]
            readme == IF w.verbose > 0 /\ hasFile(pkg, "README") THEN <<"README">> ELSE << >>
        IN  Prints(<<filled, pkg.files \ SkipFiles>> \o readme)
  IN  OfPackage(w, Show)

printPath(w) ==
  LET Show(pkg) == Prints(<<fullpath(pkg, "")>>)
  IN  OfPackage(w, Show)

\* The first argument that is not installed ends it.
printIsInstalled(w) ==
  LET good == SelectInSeq(w.args, LAMBDA n : ~ Installed(w, n))
  IN  IF good = 0 THEN Prints(w.args) ELSE errx(SubSeq(w.args, 1, good - 1), "P_GENERAL_ERROR")

printCurrentVersion(w) ==
  IF Installed(w, w.args[1]) THEN Prints(<<w.db[w.args[1]]>>) ELSE Error

ls(w) ==
  LET Show(pkg) == Prints(<<Has(w, "--path"), pkg.files>>)
  IN  OfPackage(w, Show)

\* The file is the second argument, or the Pkgfile.
File(w) == IF Len(w.args) > 1 THEN w.args[Len(w.args)] ELSE "Pkgfile"

cat(w) ==
  LET Show(pkg) == IF hasFile(pkg, File(w)) THEN Prints(<<fullpath(pkg, File(w))>>) ELSE Error
  IN  OfPackage(w, Show)

\* editor: its exit status, or -1 if $EDITOR is not set.
edit(w, editor) ==
  LET Show(pkg) ==
        IF editor = 0 THEN Prints(<<fullpath(pkg, File(w))>>)
        ELSE errx(<<fullpath(pkg, File(w))>>, "status of the editor")
  IN  IF editor = -1 THEN Error ELSE OfPackage(w, Show)

-------------------------------------------------------------------------------
(* Differences and missing dependencies.                                   *)

\* diffCalc.  A locked package is not greater, but it may be undefined.
Compared(w, version, name) == compareVersions(w.preferHigher, w.repo[name].version_release, version)

GreaterOf(w, names) ==
  SelectSeq(names, LAMBDA n : /\ InRepo(w, n)
                              /\ Compared(w, getVersionRelease(w.db, n), n) = "GREATER"
                              /\ ~ isLocked(w.locked, n) \/ Has(w, "--all"))

UndefinedOf(w, names) ==
  SelectSeq(names, LAMBDA n : InRepo(w, n) /\ Compared(w, getVersionRelease(w.db, n), n) = "UNDEFINED")

\* patterns: the names each argument matches.  One that matches nothing is only
\* noticed if there are fewer packages than arguments.
printDiff(w, patterns) ==
  LET names == IF patterns = << >> THEN Sorted(DOMAIN w.db)
               ELSE Sorted(DOMAIN w.db \intersect UNION ToSet(patterns))
      calc == calcDeps(w, names)
      list == IF Has(w, "--deps") THEN Sorted(ToSet(calc.deps)) ELSE names
      missing == IF Has(w, "--deps") THEN calc.missing
                 ELSE LET gone == SelectSeq(names, LAMBDA n : ~ InRepo(w, n))
                      IN  [i \in DOMAIN gone |-> <<gone[i], "">>]
      greater == GreaterOf(w, list)
      updates == Cardinality({i \in DOMAIN greater : Installed(w, greater[i])})
  IN
  IF names = << >> \/ Len(names) < Len(patterns) THEN Error
  ELSE IF Has(w, "--deps") /\ calc.result # "SUCCESS" THEN errx(<< >>, calc.result)
  ELSE IF ~ Has(w, "--full") THEN Prints(greater)
  ELSE Prints(<<[greater |-> greater, undefined |-> UndefinedOf(w, list), missing |-> missing,
                 updates |-> updates, installs |-> Len(greater) - updates]>>)

\* A package whose dependencies cannot be calculated is reported and has none
\* that miss; a dependency without sources is not among them.
printMissingDep(w) ==
  LET Round(s, name) ==
        LET calc == calcDeps(w, <<name>>)
            missing == SelectSeq(calc.deps, LAMBDA dep : ~ Installed(w, dep))
        IN  [out |-> IF missing = << >> THEN s.out ELSE Append(s.out, <<name, missing>>),
             ret |-> IF calc.result = "SUCCESS" THEN s.ret ELSE calc.result]
      names == installedMatching(w.db, Star(w))
  IN  IF names = << >> THEN Error ELSE FoldLeft(Round, Prints(<< >>), names)

-------------------------------------------------------------------------------
(* dep and rdep.                                                           *)

\* Dependencies and dependers that are not installed are left out without --all.
Shown(w, names) == SelectSeq(names, LAMBDA n : Has(w, "--all") \/ Installed(w, n))
Dependers(w, name) == Shown(w, Sorted({n \in DOMAIN w.repo : Contains(Depends(w, n), name)}))
Dependencies(w, name) == Shown(w, Depends(w, name))

\* shownMap is set when a package has been printed with all below it, so that it
\* does not end a cycle.
RECURSIVE walk(_, _, _, _, _)
walk(w, reverse, name, level, s) ==
  LET Visit(t, dep) ==
        LET tree == Has(w, "--tree")
            line == <<level, dep, IF tree /\ dep \in t.shown THEN "-->" ELSE "">>
            printed == [t EXCEPT !.out = Append(@, line)]
            below == IF ~ Has(w, "--recursive") THEN printed
                     ELSE walk(w, reverse, dep, level + (IF tree THEN 2 ELSE 1), printed)
        IN
        IF dep \in t.shown THEN IF tree THEN printed ELSE t
        ELSE IF Has(w, "--full") THEN below
        ELSE [below EXCEPT !.shown = @ \union {dep}]
  IN  IF level > MaxLevel THEN [s EXCEPT !.endless = TRUE]
      ELSE FoldLeft(Visit, s, IF reverse THEN Dependers(w, name) ELSE Dependencies(w, name))

Nothing == [out |-> << >>, shown |-> {}, endless |-> FALSE]

printDepList(w, name) == walk(w, FALSE, name, 0, Nothing)
printDepTree(w, name) == walk(w, FALSE, name, 2, Nothing)
printRevDepList(w, name) == walk(w, TRUE, name, 0, Nothing)
printRevDepTree(w, name) == walk(w, TRUE, name, 2, Nothing)

\* A package without dependencies has not even a heading.
printDep(w) ==
  LET name == w.args[1] IN
  IF ~ InRepo(w, name) THEN Error
  ELSE IF Depends(w, name) = << >> THEN Prints(<< >>)
  ELSE IF Has(w, "--tree") THEN Prints(<<Marked(w, name)>> \o printDepTree(w, name).out)
  ELSE Prints(printDepList(w, name).out)

\* The argument need not be a package.
printRevDep(w) ==
  LET name == w.args[1] IN
  IF Has(w, "--tree") THEN Prints(<<Marked(w, name)>> \o printRevDepTree(w, name).out)
  ELSE Prints(printRevDepList(w, name).out)

\* With --recursive, and what is removable on the way.
RECURSIVE getRemovableDeps(_, _, _, _)
getRemovableDeps(w, name, level, s) ==
  LET Users(dep) == {n \in DOMAIN w.repo : Installed(w, n) /\ Contains(Depends(w, n), dep)}
      Visit(t, dep) ==
        LET below == IF Has(w, "--recursive") THEN getRemovableDeps(w, dep, level + 1, t) ELSE t
        IN  IF Cardinality(Users(dep)) # 1 THEN t
            ELSE IF Users(dep) = {name} THEN [below EXCEPT !.removable = Append(@, dep)]
            ELSE below
  IN  IF level > MaxLevel THEN [s EXCEPT !.endless = TRUE]
      ELSE IF ~ InRepo(w, name) \/ ~ Installed(w, name) THEN s
      ELSE FoldLeft(Visit, s, Depends(w, name))

-------------------------------------------------------------------------------
(* Searching.                                                              *)

psearch(w, inName, inDesc, desc) ==
  LET names == searchMatchingPackages(w.repo, inName, inDesc, desc)
      Line(n) == Marked(w, n)
  IN  IF names = << >> THEN Error ELSE Prints(<<"heading">> \o Each(names, Line))

\* A line of a footprint is a file, with its last component and, for a link,
\* its target.
footprintGrep(footprint, matches, fullPath) ==
  SelectSeq(footprint, LAMBDA line : (IF fullPath THEN line.path ELSE line.base) \in matches)

\* Several arguments are taken for "*".  matches, all: the files the argument
\* and "*" match.
fsearch(w, footprints, matches, all) ==
  LET pattern == IF Len(w.args) = 1 THEN matches ELSE IF w.useRegex THEN {} ELSE all
      hits == [n \in DOMAIN footprints |-> footprintGrep(footprints[n], pattern, Has(w, "--full"))]
      found == Sorted({n \in DOMAIN w.repo \intersect DOMAIN footprints : hits[n] # << >>})
      Line(n) == <<Marked(w, n), hits[n]>>
  IN  IF found = << >> THEN Error ELSE Prints(<<"heading">> \o Each(found, Line))

-------------------------------------------------------------------------------
(* The report of a transaction.                                            *)

\* The lists that make it fail.
Errors == {"missing", "downloadFailed", "buildFailed", "installFailed", "removeFailed"}
Report ==
  <<"ignored", "missing", "downloadFailed", "buildFailed", "installFailed", "removeFailed",
    "alreadyInstalled", "installed", "removed">>

\* ret: m_returnValue so far.
evaluateResult(w, lists, readmeMode, undefined, interrupted, ret) ==
  LET sections == SelectSeq(Report, LAMBDA l : lists[l] # << >>)
      readme == SelectSeq(lists.installed, LAMBDA n : hasFile(w.repo[n], "README"))
      done == (\A l \in Errors : lists[l] = << >>) /\ ~ interrupted
  IN  [out |-> [i \in DOMAIN sections |-> lists[sections[i]]]
               \o (IF readmeMode = "verbose" /\ readme # << >> THEN <<readme>> ELSE << >>)
               \o (IF undefined # << >> THEN <<undefined>> ELSE << >>),
       ret |-> IF done THEN ret ELSE "P_PARTIAL_INSTALL_ERROR"]
===============================================================================
