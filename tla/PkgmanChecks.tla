------------------------------ MODULE PkgmanChecks ------------------------------
(***************************************************************************)
(* What the functions of pkgman compute, checked against reference         *)
(* definitions over bounded inputs.  Every ASSUME states one fact and is   *)
(* evaluated when a module that extends this one is model-checked.         *)
(***************************************************************************)
EXTENDS Integers, Sequences, FiniteSets, TLC

Version == INSTANCE VersionComparator WITH LongMax <- 9999
Conf == INSTANCE PkgmanConfig

Names == <<"a", "b", "c", "ghost">>
Sources == {"a", "b", "c"}
Query == INSTANCE PkgmanQueries WITH
  Alphabet <- Names, MaxLevel <- 8,
  Higher <- LAMBDA v, w : Version!compareVersions(Version!Chars(v), Version!Chars(w))

SeqsUpTo(n, S) == UNION {[1..k -> S] : k \in 0..n}
Elements(s) == {s[i] : i \in DOMAIN s}
Distinct(s) == \A i, j \in DOMAIN s : s[i] = s[j] => i = j

-------------------------------------------------------------------------------
(* Versions.                                                               *)

Compare(v, w) == Version!compareVersions(Version!Chars(v), Version!Chars(w))

\* The table of tests at the end of versioncomparator.cpp.
Expected ==
  {<<"1", "2", "LESS">>, <<"1.1", "1.2", "LESS">>, <<"1.1pre1", "1.1pre2", "LESS">>,
   <<"1.1pre1", "1.2pre1", "LESS">>, <<"1.1-pre1", "1.1-pre2", "LESS">>, <<"1.1_2", "1.1.2", "LESS">>,
   <<"1.1", "1.1", "EQUAL">>, <<"1.0PR1", "1.0PR1", "EQUAL">>, <<"1.0PR1", "1.0PR2", "LESS">>,
   <<"1.0PR1", "1.0RC1", "UNDEFINED">>, <<"1.2.3-2", "1.2.3-1", "GREATER">>,
   <<"1.0.0", "0.9", "GREATER">>, <<"1.4.2_3-1", "1.4.3-2", "LESS">>,
   <<"1.4.2_3-1", "1.4.2_3-2", "LESS">>, <<"1.4.2_3-1", "1.4.2_1-1", "GREATER">>,
   <<"1.4.2-alpha2", "1.4.2-beta1", "LESS">>, <<"1.4.2a-2", "1.4.2a-3", "LESS">>,
   <<"1.4.2a-2", "1.4.2b-2", "LESS">>, <<"1.4.2aa-2", "1.4.2bb-2", "UNDEFINED">>,
   <<"1.4.2a1-2", "1.4.2a2-2", "LESS">>, <<"1.4.2b1-2", "1.4.2a2-2", "GREATER">>,
   <<"1.4.2beta3", "1.4.2alpha2", "GREATER">>, <<"1.4.2-some", "1.4.2-1", "UNDEFINED">>,
   <<"1.4.2-1", "1.4.2-some", "UNDEFINED">>, <<"7.0r63-3", "7.0r68-1", "LESS">>,
   <<"27", "28e", "LESS">>}

ASSUME TestTable == \A t \in Expected : Compare(t[1], t[2]) = t[3]

Opposite == [LESS |-> "GREATER", GREATER |-> "LESS", EQUAL |-> "EQUAL", UNDEFINED |-> "UNDEFINED",
             CRASH |-> "CRASH"]

\* Exchanging the versions exchanges the answer, and a version equals itself.
ASSUME Antisymmetric ==
  \A v, w \in SeqsUpTo(2, {"1", "2", "a", ".", "-"}) :
    /\ Version!compareVersions(w, v) = Opposite[Version!compareVersions(v, w)]
    /\ v = w => Version!compareVersions(v, w) = "EQUAL"

\* The order of single letters, that of the names of the stages and where a
\* letter is found in these names do not fit: LESS has a cycle.
ASSUME NoOrder ==
  Compare("1d", "1g") = "LESS" /\ Compare("1g", "1mm") = "LESS" /\ Compare("1mm", "1d") = "LESS"

\* A letter behind a version says nothing, an empty token may end pkgman, and
\* numbers beyond LONG_MAX are all equal.
ASSUME Boundaries ==
  /\ Compare("1.0", "1.0a") = "UNDEFINED"
  /\ Compare("1..2", "1.a.2") = "CRASH"
  /\ Compare("99990", "99991") = "EQUAL" /\ Compare("9990", "9991") = "LESS"

-------------------------------------------------------------------------------
(* The command line.                                                       *)

Words == {"install", "ls", "x"}
OptionWords == {"--test", "--version", "-v", "-vv", "--bogus"}
Lines == {[i \in DOMAIN s |-> <<s[i], "">>] : s \in SeqsUpTo(4, Words \union OptionWords)}
Known(line) == \A i \in DOMAIN line : line[i][1] # "--bogus"

\* Without unknown options it does not matter where the options stand.
ASSUME OptionsAnywhere ==
  \A line \in Lines :
    LET isWord(a) == a[1] \in Words
        isOption(a) == ~ isWord(a)
        end == Conf!main(line)
        sorted == Conf!main(SelectSeq(line, isOption) \o SelectSeq(line, isWord))
    IN  Known(line) => end.end = sorted.end /\ (end.end = "run" => end.parser = sorted.parser)

\* What runs is the first word, with as many of the others as it takes.
ASSUME RunsFirstWord ==
  \A line \in Lines :
    LET end == Conf!main(line)
        words == SelectSeq(line, LAMBDA a : a[1] \in Words)
    IN  end.end = "run" /\ Known(line) =>
          /\ end.parser.command = words[1][1]
          /\ Len(end.parser.cmdArgs) = Len(words) - 1
          /\ end.parser.command = "ls" => Len(words) = 2
          /\ end.parser.verbose <= 2

\* An unknown option does not keep a command from running, but what follows it is
\* lost: here --test, so that the packages are installed for good.
ASSUME LostOption ==
  LET end == Conf!main(<<<<"install", "">>, <<"x", "">>, <<"--bogus", "">>, <<"--test", "">>>>)
  IN  end.end = "run" /\ end.parser.command = "install" /\ "--test" \notin end.parser.flags

-------------------------------------------------------------------------------
(* The configuration.                                                      *)

Root(path) == [key |-> "pkgsrcdir", value |-> path, packages |-> << >>]
RootOf(path) == [path |-> path, packages |-> << >>]
File == <<Root("p"), [key |-> "writelog", value |-> "disabled", packages |-> << >>]>>
Parser(data, flags) == [Conf!NewParser EXCEPT !.configData = data, !.flags = flags]
Read(data, flags) == Conf!readConfig(Parser(data, flags), "/etc/pkgman.conf" :> File, {"p", "q", "r"})

Paths(data, kinds) ==
  LET chosen == SelectSeq(data, LAMBDA d : d[1] \in kinds)
  IN  [i \in DOMAIN chosen |-> RootOf(chosen[i][2].value)]

\* The directories: what was prepended last comes first, what was appended last
\* comes last, and what was there before the last --config-set is gone.
ASSUME RootOrder ==
  \A data \in SeqsUpTo(3, Conf!ConfigData \X {Root("q"), Root("r")}) :
    LET sets == {i \in DOMAIN data : data[i][1] = "--config-set="}
        last == IF sets = {} THEN 0 ELSE CHOOSE i \in sets : \A j \in sets : j <= i
        rest == SubSeq(data, last + 1, Len(data))
        front == Paths(rest, {"--config-prepend="})
    IN  Read(data, {}).config.rootList =
          [i \in DOMAIN front |-> front[Len(front) + 1 - i]]
          \o (IF last = 0 THEN <<RootOf("p")>> ELSE <<RootOf(data[last][2].value)>>)
          \o Paths(rest, {"--config-append="})

\* --config-set with something that is no directory leaves no directory at all.
ASSUME SetNothing == Read(<<<<"--config-set=", Root("gone")>>>>, {}).config.rootList = << >>

\* --log counts where the configuration file is read, and only there; a file that
\* cannot be read also takes the settings of the command line with it.
ASSUME LogOnlyWithFile ==
  /\ Read(<< >>, {"--log"}).config.writeLog
  /\ ~ Read(<< >>, {"--log", "--no-std-config"}).config.writeLog
  /\ LET p == Parser(<<<<"--config-append=", Root("q")>>>>, {"--log"})
     IN  Conf!readConfig(p, << >>, {"q"}) = [config |-> Conf!Config, ret |-> -1]

\* dumpconfig tells two configurations apart that make pkgman behave differently,
\* unless they differ in logmode, rmlog_on_success or useregex.
ASSUME DumpShows ==
  \A s, t \in SeqsUpTo(2, DOMAIN Conf!Switches) :
    LET Config(seq) == Conf!parseConfig([i \in DOMAIN seq |-> [key |-> seq[i][1], value |-> seq[i][2], packages |-> << >>]],
                                        FALSE, {})
        Dump(seq) == Conf!dumpConfig(Conf!NewParser, Config(seq), << >>, << >>)
        hidden == {"logMode", "removeLogOnSuccess", "useRegex"}
    IN  Dump(s) = Dump(t) <=> \A f \in DOMAIN Conf!Config \ hidden : Config(s)[f] = Config(t)[f]

-------------------------------------------------------------------------------
(* The repository.                                                         *)

Tree == "p" :> {"a", "b"} @@ "q" :> {"b", "c"}
Roots == {[path |-> path, packages |-> packages] : path \in {"p", "q"}, packages \in {<< >>, <<"b">>, <<"c", "b">>}}
Offers(root, name) == name \in Tree[root.path] /\ (root.packages = << >> \/ name \in Elements(root.packages))

\* A package comes from the first directory of the list that offers it, a
\* package that is hidden from a later one, and no package is lost.
ASSUME FirstRootWins ==
  \A roots \in SeqsUpTo(3, Roots) :
    LET repo == Query!initFromFS(roots, Tree, TRUE)
        offering(name) == {i \in DOMAIN roots : Offers(roots[i], name)}
        first(name) == roots[CHOOSE i \in offering(name) : \A j \in offering(name) : i <= j].path
    IN  /\ DOMAIN repo.packages = {name \in Elements(Names) : offering(name) # {}}
        /\ \A name \in DOMAIN repo.packages : repo.packages[name] = first(name)
        /\ \A pair \in Elements(repo.shadowed) :
             pair.shown = first(pair.name) /\ \E i \in offering(pair.name) : roots[i].path = pair.hidden
        /\ \A name \in DOMAIN repo.packages :
             {roots[i].path : i \in offering(name)} =
               {first(name)} \union {pair.hidden : pair \in {q \in Elements(repo.shadowed) : q.name = name}}

\* A directory that is listed with a filter and again is read again: a package
\* hides itself, and list-dup calls it a duplicate.
ASSUME ShadowsItself ==
  LET roots == <<[path |-> "p", packages |-> <<"b">>], [path |-> "p", packages |-> << >>]>>
  IN  Query!initFromFS(roots, Tree, TRUE).shadowed = <<[name |-> "b", hidden |-> "p", shown |-> "p"]>>

\* A directory that has gone after the configuration was read ends pkgman,
\* wherever it stands.
ASSUME GoneEnds ==
  \A roots \in SeqsUpTo(2, Roots \union {[path |-> "gone", packages |-> << >>]}) :
    Query!initFromFS(roots, Tree, FALSE).aborted <=> \E i \in DOMAIN roots : roots[i].path = "gone"

Line(comment, key, value) == [comment |-> comment, key |-> key, value |-> value, colon |-> TRUE]
PkgfileLines ==
  {Line(FALSE, "version", "1"), Line(FALSE, "version", "2"), Line(FALSE, "release", "1"),
   Line(TRUE, "dep", <<"a">>), Line(TRUE, "dep", <<"b">>), Line(TRUE, "version", "3"),
   [Line(TRUE, "dep", <<"c">>) EXCEPT !.colon = FALSE]}

\* The last line decides, so that a remark in the body that starts with "dep" and
\* has a colon replaces the dependencies.
ASSUME LastLineDecides ==
  \A lines \in SeqsUpTo(4, PkgfileLines) :
    LET pkg == Query!load("x", "p", lines, {})
        last(comment, key) ==
          LET S == {i \in DOMAIN lines : lines[i].comment = comment /\ lines[i].key = key /\ lines[i].colon}
          IN  IF S = {} THEN 0 ELSE CHOOSE i \in S : \A j \in S : j <= i
        version == last(FALSE, "version")
        depends == last(TRUE, "dep")
    IN  /\ pkg.version = IF version = 0 THEN "" ELSE lines[version].value
        /\ pkg.depends = IF depends = 0 THEN << >> ELSE lines[depends].value
        /\ pkg.version_release = pkg.version \o "-" \o pkg.release

\* The directory of a log file is there when createOutputDir says so, and what
\* could be created of it stays when it fails.
ASSUME OutputDir ==
  LET path == <<"/v", "log", "x">>
      Dirs == {SubSeq(path, 1, k) : k \in 1..3}
  IN  \A there, can \in SUBSET Dirs :
        LET made == Query!createOutputDir(path, there, can)
        IN  /\ made.ok <=> Dirs \subseteq there \union can
            /\ made.dirs = there \union {SubSeq(path, 1, k) : k \in {n \in 1..3 :
                              \A j \in 1..n : SubSeq(path, 1, j) \in there \union can}}

-------------------------------------------------------------------------------
(* Dependencies.                                                           *)

Package(name, depends) == [Query!NewPackage(name, "p") EXCEPT !.depends = depends, !.version_release = "2-1"]

World(graph, installed, flags) ==
  [repo |-> [n \in Sources |-> Package(n, graph[n])], db |-> [n \in installed |-> "1-1"], locked |-> << >>,
   preferHigher |-> FALSE, useRegex |-> FALSE, flags |-> flags, verbose |-> 0, args |-> <<"a">>, filter |-> {}]

\* What each package lists: up to two names, each of them once.
SmallGraphs ==
  {g \in [Sources -> {s \in SeqsUpTo(2, Elements(Names)) : Distinct(s)}] :
     \A n \in Sources : g[n] # << >> => g[n][1] # "ghost"}

Listed(graph, n) == IF n \in Sources THEN Elements(graph[n]) ELSE {}

\* All that is needed by what S needs.
RECURSIVE Below(_, _)
Below(graph, S) ==
  LET T == S \union UNION {Listed(graph, n) : n \in S} IN IF T = S THEN S ELSE Below(graph, T)
Needed(graph, n) == Below(graph, Listed(graph, n))

Acyclic(graph, S) == \A n \in S : n \notin Needed(graph, n)
AcyclicGraphs == {g \in SmallGraphs : Acyclic(g, Sources)}

Position(s, n) == CHOOSE i \in DOMAIN s : s[i] = n
Ordered(s, graph) ==
  /\ Distinct(s)
  /\ \A i, j \in DOMAIN s : s[j] \in Needed(graph, s[i]) => j < i

\* calcDeps lists a package with all it needs that has sources, what is needed
\* first, and gives up exactly where packages need each other.
ASSUME DepsRight ==
  \A g \in SmallGraphs :
    LET calc == Query!calcDeps(World(g, {}, {}), <<"a">>)
        wanted == Below(g, {"a"})
        cyclic == \E n \in wanted : \E m \in wanted \ {n} : m \in Needed(g, n) /\ n \in Needed(g, m)
    IN  /\ calc.result = IF cyclic THEN "CYCLIC_DEPEND" ELSE "SUCCESS"
        /\ ~ cyclic => /\ Elements(calc.deps) = wanted \intersect Sources
                       /\ Acyclic(g, wanted) => Ordered(calc.deps, g)
        /\ {m[1] : m \in Elements(calc.missing)} = wanted \ Sources

\* list --depsort prints what it was to print, everything behind what it needs.
ASSUME DepSorted ==
  \A g \in AcyclicGraphs, names \in SUBSET Sources :
    LET list == Query!listDepSorted(World(g, {}, {}), Query!Sorted(names), << >>)
        printed == [i \in DOMAIN list.out |-> list.out[i].name]
    IN  Elements(printed) = names /\ Ordered(printed, g)

Printed(walk) == [i \in DOMAIN walk.out |-> walk.out[i][2]]
Deep == {"--all", "--recursive"}

\* dep --all --recursive prints what the package needs, once each, and rdep the
\* other way round.
ASSUME DepAndRevDep ==
  \A g \in AcyclicGraphs :
    LET w == World(g, {}, Deep) IN
    \A n \in Sources :
      /\ Elements(Printed(Query!printDepList(w, n))) = Needed(g, n)
      /\ Distinct(Printed(Query!printDepList(w, n)))
      /\ Elements(Printed(Query!printRevDepList(w, n))) = {m \in Sources : n \in Needed(g, m)}
      /\ Distinct(Printed(Query!printRevDepList(w, n)))

\* The tree shows below each package, where it is shown first, all it needs: the
\* packages are those of the list.
ASSUME TreeAndList ==
  \A g \in AcyclicGraphs :
    LET tree == Query!printDepTree(World(g, {}, Deep \union {"--tree"}), "a")
        unmarked == SelectSeq(tree.out, LAMBDA line : line[3] = "")
    IN  /\ Elements(Printed(tree)) = Needed(g, "a")
        /\ Distinct([i \in DOMAIN unmarked |-> unmarked[i][2]])
        /\ Len(tree.out) = Cardinality({<<n, m>> \in Sources \X Elements(Names) :
                               n \in {"a"} \union Needed(g, "a") /\ m \in Listed(g, n)})

\* Packages that need each other are printed for ever.
ASSUME EndlessOnCycle ==
  \A g \in SmallGraphs :
    Query!printDepList(World(g, {}, Deep), "a").endless <=> \E n \in Below(g, {"a"}) : n \in Needed(g, n)

\* mdep names the dependencies with sources that are not installed, under every
\* package that needs them.
ASSUME MissingDeps ==
  \A g \in AcyclicGraphs, installed \in SUBSET Sources \ {{}} :
    LET out == Query!printMissingDep(World(g, installed, {})).out
    IN  {<<line[1], n>> : line \in Elements(out), n \in Sources} \intersect
          {<<m, n>> \in Sources \X Sources : \E line \in Elements(out) : line[1] = m /\ n \in Elements(line[2])}
        = {<<m, n>> \in installed \X Sources : n \in Needed(g, m) \ installed}

\* remove --deps --recursive: what is taken with a package is needed only by what
\* is taken; but not all that is: packages that two of them need stay.
ASSUME RemovableUnused ==
  /\ \A g \in AcyclicGraphs :
       LET taken(flags) == Elements(Query!getRemovableDeps(World(g, Sources, flags), "a", 0,
                                                           [removable |-> << >>, endless |-> FALSE]).removable)
           alone(S) == \A n \in S : \A m \in Sources : n \in Listed(g, m) => m \in S \union {"a"}
       IN  alone(taken({})) /\ alone(taken({"--recursive"})) /\ taken({}) \subseteq taken({"--recursive"})
  /\ LET g == "a" :> <<"b", "c">> @@ "b" :> <<"ghost">> @@ "c" :> <<"ghost">>
         r == Query!getRemovableDeps(World(g, Sources, {"--recursive"}), "a", 0,
                                     [removable |-> << >>, endless |-> FALSE])
     IN  r.removable = <<"b", "c">>

\* ... and packages that need each other are gone through for ever.
ASSUME RemoveEndless ==
  LET g == "a" :> <<"b">> @@ "b" :> <<"a">> @@ "c" :> << >>
  IN  Query!getRemovableDeps(World(g, Sources, {"--recursive"}), "a", 0,
                             [removable |-> << >>, endless |-> FALSE]).endless

-------------------------------------------------------------------------------
(* The other commands.                                                     *)

\* list-orphans names what is installed and has no sources, except where nothing
\* that is installed has sources: then it fails and names nothing.
ASSUME Orphans ==
  \A g \in AcyclicGraphs, installed \in SUBSET Elements(Names) \ {{}} :
    LET list == Query!listOrphans(World(g, installed, {}))
    IN  IF installed \intersect Sources = {} THEN list.ret = "PACKAGE_NOT_FOUND" /\ list.out = << >>
        ELSE list.ret = "P_OK" /\ {m[1] : m \in Elements(list.out)} = installed \ Sources

\* Where nothing is lacking, what list-nodependents names can be removed one by
\* one and still nothing is lacking.  (Where something is, a package that is only
\* needed by way of it is named too.)
ASSUME NodependentsRemovable ==
  \A g \in AcyclicGraphs, installed \in SUBSET Sources \ {{}} :
    LET list == Query!listNodependents(World(g, installed, {})).out
        lacking(S) == (Sources \intersect UNION {Needed(g, m) : m \in S}) \ S
    IN  lacking(installed) = {} =>
          \A i \in DOMAIN list : lacking(installed \ {list[i].name}) = {}

\* diff --full counts every package it lists as an update or as an installation,
\* and the latter only come with --deps.
ASSUME DiffCounts ==
  \A g \in AcyclicGraphs, installed \in SUBSET Sources \ {{}}, flags \in {{"--full"}, {"--full", "--deps"}} :
    LET diff == Query!printDiff(World(g, installed, flags), << >>).out[1]
    IN  /\ diff.installs = Cardinality(Elements(diff.greater) \ installed)
        /\ diff.updates = Cardinality(installed)
        /\ "--deps" \notin flags => diff.installs = 0

\* Two arguments that match one package are taken for one that matches none.
ASSUME DiffOverlap ==
  Query!printDiff(World([n \in Sources |-> << >>], {"a"}, {}), <<{"a"}, {"a"}>>) = Query!Error

\* useregex of pkgman.conf makes "*" a regular expression, an invalid one: list
\* and mdep find no packages, except list with --regex.
ASSUME RegexFindsNothing ==
  LET w(flags) == [World([n \in Sources |-> << >>], {"a"}, flags) EXCEPT !.useRegex = TRUE]
  IN  /\ Query!listPackages(w({})) = Query!Error /\ Query!printMissingDep(w({})) = Query!Error
      /\ Query!listPackages(w({"--regex"})).ret = "P_OK"

\* printf prints each package once, in the order of the keys, except that of two
\* packages whose values of --sort and names run together to the same key only the
\* last is printed, though the key was made "unique" by the name.
ASSUME PrintfOrder ==
  \A versions \in [Sources -> {"1", "2"}], text \in [{"1", "2"} \X Sources -> 1..3] :
    LET repo == [n \in Sources |-> [Package(n, << >>) EXCEPT !.version = versions[n]]]
        w == [World([n \in Sources |-> << >>], {}, {}) EXCEPT !.repo = repo]
        out == Query!printf(w, <<"name">>, <<"version">>, text).out
        Key(n) == text[<<versions[n], n>>]
    IN  /\ \A i, j \in DOMAIN out : i < j => Key(out[i][1]) < Key(out[j][1])
        /\ {Key(n) : n \in Sources} = {Key(out[i][1]) : i \in DOMAIN out}
        /\ \A i \in DOMAIN out, n \in Sources :
             Key(n) = Key(out[i][1]) => Position(Names, n) <= Position(Names, out[i][1])

\* isinst succeeds for arguments that are all installed, and names no other.
ASSUME IsInst ==
  \A installed \in SUBSET Sources, args \in SeqsUpTo(3, Sources) \ {<< >>} :
    LET end == Query!printIsInstalled([World([n \in Sources |-> << >>], installed, {}) EXCEPT !.args = args])
    IN  /\ end.ret = "P_OK" <=> Elements(args) \subseteq installed
        /\ Elements(end.out) \subseteq installed

\* A package is locked until it is unlocked; a line that is there twice is left
\* once, and the package stays locked.
ASSUME LockUnlock ==
  /\ \A locked \in SeqsUpTo(2, Sources), n \in Sources :
       /\ Query!isLocked(Query!lock(locked, n), n)
       /\ Distinct(locked) => ~ Query!isLocked(Query!unlock(Query!lock(locked, n), n), n)
       /\ \A m \in Sources \ {n} :
            Query!isLocked(Query!unlock(locked, n), m) = Query!isLocked(locked, m)
  /\ Query!isLocked(Query!unlock(<<"a", "a">>, "a"), "a")

\* The report of a transaction is that of a failure exactly where one of the five
\* lists of failures has a package or a signal has come, and no list is left out.
ASSUME Reported ==
  \A bad \in SUBSET Elements(Query!Report), interrupted \in BOOLEAN :
    LET lists == [l \in Elements(Query!Report) |-> IF l \in bad THEN <<"a">> ELSE << >>]
        w == World([n \in Sources |-> << >>], {}, {})
        end == Query!evaluateResult(w, lists, "compact", << >>, interrupted, "P_OK")
    IN  /\ end.ret = "P_OK" <=> ~ interrupted /\ bad \subseteq {"ignored", "alreadyInstalled", "installed", "removed"}
        /\ Len(end.out) = Cardinality(bad)
===============================================================================
