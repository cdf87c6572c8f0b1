------------------------------ MODULE RevdepChecks ------------------------------
(***************************************************************************)
(* What revdep computes, checked against reference definitions over        *)
(* bounded worlds.  Every ASSUME states one fact and is evaluated when a   *)
(* module that extends this one is model-checked.                          *)
(***************************************************************************)
EXTENDS Integers, Sequences, FiniteSets, TLC

CONSTANT NoFile

Rd == INSTANCE Revdep

\* Directories, and files in them.
Bin == <<"/", "bin">>
Lib == <<"/", "lib">>
UsrLib == <<"/", "usr", "/", "lib">>
Opt == <<"/", "opt">>
Run == <<"/", "run">>
In(dir, name) == dir \o <<"/", name>>

Dyn(tag, val) == [tag |-> tag, val |-> val]
Program(machine, dyn) ==
  [elf |-> TRUE, type |-> "DYN", osabi |-> "NONE", machine |-> machine,
   phdrs |-> << [type |-> "DYNAMIC", section |-> "DYNAMIC"] >>, dyn |-> dyn]
Library(machine) == Program(machine, << >>)
Stripped(machine) == [Library(machine) EXCEPT !.phdrs = << [type |-> "DYNAMIC", section |-> "NONE"] >>]

World(file) ==
  [lines |-> << >>, conf |-> <<"ld.so.conf">> :> << >>, confd |-> << >>,
   real |-> [p \in DOMAIN file |-> p], file |-> file, platform |-> <<"x86_64">>]

App == In(Bin, "app")
AppPkg(dirs) == [name |-> <<"app">>, version |-> <<"1">>, files |-> <<App>>, dirs |-> dirs, ignore |-> FALSE]

\* What may be at the place of a library.
Kinds == {"nothing", "right", "other machine", "stripped"}
There == "right" :> Library("X86_64") @@ "other machine" :> Library("386")
         @@ "stripped" :> Stripped("X86_64")

\* A program that needs the library x, and what is called x in each directory.
LibWorld(kind, dyn) ==
  LET present == {d \in DOMAIN kind : kind[d] # "nothing"}
      What(p) == There[kind[CHOOSE d \in present : In(d, "x") = p]]
  IN  World(App :> Program("X86_64", <<Dyn("NEEDED", <<"x">>)>> \o dyn)
            @@ [p \in {In(d, "x") : d \in present} |-> What(p)])

RunPaths == {<< >>, <<Dyn("RPATH", Opt)>>, <<Dyn("RUNPATH", Run)>>, <<Dyn("RPATH", Opt), Dyn("RUNPATH", Run)>>,
             <<Dyn("RUNPATH", Run \o <<":">> \o Opt)>>}

\* Which directories a program's own list adds: RPATH counts only without
\* RUNPATH.
Own(dyn) == CASE dyn = << >> -> {}
              [] dyn = <<Dyn("RPATH", Opt)>> -> {Opt}
              [] Len(dyn) = 1 /\ Len(dyn[1].val) > 2 -> {Run, Opt}
              [] OTHER -> {Run}

\* A library is found if one for the same machine is in the program's own list,
\* in ld.so.conf, in /lib, in /usr/lib or in the directories of the package,
\* whatever stands in the way there and whatever is in the cache already.
ASSUME Linking ==
  \A kind \in [{Lib, Opt, Run} -> Kinds], dyn \in RunPaths, dirs \in {<< >>, <<Opt>>} :
    LET w == LibWorld(kind, dyn)
        expected == \E d \in {Lib} \union Own(dyn) \union {dirs[i] : i \in DOMAIN dirs} : kind[d] = "right"
        Cached(some) == [p \in {q \in some : Rd!Elf(w, q) # NoFile} |-> Rd!Elf(w, p)]
    IN  \A some \in SUBSET {In(Lib, "x"), In(Opt, "x")} :
          Rd!FindLibrary(w, Cached(some), Rd!Elf(w, App), AppPkg(dirs), <<"x">>, <<Lib, UsrLib>>).found
            = expected

\* The exit status is 4 if and only if a package that is not ignored has a
\* program that misses a library; the cache names every file as it is.
ASSUME Broken ==
  \A kind \in [{Lib, Opt} -> Kinds], linked, ignored \in BOOLEAN :
    LET found == LibWorld(kind, << >>)
        w == IF linked THEN [found EXCEPT !.file = [p \in DOMAIN @ \ {App} |-> @[p]]] ELSE found
        pkgs == << [AppPkg(<<Opt>>) EXCEPT !.ignore = ignored], [AppPkg(<< >>) EXCEPT !.files = <<In(Lib, "x")>>] >>
        result == Rd!workAllPackages(w, pkgs, <<Lib>>)
    IN  /\ result.rc = IF ~ linked /\ ~ ignored /\ "right" \notin {kind[Lib], kind[Opt]} THEN 4 ELSE 0
        /\ \A p \in DOMAIN result.cache : result.cache[p] = Rd!Elf(w, p)

-------------------------------------------------------------------------------
(* What is read.                                                           *)

\* How pkgadd writes a package: the name, the version, the files and an empty
\* line.
Written(name, files) == <<name, <<"1">>>> \o files \o << << >> >>
FileLists == {<< >>, <<Tail(App)>>, <<Tail(App), Tail(In(Lib, "x"))>>}

\* revdep reads every package pkgadd wrote, with all its files; a record that was
\* cut after its name, or an empty line too many, hides all that follow.
ASSUME ReadsWhatIsWritten ==
  \A f1, f2 \in FileLists :
    LET lines == Written(<<"a">>, f1) \o Written(<<"b">>, f2)
        Files(f) == [i \in DOMAIN f |-> <<"/">> \o f[i]]
        pkgs == Rd!ReadPackages(lines)
    IN  /\ Len(pkgs) = 2
        /\ pkgs[1].name = <<"a">> /\ pkgs[2].name = <<"b">>
        /\ pkgs[1].files = Files(f1) /\ pkgs[2].files = Files(f2)
        /\ Rd!ReadPackages(<< <<"cut">>, << >> >> \o lines) = << >>
        /\ Len(Rd!ReadPackages(Written(<<"c">>, f1) \o << << >> >> \o lines)) = 1

\* Files that include one another.
Chain(n, last) == [f \in {<<"c", k>> : k \in 1..n} |->
  IF f[2] = n THEN last ELSE << <<"include", <<"c", f[2] + 1>> >> >>]
LdWorld(conf) == [World(<< >>) EXCEPT !.conf = conf]

\* Ten files deep is read, eleven is not, and neither is a circle.
ASSUME IncludeDepth ==
  /\ \A n \in 1..12 :
       Rd!ReadLdConf(LdWorld(Chain(n, <<Opt>>)), <<"c", 1>>, 10) = IF n <= 10 THEN <<Opt>> ELSE NoFile
  /\ \A n \in 1..3 :
       Rd!ReadLdConf(LdWorld(Chain(n, << <<"include", <<"c", 1>> >> >>)), <<"c", 1>>, 10) = NoFile

\* Every variable is replaced, and it ends, unless both the path and the
\* directory of the file name the origin.
Parts == {"/", "$LIB", "${PLATFORM}", "$ORIGIN", "${ORIGIN}", "x"}
ASSUME Resolved ==
  LET w == World(<< >>)
      Names(p) == \E i \in DOMAIN p : p[i] \in {"$ORIGIN", "${ORIGIN}"}
  IN  \A dir \in [1..2 -> Parts], path \in [1..3 -> Parts] :
        LET elf == [path |-> <<"/", dir[1], "/", dir[2], "/", "x">>]
            out == Rd!resolveDirVars(w, elf, path)
        IN  IF Names(path) /\ Names(dir) THEN out = Rd!Endless
            ELSE \A i \in DOMAIN out : out[i] \notin {"$LIB", "${PLATFORM}", "$ORIGIN", "${ORIGIN}"}

-------------------------------------------------------------------------------
(* Where it is not "the same algorithm that ld.so uses" (revdep.1.pod:17). *)

\* The loader looks for what a library needs in the RPATH of the program that
\* loads it, too; revdep does not, and reports the library.
ASSUME InheritedRPath ==
  LET w == World(App :> Program("X86_64", <<Dyn("NEEDED", <<"x">>), Dyn("RPATH", Opt)>>)
                 @@ In(Opt, "x") :> Program("X86_64", <<Dyn("NEEDED", <<"y">>)>>)
                 @@ In(Opt, "y") :> Library("X86_64"))
      pkg == [AppPkg(<< >>) EXCEPT !.files = <<App, In(Opt, "x")>>]
  IN  Rd!workAllPackages(w, <<pkg>>, <<Lib>>).wrong = << <<pkg.name, In(Opt, "x"), <<"y">> >> >>

\* A name with a slash is looked up from the directory of the program, not from
\* the directory the program is started in, and RUNPATH makes no difference.
ASSUME RelativeName ==
  LET w == World(App :> Program("X86_64", <<Dyn("NEEDED", <<"sub", "/", "x">>), Dyn("RUNPATH", Opt)>>)
                 @@ In(Bin, "sub") \o <<"/", "x">> :> Library("X86_64"))
  IN  Rd!workAllPackages(w, <<AppPkg(<< >>)>>, <<Lib>>).rc = 0

-------------------------------------------------------------------------------
(* main.                                                                   *)

Cmd(ignores, names) == [bad |-> FALSE, help |-> FALSE, version |-> FALSE, ignores |-> ignores, names |-> names]

\* Names are checked like all packages, except that a name nobody has is passed
\* over without an error and a name may be given twice; --ignore holds for both.
ASSUME Named ==
  LET w == [LibWorld([d \in {Lib} |-> "nothing"], << >>) EXCEPT
              !.lines = Written(<<"app">>, <<Tail(App)>>) \o Written(<<"b">>, << >>)]
      Names == {<<"app">>, <<"b">>, <<"ghost">>}
  IN  \A names \in UNION {[1..n -> Names] : n \in 0..2}, ignores \in {<< >>, << <<"app">> >>, << <<"b">>, <<"ghost">> >>} :
        Rd!main(w, Cmd(ignores, names), <<"ld.so.conf">>).rc =
          IF /\ \A i \in DOMAIN ignores : ignores[i] # <<"app">>
             /\ names = << >> \/ \E i \in DOMAIN names : names[i] = <<"app">>
          THEN 4 ELSE 0

\* What makes it stop at once, in this order: the command line, the database,
\* which must name a package, ld.so.conf.
ASSUME Refusals ==
  LET w == World(<< >>)
      none == Cmd(<< >>, << >>)
      db == [w EXCEPT !.lines = Written(<<"b">>, << >>)]
      Rc(world, cmd, conf) == Rd!main(world, cmd, conf).rc
  IN  /\ Rc([w EXCEPT !.lines = NoFile], [none EXCEPT !.bad = TRUE], <<"ld.so.conf">>) = 1
      /\ Rc([w EXCEPT !.lines = NoFile], [none EXCEPT !.version = TRUE], <<"ld.so.conf">>) = 0
      /\ Rc([w EXCEPT !.lines = NoFile], none, <<"gone">>) = 2
      /\ Rc(w, none, <<"ld.so.conf">>) = 2
      /\ Rc(db, none, <<"gone">>) = 3
      /\ Rc(db, none, <<"ld.so.conf">>) = 0
===============================================================================
