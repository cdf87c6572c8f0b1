-------------------------------- MODULE Revdep --------------------------------
(***************************************************************************)
(* revdep: which installed packages need a library that is not there.      *)
(*                                                                         *)
(* A world w is what a run finds: lines (of the package database, or       *)
(* NoFile), conf (the lines of the files that can be read, by path), confd *)
(* (the lines of the files in the configuration directory, by name), real  *)
(* (realpath: for every path that leads somewhere, where to), file (what   *)
(* is in a regular file) and platform (AT_PLATFORM).  A path, a library    *)
(* and a directory is a sequence of "/", variables like "$ORIGIN" and the  *)
(* text between them.                                                      *)
(***************************************************************************)
EXTENDS Integers, Sequences, SequencesExt

CONSTANT NoFile

Slash == <<"/">>

\* utility.cpp: the parts between the delimiters, empty ones too.
split(in, delimiter) ==
  FoldLeft(LAMBDA out, c : IF c = delimiter THEN Append(out, << >>)
                           ELSE [out EXCEPT ![Len(out)] = Append(@, c)],
           << << >> >>, in)

-------------------------------------------------------------------------------
(* Elf.  The contents of a file that libelf reads: type, osabi and machine *)
(* of the header, the program headers (with the section each leads to) and *)
(* the entries of the dynamic section.                                     *)

isValidElf(f) ==
  /\ f.elf
  /\ f.type \in {"EXEC", "DYN"}
  /\ f.osabi \in {"NONE", "LINUX"}
  /\ f.machine \in {"386", "X86_64"}

\* A file whose section headers have been stripped has none.
getDynamicSection(f) == \E i \in DOMAIN f.phdrs : f.phdrs[i] = [type |-> "DYNAMIC", section |-> "DYNAMIC"]

Tagged(f, tag) == SelectSeq(f.dyn, LAMBDA d : d.tag = tag)
readDynamicSection(f, tag) ==
  FlattenSeq([i \in DOMAIN Tagged(f, tag) |-> split(Tagged(f, tag)[i].val, ":")])

\* The object for a path; NoFile stands for one that is not Valid().
Elf(w, path) ==
  IF path \notin DOMAIN w.file THEN NoFile
  ELSE LET f == w.file[path] IN
       IF ~ isValidElf(f) \/ ~ getDynamicSection(f) THEN NoFile
       ELSE [path |-> path, machine |-> f.machine,
             needed |-> [i \in DOMAIN Tagged(f, "NEEDED") |-> Tagged(f, "NEEDED")[i].val],
             rpath |-> readDynamicSection(f, "RPATH"),
             runpath |-> readDynamicSection(f, "RUNPATH")]

Compatible(elf, elf2) == elf.machine = elf2.machine

-------------------------------------------------------------------------------
(* ElfCache.  A search s has the cache and whether it has found something. *)

dirname(path) ==
  LET at == SelectLastInSeq(path, LAMBDA c : c = "/")
  IN  IF at = 1 THEN Slash ELSE SubSeq(path, 1, at - 1)

\* The variables in the order in which they are replaced.
vars(w, elf) ==
  LET lib == <<"lib">> IN
  << <<"$LIB", lib>>, <<"${LIB}", lib>>, <<"$PLATFORM", w.platform>>, <<"${PLATFORM}", w.platform>>,
     <<"$ORIGIN", dirname(elf.path)>>, <<"${ORIGIN}", dirname(elf.path)>> >>

Endless == <<"endless">>

\* The first occurrence of every variable is replaced, as long as there is one.
\* It does not end if the directory of the file has the name of the variable.
RECURSIVE resolve(_, _, _)
resolve(values, out, rounds) ==
  LET Replace(p, v) ==
        LET j == SelectInSeq(p, LAMBDA c : c = v[1])
        IN  IF j = 0 THEN p ELSE SubSeq(p, 1, j - 1) \o v[2] \o SubSeq(p, j + 1, Len(p))
      replaced == FoldLeft(Replace, out, values)
  IN  IF \A v \in ToSet(values) : ~ Contains(out, v[1]) THEN out
      ELSE IF rounds = 0 THEN Endless
      ELSE resolve(values, replaced, rounds - 1)

\* More rounds than a path can have variables.
MaxRounds == 8
resolveDirVars(w, elf, path) == resolve(vars(w, elf), path, MaxRounds)
resolveRunPaths(w, elf, paths) == [i \in DOMAIN paths |-> resolveDirVars(w, elf, paths[i])]

\* What is not an ELF file is looked at again each time.
LookUp(w, cache, path) ==
  IF path \in DOMAIN cache THEN cache
  ELSE IF Elf(w, path) = NoFile THEN cache
  ELSE path :> Elf(w, path) @@ cache

Try(w, elf, s, path) ==
  IF s.found \/ path \notin DOMAIN w.real THEN s
  ELSE LET cache == LookUp(w, s.cache, w.real[path])
       IN  [cache |-> cache,
            found |-> w.real[path] \in DOMAIN cache /\ Compatible(elf, cache[w.real[path]])]

findLibraryByDirs(w, elf, s, lib, dirs) ==
  FoldLeft(LAMBDA t, dir : Try(w, elf, t, dir \o Slash \o lib), s, dirs)

findLibraryByPath(w, elf, s, lib) ==
  Try(w, elf, s, IF Head(lib) = "/" THEN lib ELSE dirname(elf.path) \o Slash \o lib)

FindLibrary(w, cache, elf, pkg, lib, dirs) ==
  LET own == IF elf.runpath # << >> THEN elf.runpath ELSE elf.rpath
      start == [cache |-> cache, found |-> FALSE]
  IN  IF Contains(lib, "/") THEN findLibraryByPath(w, elf, start, lib)
      ELSE findLibraryByDirs(w, elf, start, lib, resolveRunPaths(w, elf, own) \o dirs \o pkg.dirs)

-------------------------------------------------------------------------------
(* What is read at the start.                                              *)

\* Up to the first empty line, or the end.
Record(lines) ==
  LET end == SelectInSeq(lines, LAMBDA line : line = << >>)
  IN  IF end = 0 THEN lines ELSE SubSeq(lines, 1, end - 1)

readPackage(record) ==
  [name |-> record[1], version |-> record[2], dirs |-> << >>, ignore |-> FALSE,
   files |-> [i \in 1..(Len(record) - 2) |-> Slash \o record[i + 2]]]

\* A record of less than two lines is taken for the end.
RECURSIVE ReadPackages(_)
ReadPackages(lines) ==
  LET record == Record(lines)
  IN  IF Len(record) < 2 THEN << >>
      ELSE <<readPackage(record)>> \o ReadPackages(SubSeq(lines, Len(record) + 2, Len(lines)))

Comment(line) == line # << >> /\ Head(line) = "#"

\* An include names the files its pattern matches.  NoFile: it failed.
RECURSIVE ReadLdConf(_, _, _)
ReadLdConf(w, path, maxDepth) ==
  LET Include(dirs, file) ==
        LET more == ReadLdConf(w, file, maxDepth - 1)
        IN  IF dirs = NoFile \/ more = NoFile THEN NoFile ELSE dirs \o more
      Line(dirs, line) ==
        IF dirs = NoFile \/ line = << >> \/ Comment(line) THEN dirs
        ELSE IF Head(line) = "include" THEN FoldLeft(Include, dirs, Tail(line))
        ELSE Append(dirs, line)
  IN  IF maxDepth <= 0 \/ path \notin DOMAIN w.conf THEN NoFile
      ELSE FoldLeft(Line, << >>, w.conf[path])

ReadRdConf(lines) == SelectSeq(lines, LAMBDA line : line # << >> /\ ~ Comment(line))

\* The first package of that name.
Find(pkgs, name) == SelectInSeq(pkgs, LAMBDA pkg : pkg.name = name)

ReadPackageDirs(w, pkgs) ==
  [i \in DOMAIN pkgs |->
     IF pkgs[i].name \in DOMAIN w.confd /\ Find(pkgs, pkgs[i].name) = i
     THEN [pkgs[i] EXCEPT !.dirs = ReadRdConf(w.confd[pkgs[i].name])] ELSE pkgs[i]]

ignorePackages(pkgs, ignores) ==
  [i \in DOMAIN pkgs |->
     [pkgs[i] EXCEPT !.ignore = Contains(ignores, pkgs[i].name) /\ Find(pkgs, pkgs[i].name) = i]]

-------------------------------------------------------------------------------
(* The check.  A state has the cache and what was found wrong.             *)

\* lstat: a symbolic link is not a file.
IsFile(w, path) == path \in DOMAIN w.file

workFile(w, s, pkg, dirs, file) ==
  LET cache == IF IsFile(w, file) THEN LookUp(w, s.cache, file) ELSE s.cache
      Need(t, lib) ==
        LET f == FindLibrary(w, t.cache, cache[file], pkg, lib, dirs)
        IN  [cache |-> f.cache,
             wrong |-> IF f.found THEN t.wrong ELSE Append(t.wrong, <<pkg.name, file, lib>>)]
  IN  IF ~ IsFile(w, file) \/ file \notin DOMAIN cache THEN [s EXCEPT !.cache = cache]
      ELSE FoldLeft(Need, [s EXCEPT !.cache = cache], cache[file].needed)

workPackage(w, s, pkg, dirs) ==
  IF pkg.ignore THEN s ELSE FoldLeft(LAMBDA t, file : workFile(w, t, pkg, dirs, file), s, pkg.files)

\* The exit status is 4 if a package is in the list.
Work(w, pkgs, dirs) ==
  LET s == FoldLeft(LAMBDA t, pkg : workPackage(w, t, pkg, dirs), [cache |-> << >>, wrong |-> << >>], pkgs)
  IN  [rc |-> IF s.wrong = << >> THEN 0 ELSE 4, wrong |-> s.wrong, cache |-> s.cache]

workAllPackages(w, pkgs, dirs) == Work(w, pkgs, dirs)

\* A name that is not installed is passed over.
workSpecificPackages(w, pkgs, dirs, names) ==
  LET installed == SelectSeq(names, LAMBDA name : Find(pkgs, name) # 0)
  IN  Work(w, [i \in DOMAIN installed |-> pkgs[Find(pkgs, installed[i])]], dirs)

Ends(rc) == [rc |-> rc, wrong |-> << >>, cache |-> << >>]

\* cmd: bad (an option getopt refuses), help, version, ignores and the names.
main(w, cmd, ldsoconf) ==
  LET pkgs == ignorePackages(ReadPackageDirs(w, ReadPackages(w.lines)), cmd.ignores)
      conf == ReadLdConf(w, ldsoconf, 10)
      dirs == conf \o << <<"/", "lib">>, <<"/", "usr", "/", "lib">> >>
  IN
  CASE cmd.bad -> Ends(1)
    [] ~ cmd.bad /\ (cmd.help \/ cmd.version) -> Ends(0)
    [] OTHER ->
         IF w.lines = NoFile THEN Ends(2)
         ELSE IF ReadPackages(w.lines) = << >> THEN Ends(2)
         ELSE IF conf = NoFile THEN Ends(3)
         ELSE IF cmd.names = << >> THEN workAllPackages(w, pkgs, dirs)
         ELSE workSpecificPackages(w, pkgs, dirs, cmd.names)
===============================================================================
