----------------------------- MODULE PkgmanConfig -----------------------------
(***************************************************************************)
(* What a call of pkgman comes to before a command runs: the command line  *)
(* (ArgParser), the configuration (Config) and the choice of the command   *)
(* (main).  An argument is a pair <<name, value>>: an option, with what    *)
(* follows its "=" if it takes a value, or a word.  A line of the          *)
(* configuration is a record of its key, its value and, for a directory of *)
(* packages, the packages that are taken from it.                          *)
(***************************************************************************)
EXTENDS Integers, Sequences, SequencesExt

Commands ==
  {"dumpconfig", "list", "list-dup", "list-nodependents", "list-orphans", "list-locked",
   "printf", "info", "readme", "path", "isinst", "current", "diff", "mdep", "dep", "rdep",
   "search", "dsearch", "fsearch", "install", "update", "remove", "sysup", "lock", "unlock",
   "ls", "cat", "edit"}

\* What an option without a value switches on.
Flags ==
  [o \in {"--no-std-config", "--help", "--version", "--force", "--test", "--deps", "--all", "--full",
          "--path", "--log", "--pre-install", "--post-install", "--pre-remove", "--post-remove",
          "--regex", "--recursive", "--tree", "--group", "--depsort"} |-> {o}]
  @@ "-h" :> {"--help"} @@ "-V" :> {"--version"}
  @@ "--install-scripts" :> {"--pre-install", "--post-install"}
  @@ "--remove-scripts" :> {"--pre-remove", "--post-remove"}

Verbosity == "-v" :> 1 @@ "-vv" :> 2

\* What is handed on to pkgadd and to pkgmk.
PkgaddArgs == "-f" :> "-f" @@ "-fi" :> "-f"
PkgmkArgs ==
  [o \in {"-d", "-do", "-if", "-uf", "-im", "-um", "-is", "-us", "-kw", "-ns"} |-> o]
  @@ "-fr" :> "-f"

ConfigData == {"--config-append=", "--config-prepend=", "--config-set="}
Values == {"--config=", "--root=", "--rargs=", "--sort=", "--filter=", "--ignore="}

NewParser ==
  [command |-> "", name |-> "", unknown |-> "", cmdArgs |-> << >>, flags |-> {}, verbose |-> 0,
   margs |-> << >>, aargs |-> << >>, configData |-> << >>, value |-> << >>]

\* Parsing ends at an unknown option, and at a first word that is no command.
Stopped(p) == p.unknown # "" \/ (p.name # "" /\ p.command = "")

parseArg(p, arg) ==
  LET name == arg[1] value == arg[2] IN
  IF Stopped(p) THEN p ELSE
  CASE name \in DOMAIN Flags -> [p EXCEPT !.flags = @ \union Flags[name]]
    [] name \in DOMAIN Verbosity -> [p EXCEPT !.verbose = @ + Verbosity[name]]
    [] name \in DOMAIN PkgaddArgs -> [p EXCEPT !.aargs = Append(@, PkgaddArgs[name])]
    [] name \in DOMAIN PkgmkArgs -> [p EXCEPT !.margs = Append(@, PkgmkArgs[name])]
    [] name = "--aargs=" -> [p EXCEPT !.aargs = Append(@, value)]
    [] name = "--margs=" -> [p EXCEPT !.margs = Append(@, value)]
    [] name \in ConfigData -> [p EXCEPT !.configData = Append(@, arg)]
    [] name \in Values -> [p EXCEPT !.value = name :> value @@ @]
    [] SubSeq(name, 1, 1) # "-" ->
         IF p.command # "" THEN [p EXCEPT !.cmdArgs = Append(@, name)]
         ELSE [p EXCEPT !.name = name, !.command = IF name \in Commands THEN name ELSE ""]
    [] OTHER -> [p EXCEPT !.unknown = name]

parse(argv) == FoldLeft(parseArg, NewParser, argv)

-------------------------------------------------------------------------------
(* main: an unknown option is reported, and what was parsed until then is  *)
(* run.                                                                    *)

Many == 1000  \* stands for no limit

\* The least and the greatest number of arguments of a command.
ArgCount ==
  [c \in {"printf", "info", "readme", "path", "current", "dep", "rdep", "search", "dsearch", "ls"}
     |-> <<1, 1>>]
  @@ [c \in {"isinst", "fsearch", "install", "update", "remove", "lock", "unlock"} |-> <<1, Many>>]
  @@ [c \in {"cat", "edit"} |-> <<1, 2>>]
  @@ "list-dup" :> <<0, 1>>
  @@ [c \in Commands |-> <<0, Many>>]

Ends(end, status, p) == [end |-> end, status |-> status, parser |-> p]

main(argv) ==
  LET p == parse(argv)
      count == Len(p.cmdArgs)
      failed == p.unknown = "" /\ p.command = ""
  IN
  CASE failed /\ p.name # "" -> Ends("unknown command", 1, p)
    [] p.name = "" /\ failed /\ p.flags \intersect {"--help", "--version"} = {} ->
         Ends("no command", 1, p)
    [] OTHER ->
         IF "--version" \in p.flags THEN Ends("version", 0, p)
         ELSE IF "--help" \in p.flags THEN Ends("man", 0, p)
         ELSE IF p.verbose > 2 THEN Ends("-v and -vv", 1, p)
         ELSE IF p.command = "" THEN Ends("unknown command", 1, p)
         ELSE IF count \notin ArgCount[p.command][1]..ArgCount[p.command][2]
              THEN Ends("arguments", 1, p)
         ELSE Ends("run", 0, p)

-------------------------------------------------------------------------------
(* The configuration.                                                      *)

Config ==
  [rootList |-> << >>, logFile |-> "", writeLog |-> FALSE, logMode |-> "overwrite",
   removeLogOnSuccess |-> FALSE, readmeMode |-> "verbose", preferHigher |-> FALSE,
   useRegex |-> FALSE, runScripts |-> FALSE, runscriptcommand |-> "sh",
   makecommand |-> "/usr/sbin/pkgmk", addcommand |-> "/usr/sbin/pkgadd",
   removecommand |-> "/usr/sbin/pkgrm", errors |-> << >>]

\* The switches: a value that is not listed leaves them as they are, so that
\* most of them can be switched on and not off again.
Switches ==
  <<"writelog", "enabled">> :> [writeLog |-> TRUE]
  @@ <<"logmode", "overwrite">> :> [logMode |-> "overwrite"]
  @@ <<"logmode", "append">> :> [logMode |-> "append"]
  @@ <<"rmlog_on_success", "yes">> :> [removeLogOnSuccess |-> TRUE]
  @@ <<"readme", "compact">> :> [readmeMode |-> "compact"]
  @@ <<"readme", "disabled">> :> [readmeMode |-> "off"]
  @@ <<"runscripts", "yes">> :> [runScripts |-> TRUE]
  @@ <<"preferhigher", "yes">> :> [preferHigher |-> TRUE]
  @@ <<"useregex", "yes">> :> [useRegex |-> TRUE]

CommandKeys == {"makecommand", "addcommand", "removecommand", "runscriptcommand"}
SwitchKeys == {s[1] : s \in DOMAIN Switches}

\* dirs: what is a directory when the line is read.
parseLine(config, line, prepend, dirs) ==
  LET root == <<[path |-> line.value, packages |-> line.packages]>>
      setting == <<line.key, line.value>>
  IN
  CASE line.key = "pkgsrcdir" ->
         IF line.value \notin dirs THEN [config EXCEPT !.errors = Append(@, line)]
         ELSE [config EXCEPT !.rootList = IF prepend THEN root \o @ ELSE @ \o root]
    [] line.key \in SwitchKeys ->
         IF setting \in DOMAIN Switches THEN Switches[setting] @@ config ELSE config
    [] line.key = "logfile" -> [config EXCEPT !.logFile = line.value]
    [] line.key \in CommandKeys -> [config EXCEPT ![line.key] = line.value]
    [] OTHER -> [config EXCEPT !.errors = Append(@, line)]

\* --config-set= replaces the directories; every other setting is replaced by
\* whatever comes later anyway.
addConfig(config, data, dirs) ==
  LET line == data[2]
      set == data[1] = "--config-set=" /\ line.key = "pkgsrcdir"
  IN  parseLine(IF set THEN [config EXCEPT !.rootList = << >>] ELSE config,
                line, data[1] = "--config-prepend=", dirs)

parseConfig(lines, log, dirs) ==
  LET config == FoldLeft(LAMBDA c, line : parseLine(c, line, FALSE, dirs), Config, lines)
  IN  IF log THEN [config EXCEPT !.writeLog = TRUE] ELSE config

\* Pkgman::readConfig.  files: the lines of every file that can be read.  The
\* file that cannot be read also ends the configuration on the command line.
readConfig(p, files, dirs) ==
  LET path == IF "--config=" \in DOMAIN p.value THEN p.value["--config="] ELSE "/etc/pkgman.conf"
      std == "--no-std-config" \notin p.flags
      Add(config) == FoldLeft(LAMBDA c, data : addConfig(c, data, dirs), config, p.configData)
  IN
  IF std /\ path \notin DOMAIN files THEN [config |-> Config, ret |-> -1]
  ELSE [config |-> Add(IF std THEN parseConfig(files[path], "--log" \in p.flags, dirs) ELSE Config),
        ret |-> 0]

-------------------------------------------------------------------------------
(* dumpconfig.                                                             *)

\* What a file of settings says last.  The file named by -cf is not looked at.
getSettingFromFile(setting, lines) ==
  LET candidates == SelectSeq(lines, LAMBDA line : line.key = setting)
  IN  IF candidates = << >> THEN "" ELSE Last(candidates).value

get(setting, pkgmkConf, pkgmk) ==
  LET value == getSettingFromFile(setting, pkgmkConf)
  IN  IF value # "" THEN value ELSE getSettingFromFile(setting, pkgmk)

\* The settings it shows; what is empty is left out.  The path is not the one
\* that was read if there is a --root.
dumpConfig(p, config, pkgmkConf, pkgmk) ==
  LET path == IF "--config=" \in DOMAIN p.value THEN p.value["--config="]
              ELSE IF "--root=" \in DOMAIN p.value THEN p.value["--root="] \o "/etc/pkgman.conf"
              ELSE "/etc/pkgman.conf"
      shown == {k \in CommandKeys : config[k] # ""}
               \union {"runScripts", "preferHigher", "readmeMode", "writeLog", "rootList"}
               \union (IF config.writeLog /\ config.logFile # "" THEN {"logFile"} ELSE {})
  IN  [k \in shown |-> config[k]]
      @@ (IF "--no-std-config" \in p.flags THEN << >> ELSE "file" :> path)
      @@ [k \in {"PKGMK_PACKAGE_DIR", "PKGMK_COMPRESSION_MODE"} |-> get(k, pkgmkConf, pkgmk)]
===============================================================================
