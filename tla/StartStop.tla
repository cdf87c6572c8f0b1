------------------------------ MODULE StartStop ------------------------------
(***************************************************************************)
(* start-stop-daemon (core/start-stop-daemon), which the rc scripts start, *)
(* stop and query daemons with.  Callers run it side by side over one      *)
(* process table and one pid file.  Each step is a system call or a        *)
(* stretch of code that touches neither.  The package is built after       *)
(* `make patch': crux-patch.diff compiles the --notify options out.        *)
(***************************************************************************)
EXTENDS Integers, Sequences, FiniteSets, SequencesExt

CONSTANTS
  Inst,       \* callers of start-stop-daemon
  Pid,        \* process ids, 1..n
  Stranger,   \* programs that may get a process id the daemon had
  Daemon,     \* the program every --start names
  Self,       \* a start-stop-daemon that has not become the daemon yet
  Free,       \* no process has this id
  Owner,      \* Owner[g]: the number of the user a process that runs g belongs to
  Parent,     \* Parent[g]: the process id of its parent
  Protected,  \* programs the caller may not signal
  Uid,        \* the numbers of the users getpwnam and getpwuid know
  Groups,     \* the groups getgrnam knows
  Null,       \* an option that is not given
  NoFile,     \* there is no pid file
  NoNumber,   \* the pid file holds no number: it is empty or garbled
  Lines,      \* Lines[i]: the sequence of the command lines i may run
  InitFiles,  \* the pid files, [pid, mode], there may be before the first run
  Faults      \* what may fail

Program == Stranger \union {Daemon}
Image == Program \union {Self}

ASSUME PidAssumption ==
  /\ Cardinality(Pid) \in Nat \ {0} /\ Pid = 1..Cardinality(Pid)
  /\ Free \notin Image /\ Self \notin Program /\ Daemon \notin Stranger
  /\ NoFile \notin Nat /\ NoNumber \notin Nat /\ NoFile # NoNumber

\* The pid files there may be name a process, none or nothing.
ASSUME FilesAssumption ==
  InitFiles \subseteq [pid : Pid \union {0, NoFile, NoNumber}, mode : {"root", "unpriv", "world"}]

SIGKILL == 9
SIGTERM == 15
SIGMAX == 64

-------------------------------------------------------------------------------
(* Command lines.  A string is what it is as a word and as a number: num is  *)
(* -1 when strtol does not take all of it, or the value is out of range.     *)

Word(w) == [word |-> w, num |-> -1]
Num(n) == [word |-> "", num |-> n]

parse_pid(s) == IF s.num > 0 THEN s.num ELSE -1

siglist ==
  [ABRT |-> 6, ALRM |-> 14, FPE |-> 8, HUP |-> 1, ILL |-> 4, INT |-> 2, KILL |-> 9,
   PIPE |-> 13, QUIT |-> 3, SEGV |-> 11, TERM |-> 15, USR1 |-> 10, USR2 |-> 12,
   CHLD |-> 17, CONT |-> 18, STOP |-> 19, TSTP |-> 20, TTIN |-> 21, TTOU |-> 22]

parse_signal(s) ==
  IF s.num >= 0 THEN s.num ELSE IF s.word \in DOMAIN siglist THEN siglist[s.word] ELSE -1

\* --retry.  The argument is the sequence of strings between its slashes;
\* hyph says that a string starts with a hyphen.
Forever(it) == ~it.hyph /\ it.str.word = "forever"
Timeout(it) == ~it.hyph /\ it.str.num >= 0
BadItem(it) == ~Forever(it) /\ ~Timeout(it) /\ parse_signal(it.str) = -1

parse_schedule_item(it) ==
  IF Timeout(it) THEN [type |-> "timeout", value |-> it.str.num]
  ELSE [type |-> "signal", value |-> parse_signal(it.str)]

\* The item after the last slash is not looked at when it is empty, though
\* schedule_length counts it.
Items(r) ==
  IF r[Len(r)] = [hyph |-> FALSE, str |-> Word("")] THEN Front(r) ELSE r

parse_schedule(r, signal) ==
  LET items == Items(r)
      marks == {k \in DOMAIN items : Forever(items[k])}
      wait == parse_schedule_item(r[1])
  IN IF Len(r) = 1
     THEN IF Timeout(r[1])
          THEN <<[type |-> "signal", value |-> signal], wait,
                 [type |-> "signal", value |-> SIGKILL], wait>>
          ELSE Null
     ELSE IF \/ \E k \in DOMAIN items : BadItem(items[k])
             \/ \E k, l \in marks : k # l
             \/ Len(items) \in marks
             \/ items # r
     THEN Null
     ELSE IF marks = {}
     THEN [k \in DOMAIN items |-> parse_schedule_item(items[k])]
     ELSE LET m == CHOOSE m \in marks : TRUE
          IN  [k \in DOMAIN items |->
                IF k = Len(items) THEN [type |-> "goto", value |-> m]
                ELSE parse_schedule_item(items[IF k < m THEN k ELSE k + 1])]

\* The scheduling classes: "fatal" when the priority is no number, "usage"
\* when the class or the priority is not allowed.
parse_proc_schedule(a) ==
  LET prio == IF a.policy = "other" \/ a.prio = Null THEN 0 ELSE a.prio.num
  IN IF a.prio # Null /\ a.prio.num = -1 THEN "fatal"
     ELSE IF \/ a.policy = "other"
             \/ a.policy \in {"fifo", "rr"} /\ prio \in 1..99
     THEN "ok" ELSE "usage"

parse_io_schedule(a) ==
  LET prio == IF a.policy = "idle" THEN 7 ELSE IF a.prio = Null THEN 4 ELSE a.prio.num
  IN IF a.prio # Null /\ a.prio.num = -1 THEN "fatal"
     ELSE IF a.policy \in {"real-time", "best-effort", "idle"} /\ prio \in 0..7
     THEN "ok" ELSE "usage"

-------------------------------------------------------------------------------
(* The options, in the order they stand on the command line.               *)

NoOptions ==
  [action |-> "none", exec |-> Null, name |-> Null, user |-> Null, pid |-> Null,
   ppid |-> Null, pidfile |-> FALSE, startas |-> Null, signal |-> Null, retry |-> Null,
   procsched |-> Null, iosched |-> Null, umask |-> Null, output |-> Null,
   chuid |-> Null, group |-> Null, oknodo |-> FALSE, test |-> FALSE,
   background |-> FALSE, close |-> TRUE, make |-> FALSE, remove |-> FALSE,
   end |-> "none"]

set_action(o, new) ==
  IF o.action \in {"none", new} THEN [o EXCEPT !.action = new]
  ELSE [o EXCEPT !.end = "usage"]

\* One turn of the getopt loop.  Options that only have an effect on the
\* environment of the daemon (--nicelevel, --chroot, --chdir) and on what is
\* printed are not told apart: see Exec.
Take(o, a) ==
  IF o.end # "none" THEN o
  ELSE CASE a.opt = "action" -> set_action(o, a.arg)
         [] a.opt \in {"help", "version"} -> [o EXCEPT !.end = "done"]
         [] a.opt = "unknown" -> [o EXCEPT !.end = "usage"]
         [] a.opt = "chuid" ->
              IF a.arg.group = "" THEN [o EXCEPT !.end = "fatal"]
              ELSE [o EXCEPT !.chuid = a.arg.user,
                             !.group = IF a.arg.group = Null THEN @ ELSE a.arg.group]
         [] OTHER -> [o EXCEPT ![a.opt] = a.arg]

Given(o, names) == \E n \in names : o[n] # Null
NotNumber(s) == s # Null /\ s.num = -1

\* The tests after the loop, in their order; the first that holds ends the run.
Refusals(o) ==
  LET Usage(refused) == IF refused THEN "usage" ELSE "ok"
      startas == IF o.startas = Null THEN o.exec ELSE o.startas
  IN <<Usage(o.pid # Null /\ parse_pid(o.pid) = -1),
       Usage(o.ppid # Null /\ parse_pid(o.ppid) = -1),
       Usage(o.signal # Null /\ parse_signal(o.signal) = -1),
       Usage(o.retry # Null /\ parse_schedule(o.retry, SIGTERM) = Null),
       IF o.procsched # Null THEN parse_proc_schedule(o.procsched) ELSE "ok",
       IF o.iosched # Null THEN parse_io_schedule(o.iosched) ELSE "ok",
       Usage(NotNumber(o.umask)),
       Usage(o.output = "relative"),
       Usage(o.action = "none"),
       Usage(~o.pidfile /\ ~Given(o, {"exec", "name", "user", "pid", "ppid"})),
       Usage(o.action = "start" /\ startas = Null),
       Usage((o.make \/ o.remove) /\ ~o.pidfile),
       Usage(o.pid # Null /\ o.pidfile),
       Usage(o.background /\ o.action # "start"),
       Usage((~o.close \/ o.output # Null) /\ ~o.background)>>

signal_nr(o) == IF o.signal = Null THEN SIGTERM ELSE parse_signal(o.signal)

\* The schedule run_stop_schedule works through; test mode ignores it.
plan(o) ==
  IF o.action # "stop" \/ o.retry = Null \/ o.test THEN << >>
  ELSE parse_schedule(o.retry, signal_nr(o))

parse_options(line) ==
  LET o == FoldLeft(Take, NoOptions, line)
      r == Refusals(o)
      bad == {k \in DOMAIN r : r[k] # "ok"}
  IN IF o.end # "none" THEN o
     ELSE IF bad = {} THEN [o EXCEPT !.retry = plan(o)]
     ELSE [o EXCEPT !.end = r[CHOOSE k \in bad : \A l \in bad : k <= l]]

\* A user or group that is no number has to be known, and the user a daemon
\* is to run as in any case.
Unknown(s) == IF s.num = -1 THEN s.word \notin DOMAIN Uid ELSE s.num \notin Range(Uid)
setup_refuses(o) ==
  \/ NotNumber(o.user) /\ Unknown(o.user)
  \/ NotNumber(o.group) /\ o.group.word \notin Groups
  \/ o.chuid # Null /\ Unknown(o.chuid)

user_id(s) == IF s.num = -1 THEN Uid[s.word] ELSE s.num

\* badusage, fatalv: --status has a status of its own for what goes wrong.
ExitOf(o, end) ==
  IF end = "done" THEN 0 ELSE IF o.action = "status" THEN 4
  ELSE IF end = "usage" THEN 3 ELSE 2

\* What each of the command lines comes to.
Runs == [i \in Inst |-> [k \in DOMAIN Lines[i] |-> parse_options(Lines[i][k])]]

\* The options a run of i can get past main with.
Accepted(i) == {Runs[i][k] : k \in {k \in DOMAIN Runs[i] : Runs[i][k].end = "none"}}

exitnodo(o) == IF o.oknodo THEN 0 ELSE 1

\* What the getopt loop can make of the arguments: every option holds one of
\* its own, and no process has a number beyond Pid.
Text == [word : STRING, num : Int]
Options ==
  [action : {"none", "start", "stop", "status"},
   exec : Image \union {Null}, name : Image \union {Null}, startas : Image \union {Null},
   user : Text \union {Null}, ppid : Text \union {Null}, signal : Text \union {Null},
   pid : [word : STRING, num : Pid \union {0, -1}] \union {Null},
   retry : (Seq([hyph : BOOLEAN, str : Text]) \ {<< >>}) \union {Null},
   procsched : [policy : STRING, prio : Text \union {Null}] \union {Null},
   iosched : [policy : STRING, prio : Text \union {Null}] \union {Null},
   umask : Text \union {Null}, output : STRING \union {Null},
   chuid : Text \union {Null}, group : Text \union {Null},
   pidfile : BOOLEAN, oknodo : BOOLEAN, test : BOOLEAN, background : BOOLEAN,
   close : BOOLEAN, make : BOOLEAN, remove : BOOLEAN,
   end : {"none", "done", "usage", "fatal"}]

ASSUME LinesAssumption ==
  /\ Null \notin Image \union Text /\ Null \notin Seq([hyph : BOOLEAN, str : Text])
  /\ \A i \in Inst : \A k \in DOMAIN Lines[i] : FoldLeft(Take, NoOptions, Lines[i][k]) \in Options

-------------------------------------------------------------------------------
VARIABLES
  proc,     \* proc[p]: the image process p runs, or Free
  pidfile,  \* the number in the pid file, NoNumber or NoFile
  mode,     \* "root", "unpriv": not root's, "world": writable by all
  pc,       \* where each caller's start-stop-daemon is
  opt,      \* its options
  seen,     \* the number do_pidfile keeps, 0 before it has read one
  found,    \* the list of the same name: still to be signalled in do_stop
  at,       \* the process id the scan of /proc comes to next
  look,     \* what do_findprocs returns
  pos,      \* position in the schedule
  timer,    \* seconds until do_stop_timeout gives up
  killed,   \* n_killed # 0
  any,      \* anykilled
  child,    \* the process that becomes the daemon, 0 for none
  second,   \* the second parent of daemonize
  code,     \* the exit status, in the step that ends a run
  hit,      \* history: the living processes this run has sent a signal to
            \* while its options matched them
  careful   \* history: no run so far was careless, see Careful

file == <<pidfile, mode>>
stop == <<pos, timer, killed, any, hit>>
start == <<child, second>>
find == <<seen, found, at, look>>
vars == <<proc, file, pc, opt, find, stop, start, code, careful>>

NoExit == -1   \* no exit in this step, or the caller became the daemon

Going == code' = [i \in Inst |-> NoExit]

\* All but the history of the signals, which a start has none of.
Leaves(i, status) ==
  /\ pc' = [pc EXCEPT ![i] = "idle"]
  /\ code' = [j \in Inst |-> IF j = i THEN status ELSE NoExit]
  /\ opt' = [opt EXCEPT ![i] = NoOptions]
  /\ seen' = [seen EXCEPT ![i] = 0]
  /\ found' = [found EXCEPT ![i] = {}]
  /\ at' = [at EXCEPT ![i] = 1]
  /\ look' = [look EXCEPT ![i] = 3]
  /\ pos' = [pos EXCEPT ![i] = 1]
  /\ timer' = [timer EXCEPT ![i] = 0]
  /\ killed' = [killed EXCEPT ![i] = FALSE]
  /\ any' = [any EXCEPT ![i] = FALSE]
  /\ child' = [child EXCEPT ![i] = 0]
  /\ second' = [second EXCEPT ![i] = "none"]

Exits(i, status) ==
  /\ Leaves(i, status)
  /\ hit' = [hit EXCEPT ![i] = {}]

Fails(i) == Exits(i, ExitOf(opt[i], "fatal")) /\ UNCHANGED <<proc, file>>

Goto(i, where) == pc' = [pc EXCEPT ![i] = where]

-------------------------------------------------------------------------------
(* The loop of run_stop_schedule: item k is a signal, a timeout or a goto.  A  *)
(* stop without --retry has no schedule and one signal, a start and a status   *)
(* have neither.                                                               *)

Enter(i, o, k, done) ==
  LET s == o.retry
      m == IF k <= Len(s) /\ s[k].type = "goto" THEN s[k].value ELSE k
  IN IF s # << >> /\ m > Len(s)
     THEN Exits(i, 2)
     ELSE /\ opt' = [opt EXCEPT ![i] = o]
          /\ pos' = [pos EXCEPT ![i] = m]
          /\ any' = [any EXCEPT ![i] = done]
          /\ killed' = [killed EXCEPT ![i] = FALSE]
          /\ IF s # << >> /\ s[m].type = "timeout"
             THEN Goto(i, "poll") /\ timer' = [timer EXCEPT ![i] = s[m].value]
             ELSE Goto(i, "find") /\ UNCHANGED timer
          /\ UNCHANGED <<find, start, hit>> /\ Going

-------------------------------------------------------------------------------
(* Careful use.  Runs do not overlap; a pid file is only removed by a stop   *)
(* that goes by it alone, may signal the process and waits for it; every     *)
(* start records the daemon in the pid file, and when it also matches --exec *)
(* no earlier start is still on its way to execv.                            *)

\* The pid file is all there is to go by.
OnlyPidfile(o) == o.pidfile /\ ~Given(o, {"exec", "name", "user", "ppid"})

\* kill(2) knows the signals of the schedule.
SignalsExist(o) ==
  \A k \in DOMAIN o.retry : o.retry[k].type = "signal" => o.retry[k].value <= SIGMAX

Careful(o) ==
  /\ \A j \in Inst : pc[j] = "idle"
  /\ o.action = "stop" /\ o.remove =>
       /\ o.retry # << >> /\ OnlyPidfile(o) /\ SignalsExist(o)
       /\ {Daemon, Self} \intersect Protected = {}
  /\ o.action = "start" =>
       /\ o.make
       /\ ~Given(o, {"name", "user", "ppid"})
       /\ o.exec # Null => o.exec = Daemon /\ \A p \in Pid : proc[p] # Self

\* main: the options are read, the users looked up and the executable stat'ed.
Invoke(i) ==
  /\ pc[i] = "idle"
  /\ \E k \in DOMAIN Runs[i] :
       LET o == Runs[i][k]
           refused == o.end # "none" \/ setup_refuses(o)
       IN \/ /\ refused
             /\ Exits(i, ExitOf(o, IF o.end = "none" THEN "fatal" ELSE o.end))
             /\ UNCHANGED careful
          \/ /\ ~refused /\ "stat" \in Faults /\ o.exec # Null
             /\ Exits(i, ExitOf(o, "fatal"))
             /\ UNCHANGED careful
          \/ /\ ~refused
             /\ Enter(i, o, 1, FALSE)
             /\ careful' = (careful /\ Careful(o))
  /\ UNCHANGED <<proc, file>>

-------------------------------------------------------------------------------
(* do_findprocs.                                                           *)

Alive(p) == p = 0 \/ proc[p] # Free

\* kill(2) may signal p; 0 stands for the process group of the caller.
MaySignal(p) == p = 0 \/ proc[p] \notin Protected \union {Free}

\* /proc has nothing to say about process 0, kill(2) has.
Process(p) == p # 0 /\ proc[p] # Free

pid_is_exec(o, p) == Process(p) /\ proc[p] = o.exec
pid_is_child(o, p) == Process(p) /\ Parent[proc[p]] = o.ppid.num
pid_is_user(o, p) == Process(p) /\ Owner[proc[p]] = user_id(o.user)
pid_is_cmd(o, p) == Process(p) /\ proc[p] = o.name
pid_is_running(p) == Alive(p)

pid_check(o, p) ==
  /\ o.exec # Null => pid_is_exec(o, p)
  /\ o.ppid # Null => pid_is_child(o, p)
  /\ o.user # Null => pid_is_user(o, p)
  /\ o.name # Null => pid_is_cmd(o, p)
  /\ o.action # "stop" => pid_is_running(p)

Insecure(o) == mode = "world" \/ (mode = "unpriv" /\ OnlyPidfile(o))

\* do_pidfile up to pid_check: once it has a number it does not look again.
do_pidfile(i) ==
  /\ pc[i] = "find" /\ opt[i].pidfile /\ seen[i] = 0
  /\ \/ /\ \/ pidfile # NoFile /\ Insecure(opt[i])
           \/ "open" \in Faults
        /\ Fails(i)
        /\ UNCHANGED careful
     \/ /\ pidfile = NoFile \/ ~Insecure(opt[i])
        /\ IF pidfile \in {NoFile, NoNumber}
           THEN /\ look' = [look EXCEPT ![i] = IF pidfile = NoFile THEN 3 ELSE 4]
                /\ found' = [found EXCEPT ![i] = {}]
                /\ Goto(i, "found")
                /\ UNCHANGED seen
           ELSE /\ seen' = [seen EXCEPT ![i] = pidfile]
                /\ Goto(i, "check")
                /\ UNCHANGED <<look, found>>
        /\ UNCHANGED <<proc, file, opt, at, stop, start, careful>> /\ Going

\* do_findprocs with --pid, or with the number from the pid file.
CheckPid(i) ==
  /\ \/ pc[i] = "check"
     \/ pc[i] = "find" /\ (opt[i].pid # Null \/ seen[i] # 0)
  /\ LET p == IF opt[i].pid # Null THEN opt[i].pid.num ELSE seen[i]
         ok == pid_check(opt[i], p)
     IN /\ found' = [found EXCEPT ![i] = IF ok THEN {p} ELSE {}]
        /\ look' = [look EXCEPT ![i] = IF ok THEN 0 ELSE IF opt[i].pidfile THEN 1 ELSE 3]
  /\ Goto(i, "found")
  /\ UNCHANGED <<proc, file, opt, seen, at, stop, start, careful>> /\ Going

\* Mutant: the next scan goes on where this one has ended.
do_procinit_once(i) ==
  /\ pc[i] = "find" /\ ~opt[i].pidfile /\ opt[i].pid = Null
  /\ at' = [at EXCEPT ![i] = @ + 1]
  /\ Goto(i, IF at[i] + 1 \in Pid THEN "find" ELSE "found")
  /\ UNCHANGED <<proc, file, opt, seen, found, look, stop, start, careful>> /\ Going

\* do_procinit: one process after the other, as readdir lists them.
do_procinit(i) ==
  /\ pc[i] = "find" /\ ~opt[i].pidfile /\ opt[i].pid = Null
  /\ LET p == at[i]
         ok == proc[p] # Free /\ pid_check(opt[i], p)
         so_far == IF p = 1 THEN {} ELSE found[i]
         all == IF ok THEN so_far \union {p} ELSE so_far
         last == p + 1 \notin Pid
     IN /\ found' = [found EXCEPT ![i] = all]
        /\ at' = [at EXCEPT ![i] = IF last THEN 1 ELSE p + 1]
        /\ look' = [look EXCEPT ![i] = IF all = {} THEN 3 ELSE 0]
        /\ Goto(i, IF last THEN "found" ELSE "find")
  /\ UNCHANGED <<proc, file, opt, seen, stop, start, careful>> /\ Going

Status(i) ==
  /\ pc[i] = "found" /\ opt[i].action = "status"
  /\ Exits(i, look[i])
  /\ UNCHANGED <<proc, file, careful>>

-------------------------------------------------------------------------------
(* do_start.                                                               *)

\* Already running, or only tested.
Refrain(i) ==
  /\ pc[i] = "found" /\ opt[i].action = "start"
  /\ \/ found[i] # {} /\ Exits(i, exitnodo(opt[i]))
     \/ found[i] = {} /\ opt[i].test /\ Exits(i, 0)
  /\ UNCHANGED <<proc, file, careful>>

Starting(i) ==
  pc[i] = "found" /\ opt[i].action = "start" /\ found[i] = {} /\ ~opt[i].test

\* The process that will call execv.
Full == \A p \in Pid : proc[p] # Free
Forks(i) ==
  \E p \in Pid : /\ proc[p] = Free
                 /\ proc' = [proc EXCEPT ![p] = Self]
                 /\ child' = [child EXCEPT ![i] = p]

\* Without --background it is the caller's own process, which has no place
\* in the table before.
StartHere(i) ==
  /\ Starting(i) /\ ~opt[i].background
  /\ \/ /\ Forks(i)
        /\ Goto(i, IF opt[i].make THEN "open" ELSE "exec")
        /\ UNCHANGED <<file, opt, find, stop, second>> /\ Going
     \/ Full /\ Fails(i)
  /\ UNCHANGED careful

\* daemonize: the first fork makes the second parent, the caller waits.
daemonize(i) ==
  /\ Starting(i) /\ opt[i].background
  /\ \/ /\ Goto(i, "wait")
        /\ second' = [second EXCEPT ![i] = "fork"]
        /\ UNCHANGED <<proc, file, opt, find, stop, child>> /\ Going
     \/ "fork" \in Faults /\ Fails(i)
  /\ UNCHANGED careful

\* Mutant: the test of mpidfile is the wrong way round.
SecondForkSwapped(i) ==
  /\ second[i] = "fork" /\ Forks(i)
  /\ second' = [second EXCEPT ![i] = IF opt[i].make THEN "ok" ELSE "open"]
  /\ UNCHANGED <<file, pc, opt, find, stop, careful>> /\ Going

\* The second fork makes the daemon.
SecondFork(i) ==
  /\ second[i] = "fork"
  /\ \/ /\ Forks(i)
        /\ second' = [second EXCEPT ![i] = IF opt[i].make THEN "open" ELSE "ok"]
     \/ /\ "fork" \in Faults \/ Full
        /\ second' = [second EXCEPT ![i] = "failed"]
        /\ UNCHANGED <<proc, child>>
  /\ UNCHANGED <<file, pc, opt, find, stop, careful>> /\ Going

\* write_pidfile: open(O_CREAT | O_TRUNC), then the number, by the second
\* parent under umask 022 or by the caller itself under its own.  (When the
\* caller itself cannot write it, that is a Die.)
OpenPidfile(i) ==
  \/ /\ second[i] = "open"
     /\ \/ /\ pidfile' = NoNumber
           /\ mode' = IF pidfile = NoFile THEN "root" ELSE mode
           /\ second' = [second EXCEPT ![i] = "write"]
           /\ UNCHANGED careful
        \/ /\ "pidfile" \in Faults
           /\ second' = [second EXCEPT ![i] = "failed"]
           /\ careful' = FALSE
           /\ UNCHANGED file
     /\ UNCHANGED <<proc, pc, opt, find, stop, child>> /\ Going
  \/ /\ pc[i] = "open"
     /\ pidfile' = NoNumber
     /\ mode' = IF pidfile # NoFile THEN mode
                ELSE IF opt[i].umask = Num(0) THEN "world" ELSE "root"
     /\ Goto(i, "write")
     /\ UNCHANGED <<proc, opt, find, stop, start, careful>> /\ Going

\* When fclose fails the number may be there or not.
write_pidfile(i) ==
  /\ \/ /\ second[i] = "write"
        /\ \/ /\ second' = [second EXCEPT ![i] = "ok"]
              /\ pidfile' = child[i]
              /\ UNCHANGED careful
           \/ /\ "pidfile" \in Faults
              /\ second' = [second EXCEPT ![i] = "failed"]
              /\ pidfile' \in {pidfile, child[i]}
              /\ careful' = FALSE
        /\ UNCHANGED pc
     \/ /\ pc[i] = "write"
        /\ Goto(i, "exec")
        /\ pidfile' = child[i]
        /\ UNCHANGED <<second, careful>>
  /\ UNCHANGED <<proc, mode, opt, find, stop, child>> /\ Going

\* Mutant: the caller does not wait for the second parent to exit.
wait_for_nobody(i) ==
  /\ pc[i] = "wait" /\ second[i] # "fork"
  /\ Exits(i, 0)
  /\ UNCHANGED <<proc, file, careful>>

wait_for_child(i) ==
  /\ pc[i] = "wait" /\ second[i] \in {"ok", "failed"}
  /\ Exits(i, IF second[i] = "ok" THEN 0 ELSE 2)
  /\ UNCHANGED <<proc, file, careful>>

\* The rest of do_start, in the process that becomes the daemon: output,
\* priorities, directories and ids are set up, then execv.  When any of it
\* fails the process ends, see Die.
Exec(p) ==
  /\ proc[p] = Self
  /\ ~\E i \in Inst : child[i] = p /\ pc[i] \in {"open", "write"}
  /\ proc' = [proc EXCEPT ![p] = Daemon]
  /\ IF \E i \in Inst : child[i] = p /\ pc[i] = "exec"
     THEN \E i \in Inst : /\ child[i] = p /\ pc[i] = "exec"
                          /\ Exits(i, NoExit)
     ELSE UNCHANGED <<pc, opt, find, start, stop>> /\ Going
  /\ UNCHANGED <<file, careful>>

-------------------------------------------------------------------------------
(* run_stop_schedule.  Without --retry there is one signal and no schedule.  *)

Stopping(i) == pc[i] # "idle" /\ opt[i].action = "stop"
Item(i) == opt[i].retry[pos[i]]
Retries(i) == opt[i].retry # << >>

Signal(i) ==
  IF ~Retries(i) THEN signal_nr(opt[i])
  ELSE IF Item(i).type = "signal" THEN Item(i).value ELSE 0

\* finish_stop_schedule up to remove_pidfile.
Finish(i, done) ==
  IF opt[i].remove /\ ~opt[i].test
  THEN /\ Goto(i, "remove")
       /\ any' = [any EXCEPT ![i] = done]
       /\ UNCHANGED <<opt, find, start, pos, timer, killed, hit>> /\ Going
  ELSE Exits(i, IF done THEN 0 ELSE exitnodo(opt[i]))

\* The head of the loop of do_stop_timeout.
Poll(i) ==
  /\ pc[i] = "poll"
  /\ \/ timer[i] = 0 /\ Enter(i, opt[i], pos[i] + 1, any[i])
     \/ /\ killed' = [killed EXCEPT ![i] = FALSE]
        /\ Goto(i, "find")
        /\ UNCHANGED <<opt, find, start, pos, timer, any, hit>> /\ Going
  /\ UNCHANGED <<proc, file, careful>>

\* do_stop: the processes found are signalled in the order of the list, the
\* last one found first.  A signal to process 0 ends the caller with its group.
do_stop(i) ==
  /\ pc[i] = "found" /\ opt[i].action = "stop" /\ found[i] # {}
  /\ LET p == CHOOSE p \in found[i] : \A q \in found[i] : q <= p
         ok == opt[i].test \/ (MaySignal(p) /\ Signal(i) <= SIGMAX)
         sent == ok /\ ~opt[i].test /\ Signal(i) # 0
     IN IF sent /\ p = 0
        THEN Exits(i, 128 + Signal(i))
        ELSE /\ found' = [found EXCEPT ![i] = @ \ {p}]
             /\ killed' = [killed EXCEPT ![i] = @ \/ ok]
             /\ hit' = IF sent /\ pid_check(opt[i], p) THEN [hit EXCEPT ![i] = @ \union {p}] ELSE hit
             /\ UNCHANGED <<pc, opt, seen, at, look, start, pos, timer, any>> /\ Going
  /\ UNCHANGED <<proc, file, careful>>

\* Mutant: the end of a timeout is taken for the end of the processes.
JudgeByTime(i) ==
  /\ pc[i] = "found" /\ opt[i].action = "stop" /\ found[i] = {}
  /\ IF Retries(i) /\ killed[i] /\ Item(i).type = "signal"
     THEN Enter(i, opt[i], pos[i] + 1, TRUE)
     ELSE Finish(i, killed[i] \/ any[i])
  /\ UNCHANGED <<proc, file, careful>>

\* What run_stop_schedule and do_stop_timeout make of it.
Judge(i) ==
  /\ pc[i] = "found" /\ opt[i].action = "stop" /\ found[i] = {}
  /\ \/ /\ ~Retries(i)
        /\ Finish(i, killed[i])
     \/ /\ Retries(i) /\ ~killed[i]
        /\ Finish(i, any[i])
     \/ /\ Retries(i) /\ killed[i] /\ Item(i).type = "signal"
        /\ Enter(i, opt[i], pos[i] + 1, TRUE)
     \/ /\ Retries(i) /\ killed[i] /\ Item(i).type = "timeout"
        /\ IF timer[i] = 0 THEN Enter(i, opt[i], pos[i] + 1, any[i])
           ELSE /\ Goto(i, "poll")
                /\ UNCHANGED <<opt, find, stop, start>> /\ Going
  /\ UNCHANGED <<proc, file, careful>>

remove_pidfile(i) ==
  /\ pc[i] = "remove"
  /\ \/ /\ pidfile' = NoFile
        /\ Exits(i, IF any[i] THEN 0 ELSE exitnodo(opt[i]))
        /\ UNCHANGED <<proc, mode>>
     \/ "unlink" \in Faults /\ Fails(i)
  /\ UNCHANGED careful

-------------------------------------------------------------------------------
(* The rest of the system.                                                 *)

\* A second passes for a run that waits.
Tick(i) ==
  /\ timer[i] > 0
  /\ timer' = [timer EXCEPT ![i] = @ - 1]
  /\ UNCHANGED <<proc, file, pc, opt, find, pos, killed, any, hit, start, careful>> /\ Going

\* A process ends, of its own or by a signal.  Of a start in the foreground
\* the caller learns when it fails before execv.
Die(p) ==
  /\ proc[p] # Free
  /\ proc' = [proc EXCEPT ![p] = Free]
  /\ hit' = [i \in Inst |-> hit[i] \ {p}]
  /\ IF \E i \in Inst : child[i] = p /\ pc[i] \in {"open", "write", "exec"}
     THEN \E i \in Inst : /\ child[i] = p /\ pc[i] \in {"open", "write", "exec"}
                          /\ \E status \in {2, 128 + SIGKILL} : Leaves(i, status)
     ELSE UNCHANGED <<pc, opt, find, start, pos, timer, killed, any>> /\ Going
  /\ UNCHANGED <<file, careful>>

\* Another program gets the process id.
Reuse(p) ==
  /\ proc[p] = Free
  /\ \E g \in Stranger : proc' = [proc EXCEPT ![p] = g]
  /\ UNCHANGED <<file, pc, opt, find, stop, start, careful>> /\ Going

Step(i) ==
  \/ do_pidfile(i) \/ CheckPid(i) \/ do_procinit(i) \/ Status(i)
  \/ Refrain(i) \/ StartHere(i) \/ daemonize(i) \/ SecondFork(i)
  \/ OpenPidfile(i) \/ write_pidfile(i) \/ wait_for_child(i)
  \/ Poll(i) \/ do_stop(i) \/ Judge(i) \/ remove_pidfile(i)

Init ==
  /\ proc = [p \in Pid |-> Free]
  /\ \E f \in InitFiles : pidfile = f.pid /\ mode = f.mode
  /\ pc = [i \in Inst |-> "idle"]
  /\ opt = [i \in Inst |-> NoOptions]
  /\ seen = [i \in Inst |-> 0] /\ found = [i \in Inst |-> {}]
  /\ at = [i \in Inst |-> 1] /\ look = [i \in Inst |-> 3]
  /\ pos = [i \in Inst |-> 1] /\ timer = [i \in Inst |-> 0]
  /\ killed = [i \in Inst |-> FALSE] /\ any = [i \in Inst |-> FALSE]
  /\ hit = [i \in Inst |-> {}]
  /\ child = [i \in Inst |-> 0] /\ second = [i \in Inst |-> "none"]
  /\ code = [i \in Inst |-> NoExit]
  /\ careful = TRUE

Next ==
  \/ \E i \in Inst : Invoke(i) \/ Step(i) \/ Tick(i)
  \/ \E p \in Pid : Exec(p) \/ Die(p) \/ Reuse(p)

Spec == Init /\ [][Next]_vars

-------------------------------------------------------------------------------
(* Properties.                                                             *)

\* The state of every run has its type, and what do_findprocs has found and
\* the schedule make sense for the phase it is in.
TypeOK ==
  /\ proc \in [Pid -> Image \union {Free}]
  /\ pidfile \in Pid \union {0, NoFile, NoNumber}
  /\ mode \in {"root", "unpriv", "world"}
  /\ careful \in BOOLEAN
  /\ \A i \in Inst :
       /\ pc[i] \in {"idle", "find", "check", "found", "wait", "open", "write", "exec",
                     "poll", "remove"}
       /\ seen[i] \in Pid \union {0}
       /\ found[i] \subseteq Pid \union {0}
       /\ at[i] \in Pid /\ look[i] \in {0, 1, 3, 4}
       /\ timer[i] \in Nat /\ {killed[i], any[i]} \subseteq BOOLEAN
       /\ child[i] \in Pid \union {0}
       /\ second[i] \in {"none", "fork", "open", "write", "ok", "failed"}
       /\ code[i] \in Nat \union {NoExit}
       /\ hit[i] \subseteq Pid
       /\ (Stopping(i) /\ Retries(i) => pos[i] \in DOMAIN opt[i].retry)

\* What GoneOnSuccess takes of the command lines: kill(2) answers a signal it does
\* not know as it answers for a process that is gone, and a process that was
\* signalled before its execv is still matched, and signalled, after it.
Matches(o, g) ==
  /\ o.exec # Null => g = o.exec
  /\ o.ppid # Null => Parent[g] = o.ppid.num
  /\ o.user # Null => Owner[g] = user_id(o.user)
  /\ o.name # Null => g = o.name

Obeyable ==
  /\ \A i \in Inst : \A o \in Accepted(i) : o.retry # << >> =>
       SignalsExist(o) /\ (Matches(o, Self) => Matches(o, Daemon))
  /\ Daemon \in Protected => Self \in Protected

\* A stop with --retry that exits as if it had been obeyed, or removes the
\* pid file, has seen every process end that it signalled and that matched:
\* do_stop_timeout's answer is about processes, not about time.  (Another
\* program may get the signal, when it takes over the process id between the
\* look and the kill.)
GoneOnSuccess ==
  [][\A i \in Inst :
       /\ Stopping(i) /\ Retries(i)
       /\ (pc'[i] = "idle" /\ code'[i] \in {0, 1}) \/ pc'[i] = "remove"
       => hit[i] = {}]_vars

\* With careful use there is at most one daemon, counting the one a start
\* that has exited is still about to execv: the caller exits only after the
\* second parent has written the pid file.
OneDaemon ==
  careful => \A p, q \in Pid : {proc[p], proc[q]} \subseteq {Daemon, Self} => p = q

\* With careful use a status by the pid file that says the program does not
\* run is right: what a start leaves running is in the pid file when the
\* start exits, and stays there until a stop has seen it end.
StatusTrue ==
  [][\A i \in Inst :
       /\ careful /\ opt[i].action = "status" /\ OnlyPidfile(opt[i])
       /\ code'[i] \in {1, 3}
       => \A p \in Pid : proc[p] \notin {Daemon, Self}]_vars
==============================================================================
