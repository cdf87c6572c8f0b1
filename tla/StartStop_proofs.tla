--------------------------- MODULE StartStop_proofs ---------------------------
(***************************************************************************)
(* For any number of callers, command lines, programs and process numbers: *)
(* what the options are after parse_options, that a stop which succeeds    *)
(* has seen the end of all it signalled, and that careful use keeps one    *)
(* daemon and true statuses.                                               *)
(***************************************************************************)
EXTENDS StartStop, WellFoundedInduction, TLAPS

-------------------------------------------------------------------------------
(* What parse_options accepts.                                             *)

Schedule ==
  {s \in Seq([type : {"signal", "timeout", "goto"}, value : Nat]) :
     \A k \in DOMAIN s : s[k].type = "goto" => s[k].value # 0}

Good(o) ==
  /\ o.action \in {"start", "stop", "status"}
  /\ o.pid # Null => o.pid.num \in Pid /\ ~o.pidfile
  /\ o.make \/ o.remove => o.pidfile
  /\ signal_nr(o) \in Nat
  /\ o.retry \in Schedule
  /\ o.retry # << >> => o.action = "stop" /\ ~o.test
  /\ {o.pidfile, o.make, o.remove, o.test, o.background, o.oknodo} \subseteq BOOLEAN

LEMMA ElementFact ==
  ASSUME NEW S, NEW s \in Seq(S), NEW k \in DOMAIN s
  PROVE  s[k] \in S
OBVIOUS

LEMMA SignalFact ==
  ASSUME NEW s \in Text
  PROVE  parse_signal(s) \in Nat \union {-1}
<1>1. s.num \in Int
  BY DEF Text
<1>2. \A w \in DOMAIN siglist : siglist[w] \in Nat
  BY DEF siglist
<1> QED
  BY <1>1, <1>2 DEF parse_signal

LEMMA ItemFact ==
  ASSUME NEW it \in [hyph : BOOLEAN, str : Text], ~BadItem(it), ~Forever(it)
  PROVE  parse_schedule_item(it) \in [type : {"signal", "timeout"}, value : Nat]
<1>1. it.str \in Text /\ it.str.num \in Int
  BY DEF Text
<1>2. CASE Timeout(it)
  BY <1>1, <1>2 DEF Timeout, parse_schedule_item
<1>3. CASE ~Timeout(it)
  BY <1>1, <1>3, SignalFact DEF BadItem, parse_schedule_item
<1> QED
  BY <1>2, <1>3

LEMMA ScheduleFact ==
  ASSUME NEW r \in Seq([hyph : BOOLEAN, str : Text]) \ {<< >>}, NEW signal \in Nat,
         NEW other, parse_schedule(r, other) # Null
  PROVE  parse_schedule(r, signal) \in Schedule
<1> DEFINE items == Items(r)
           marks == {k \in DOMAIN items : Forever(items[k])}
           bad == \/ \E k \in DOMAIN items : BadItem(items[k])
                  \/ \E k, l \in marks : k # l
                  \/ Len(items) \in marks
                  \/ items # r
           S == [type : {"signal", "timeout", "goto"}, value : Nat]
<1>1. Len(r) \in Nat /\ Len(r) # 0 /\ DOMAIN r = 1..Len(r)
  OBVIOUS
<1>2. CASE Len(r) = 1
  <2>0. r[1] \in [hyph : BOOLEAN, str : Text]
    <3>1. 1 \in DOMAIN r
      BY <1>1, <1>2
    <3> QED
      BY <3>1, ElementFact
  <2>1. Timeout(r[1])
    BY <1>2, Zenon DEF parse_schedule
  <2>2. parse_schedule_item(r[1]) \in [type : {"timeout"}, value : Nat]
    BY <2>0, <2>1 DEF Timeout, parse_schedule_item, Text
  <2> DEFINE w == parse_schedule_item(r[1])
  <2>3. parse_schedule(r, signal) = <<[type |-> "signal", value |-> signal], w,
                                      [type |-> "signal", value |-> SIGKILL], w>>
    BY <1>2, <2>1 DEF parse_schedule
  <2> HIDE DEF w
  <2>4. w \in S /\ w.type # "goto"
    BY <2>2 DEF w
  <2>5. <<[type |-> "signal", value |-> signal], w,
          [type |-> "signal", value |-> SIGKILL], w>> \in Seq(S)
    BY <2>4 DEF SIGKILL
  <2> QED
    BY <2>3, <2>4, <2>5 DEF Schedule
<1>3. CASE Len(r) # 1
  <2>1. ~bad
    BY <1>3 DEF parse_schedule
  <2>2. items = r
    BY <2>1
  <2>3. CASE marks = {}
    <3>1. parse_schedule(r, signal) = [k \in DOMAIN r |-> parse_schedule_item(r[k])]
      BY <1>3, <2>1, <2>2, <2>3 DEF parse_schedule
    <3>2. ASSUME NEW k \in DOMAIN r
          PROVE  parse_schedule_item(r[k]) \in [type : {"signal", "timeout"}, value : Nat]
      <4>1. ~BadItem(r[k]) /\ ~Forever(r[k])
        BY <2>1, <2>2, <2>3
      <4>2. r[k] \in [hyph : BOOLEAN, str : Text]
        BY ElementFact
      <4> QED
        BY <4>1, <4>2, ItemFact
    <3>3. [k \in DOMAIN r |-> parse_schedule_item(r[k])] \in Seq(S)
      BY <1>1, <3>2
    <3> QED
      BY <3>1, <3>2, <3>3 DEF Schedule
  <2>4. CASE marks # {}
    <3> DEFINE m == CHOOSE m \in marks : TRUE
               x(k) == IF k < m THEN k ELSE k + 1
    <3>1. m \in marks /\ \A k \in DOMAIN r : k # m => k \notin marks
      BY <2>1, <2>4
    <3>2. parse_schedule(r, signal) =
            [k \in DOMAIN r |-> IF k = Len(r) THEN [type |-> "goto", value |-> m]
                                ELSE parse_schedule_item(r[x(k)])]
      BY <1>3, <2>1, <2>2, <2>4 DEF parse_schedule
    <3> HIDE DEF m
    <3>3. m \in DOMAIN r
      BY <2>2, <3>1
    <3>4. \A k \in DOMAIN r : k # Len(r) => x(k) \in DOMAIN r /\ x(k) # m
      BY <1>1, <3>3
    <3>5. ASSUME NEW k \in DOMAIN r, k # m
          PROVE  parse_schedule_item(r[k]) \in [type : {"signal", "timeout"}, value : Nat]
      <4>1. ~BadItem(r[k]) /\ ~Forever(r[k])
        BY <2>1, <2>2, <3>1, <3>5
      <4>2. r[k] \in [hyph : BOOLEAN, str : Text]
        BY ElementFact
      <4> QED
        BY <4>1, <4>2, ItemFact
    <3>6. \A k \in DOMAIN r : k # Len(r) =>
            parse_schedule_item(r[x(k)]) \in [type : {"signal", "timeout"}, value : Nat]
      BY <3>4, <3>5
    <3> HIDE DEF x
    <3>7. m \in Nat /\ m # 0
      BY <1>1, <3>3
    <3> DEFINE f == [k \in DOMAIN r |-> IF k = Len(r) THEN [type |-> "goto", value |-> m]
                                       ELSE parse_schedule_item(r[x(k)])]
    <3>8. \A k \in DOMAIN r : f[k] \in S /\ (f[k].type = "goto" => f[k].value # 0)
      BY <1>1, <3>6, <3>7
    <3>9. f \in Seq(S)
      BY <1>1, <3>8
    <3> QED
      BY <3>2, <3>8, <3>9 DEF Schedule
  <2> QED
    BY <2>3, <2>4
<1> QED
  BY <1>2, <1>3

LEMMA MinFact ==
  ASSUME NEW T \in SUBSET Nat, T # {}
  PROVE  \E x \in T : \A y \in T : x <= y
<1> DEFINE R == {x \in Nat \X Nat : x[1] < x[2]}
<1>1. OpToRel(<, Nat) = R
  BY DEF OpToRel
<1>2. IsWellFoundedOn(R, Nat)
  BY <1>1, NatLessThanWellFounded
<1>3. \A x, y \in Nat : <<y, x>> \in R <=> y < x
  OBVIOUS
<1> HIDE DEF R
<1>4. PICK x \in T : \A y \in T : ~(<<y, x>> \in R)
  BY <1>2, WFMin
<1>5. \A y \in T : ~(y < x)
  BY <1>3, <1>4
<1>6. \A y \in T : x <= y
  BY <1>5
<1> QED
  BY <1>6

LEMMA MaxFact ==
  ASSUME NEW n \in Nat, NEW T \in SUBSET (0..n), T # {}
  PROVE  \E x \in T : \A y \in T : y <= x
<1> DEFINE U == {n - x : x \in T}
<1>1. U \in SUBSET Nat /\ U # {}
  <2>1. \A x \in T : n - x \in Nat
    OBVIOUS
  <2>2. U # {}
    OBVIOUS
  <2> QED
    BY <2>1, <2>2
<1>2. PICK u \in U : \A v \in U : u <= v
  BY <1>1, MinFact
<1>3. PICK x \in T : u = n - x
  OBVIOUS
<1>4. \A y \in T : n - x <= n - y
  BY <1>2, <1>3
<1> QED
  BY <1>4
LEMMA AcceptedFact ==
  ASSUME NEW line, parse_options(line).end = "none"
  PROVE  LET o == FoldLeft(Take, NoOptions, line)
         IN  /\ o.end = "none"
             /\ \A k \in 1..15 : Refusals(o)[k] = "ok"
             /\ parse_options(line) = [o EXCEPT !.retry = plan(o)]
<1> DEFINE o == FoldLeft(Take, NoOptions, line)
           r == Refusals(o)
           bad == {k \in DOMAIN r : r[k] # "ok"}
           first == CHOOSE k \in bad : \A l \in bad : k <= l
<1>1. parse_options(line) =
        IF o.end # "none" THEN o
        ELSE IF bad = {} THEN [o EXCEPT !.retry = plan(o)]
        ELSE [o EXCEPT !.end = r[first]]
  BY Zenon DEF parse_options
<1> HIDE DEF o
<1>2. DOMAIN r = 1..15 /\ \A k \in 1..15 : r[k] \in {"ok", "usage", "fatal"}
  BY DEF Refusals, parse_proc_schedule, parse_io_schedule
<1> HIDE DEF r
<1>3. ASSUME bad # {} PROVE r[first] \in {"usage", "fatal"}
  <2>1. bad \in SUBSET Nat
    BY <1>2
  <2>2. \E k \in bad : \A l \in bad : k <= l
    BY <1>3, <2>1, MinFact
  <2>3. first \in bad
    BY <2>2
  <2> QED
    BY <1>2, <2>3
<1>4. o.end = "none" /\ bad = {}
  BY <1>1, <1>3
<1> QED
  BY <1>1, <1>2, <1>4 DEF o, r

LEMMA GoodFact ==
  ASSUME NEW i \in Inst, NEW k \in DOMAIN Runs[i], Runs[i][k].end = "none"
  PROVE  Good(Runs[i][k])
<1> DEFINE line == Lines[i][k]
           o == FoldLeft(Take, NoOptions, line)
           p == parse_options(line)
<1>1. Runs[i][k] = p /\ k \in DOMAIN Lines[i]
  BY Zenon DEF Runs
<1>2. o \in Options
  BY <1>1, LinesAssumption
<1>3. /\ \A n \in 1..15 : Refusals(o)[n] = "ok"
      /\ p = [o EXCEPT !.retry = plan(o)]
  BY <1>1, AcceptedFact
<1> HIDE DEF p, o
<1>4. /\ ~(o.pid # Null /\ parse_pid(o.pid) = -1)
      /\ ~(o.signal # Null /\ parse_signal(o.signal) = -1)
      /\ ~(o.retry # Null /\ parse_schedule(o.retry, SIGTERM) = Null)
      /\ o.action # "none"
      /\ ~((o.make \/ o.remove) /\ ~o.pidfile)
      /\ ~(o.pid # Null /\ o.pidfile)
  <2>1. /\ Refusals(o)[1] = "ok" /\ Refusals(o)[3] = "ok" /\ Refusals(o)[4] = "ok"
        /\ Refusals(o)[9] = "ok" /\ Refusals(o)[12] = "ok" /\ Refusals(o)[13] = "ok"
    BY <1>3
  <2> QED
    BY <2>1 DEF Refusals
<1>5. /\ p.retry = plan(o) /\ p.action = o.action /\ p.pid = o.pid /\ p.pidfile = o.pidfile
      /\ p.make = o.make /\ p.remove = o.remove /\ p.test = o.test /\ p.signal = o.signal
      /\ p.background = o.background /\ p.oknodo = o.oknodo
  BY <1>2, <1>3 DEF Options
<1>6. signal_nr(o) \in Nat
  <2>1. CASE o.signal = Null
    BY <2>1 DEF signal_nr, SIGTERM
  <2>2. CASE o.signal # Null
    <3>1. o.signal \in Text
      BY <1>2, <2>2 DEF Options
    <3> QED
      BY <1>4, <2>2, <3>1, SignalFact DEF signal_nr
  <2> QED
    BY <2>1, <2>2
<1>7. plan(o) \in Schedule /\ (plan(o) # << >> => o.action = "stop" /\ ~o.test)
  <2>1. CASE o.action # "stop" \/ o.retry = Null \/ o.test
    BY <2>1 DEF plan, Schedule
  <2>2. CASE ~(o.action # "stop" \/ o.retry = Null \/ o.test)
    <3>1. plan(o) = parse_schedule(o.retry, signal_nr(o))
      BY <2>2 DEF plan
    <3>2. o.retry \in Seq([hyph : BOOLEAN, str : Text]) \ {<< >>}
      BY <1>2, <2>2 DEF Options
    <3>3. parse_schedule(o.retry, SIGTERM) # Null
      BY <1>4, <2>2
    <3> QED
      BY <1>6, <2>2, <3>1, <3>2, <3>3, ScheduleFact
  <2> QED
    BY <2>1, <2>2
<1>8. o.pid # Null => o.pid.num \in Pid
  BY <1>2, <1>4, PidAssumption DEF Options, parse_pid
<1>9. /\ {o.pidfile, o.make, o.remove, o.test, o.background, o.oknodo} \subseteq BOOLEAN
      /\ o.action \in {"start", "stop", "status"}
  BY <1>2, <1>4 DEF Options
<1>10. signal_nr(p) = signal_nr(o)
  BY <1>5 DEF signal_nr
<1> QED
  BY <1>1, <1>4, <1>5, <1>6, <1>7, <1>8, <1>9, <1>10 DEF Good

-------------------------------------------------------------------------------
(* The state of one run in each phase.                                     *)

\* The options a run can be on its way with.
Opts == {NoOptions} \union UNION {Accepted(i) : i \in Inst}

Types ==
  /\ proc \in [Pid -> Image \union {Free}]
  /\ pidfile \in Pid \union {0, NoFile, NoNumber} /\ mode \in {"root", "unpriv", "world"}
  /\ hit \in [Inst -> SUBSET Pid] /\ careful \in BOOLEAN

RunTypes ==
  /\ pc \in [Inst -> {"idle", "find", "check", "found", "wait", "open", "write", "exec",
                      "poll", "remove"}]
  /\ opt \in [Inst -> Opts]
  /\ seen \in [Inst -> Pid \union {0}]
  /\ found \in [Inst -> SUBSET (Pid \union {0})]
  /\ at \in [Inst -> Pid] /\ look \in [Inst -> {0, 1, 3, 4}]
  /\ pos \in [Inst -> Nat] /\ timer \in [Inst -> Nat]
  /\ killed \in [Inst -> BOOLEAN] /\ any \in [Inst -> BOOLEAN]
  /\ child \in [Inst -> Pid \union {0}]
  /\ second \in [Inst -> {"none", "fork", "open", "write", "ok", "failed"}]
  /\ code \in [Inst -> Nat \union {NoExit}]

\* The phases of a start and of a stop.
Phase(i) ==
  /\ pc[i] = "idle" => opt[i] = NoOptions /\ seen[i] = 0
  /\ pc[i] # "idle" => opt[i] \in Accepted(i)
  /\ pc[i] \in {"wait", "open", "write", "exec"} => opt[i].action = "start"
  /\ second[i] # "none" => pc[i] = "wait"
  /\ child[i] # 0 => pc[i] \in {"wait", "open", "write", "exec"}
  /\ pc[i] = "poll" => Retries(i)
  /\ pc[i] = "remove" => opt[i].action = "stop" /\ opt[i].remove
  /\ Stopping(i) /\ Retries(i) => pos[i] \in DOMAIN opt[i].retry

\* What do_findprocs keeps.
Finding(i) ==
  /\ pc[i] = "check" \/ seen[i] # 0 => opt[i].pidfile
  /\ pc[i] # "find" \/ opt[i].pidfile \/ opt[i].pid # Null => at[i] = 1
  /\ pc[i] # "found" /\ at[i] = 1 => found[i] = {}
  /\ opt[i].pidfile => found[i] \subseteq {seen[i]}
  /\ opt[i].pid # Null => found[i] \subseteq {opt[i].pid.num}
  /\ pc[i] = "found" /\ look[i] # 0 => found[i] = {}

Base == Types /\ RunTypes /\ \A i \in Inst : Phase(i) /\ Finding(i)

-------------------------------------------------------------------------------
(* The processes a stop with --retry has signalled.                        *)

Hits(i) ==
  /\ opt[i].action # "stop" => hit[i] = {}
  /\ Stopping(i) /\ Retries(i) =>
       /\ \A q \in hit[i] : proc[q] \notin Protected \union {Free} /\ pid_check(opt[i], q)
       /\ opt[i].pidfile => hit[i] \subseteq {seen[i]}
       /\ opt[i].pid # Null => hit[i] \subseteq {opt[i].pid.num}
       /\ pc[i] = "find" => \A q \in hit[i] : q < at[i] => q \in found[i]
       /\ pc[i] = "found" /\ ~killed[i] => hit[i] \subseteq found[i]
       /\ pc[i] = "remove" => hit[i] = {}

AllHits == \A i \in Inst : Hits(i)

-------------------------------------------------------------------------------
(* Careful use.                                                            *)

Ours(p) == proc[p] \in {Daemon, Self}
Nothing == \A p \in Pid : ~Ours(p)

\* The daemon of this run is not in the pid file yet.
Writing(i) == pc[i] \in {"open", "write"} \/ second[i] \in {"open", "write"}

\* A run that goes by the pid file, whose verdict has to be right.
Relies(i) ==
  \/ opt[i].action = "start"
  \/ opt[i].action = "status" /\ OnlyPidfile(opt[i])
  \/ opt[i].action = "stop" /\ opt[i].remove

\* The part of Careful that is about the command line.
CarefulOptions(o) ==
  /\ o.action = "stop" /\ o.remove =>
       /\ o.retry # << >> /\ OnlyPidfile(o) /\ SignalsExist(o)
       /\ {Daemon, Self} \intersect Protected = {}
  /\ o.action = "start" =>
       /\ o.make
       /\ ~Given(o, {"name", "user", "ppid"})
       /\ o.exec # Null => o.exec = Daemon

Alone == \A i, j \in Inst : pc[i] # "idle" /\ pc[j] # "idle" => i = j

\* The daemon is in the pid file, or will be as soon as the file is written.
Recorded ==
  /\ \A p \in Pid : Ours(p) => pidfile = p \/ \E i \in Inst : Writing(i)
  /\ \A i \in Inst : \A p \in Pid : Writing(i) /\ Ours(p) => p = child[i]

SafeRun(i) ==
  /\ pc[i] # "idle" => CarefulOptions(opt[i])
  /\ /\ opt[i].action = "start" /\ opt[i].exec # Null
     /\ pc[i] \in {"find", "check", "found"}
     => \A p \in Pid : proc[p] # Self
  /\ /\ opt[i].pidfile
     /\ pc[i] = "check" \/ (pc[i] \in {"find", "found", "poll"} /\ seen[i] # 0)
     => \A p \in Pid : Ours(p) => p = seen[i]
  /\ /\ Relies(i) /\ pc[i] = "found"
     /\ opt[i].action = "stop" => ~killed[i]
     => \A p \in Pid : Ours(p) => p \in found[i]
  /\ pc[i] = "remove" \/ second[i] = "fork" => Nothing

Secure == Alone /\ Recorded /\ \A i \in Inst : SafeRun(i)
Safe == careful => Secure

-------------------------------------------------------------------------------
(* A step of one run leaves the others where they are.                     *)

Same(j) ==
  /\ pc'[j] = pc[j] /\ opt'[j] = opt[j]
  /\ seen'[j] = seen[j] /\ found'[j] = found[j] /\ at'[j] = at[j] /\ look'[j] = look[j]
  /\ pos'[j] = pos[j] /\ killed'[j] = killed[j] /\ any'[j] = any[j]
  /\ child'[j] = child[j] /\ second'[j] = second[j]

Moves(i) == RunTypes' /\ Phase(i)' /\ Finding(i)' /\ \A j \in Inst \ {i} : Same(j)

LEMMA SameFact ==
  ASSUME NEW j \in Inst, Phase(j), Finding(j), Same(j)
  PROVE  Phase(j)' /\ Finding(j)'
BY Zenon DEF Phase, Finding, Same, Stopping, Retries

LEMMA OptsFact ==
  /\ NoOptions \in Opts
  /\ \A i \in Inst : Accepted(i) \subseteq Opts
  /\ \A i \in Inst : \A o \in Accepted(i) : Good(o)
  /\ NoOptions.action = "none" /\ NoOptions.pid = Null /\ ~NoOptions.pidfile
<1>1. \A i \in Inst : \A o \in Accepted(i) : Good(o)
  BY GoodFact DEF Accepted
<1>2. NoOptions \in Opts /\ \A i \in Inst : Accepted(i) \subseteq Opts
  BY DEF Opts
<1>3. NoOptions.action = "none" /\ NoOptions.pid = Null /\ ~NoOptions.pidfile
  BY DEF NoOptions
<1> QED
  BY <1>1, <1>2, <1>3

LEMMA LeavesFact ==
  ASSUME RunTypes, NEW i \in Inst, NEW status \in Nat \union {NoExit}, Leaves(i, status)
  PROVE  Moves(i) /\ pc'[i] = "idle" /\ code'[i] = status
<1>1. RunTypes'
  BY OptsFact, PidAssumption DEF RunTypes, Leaves
<1>2. \A j \in Inst \ {i} : Same(j)
  BY DEF RunTypes, Leaves, Same
<1>3. /\ pc'[i] = "idle" /\ opt'[i] = NoOptions /\ seen'[i] = 0 /\ found'[i] = {} /\ at'[i] = 1
      /\ child'[i] = 0 /\ second'[i] = "none" /\ code'[i] = status
  BY DEF RunTypes, Leaves
<1>4. Phase(i)'
  BY <1>3, OptsFact DEF Phase, Stopping
<1>5. Finding(i)'
  BY <1>3, OptsFact DEF Finding
<1> QED
  BY <1>1, <1>2, <1>3, <1>4, <1>5 DEF Moves

\* A run that goes on has no exit status yet.
GoingTypes == Going => code' \in [Inst -> Nat \union {NoExit}] /\ \A i \in Inst : code'[i] = NoExit

LEMMA GoingFact == GoingTypes
BY DEF GoingTypes, Going, NoExit

LEMMA EnterFact ==
  ASSUME RunTypes, NEW i \in Inst, NEW o \in Accepted(i), NEW k \in Nat \ {0}, NEW done \in BOOLEAN,
         at[i] = 1, found[i] = {}, second[i] = "none", child[i] = 0,
         seen[i] # 0 => o.pidfile,
         Enter(i, o, k, done)
  PROVE  /\ Moves(i)
         /\ \/ Exits(i, 2) /\ pc'[i] = "idle" /\ code'[i] = 2
            \/ /\ pc'[i] \in {"find", "poll"} /\ opt'[i] = o /\ code'[i] = NoExit
               /\ ~killed'[i] /\ UNCHANGED <<find, start, hit>>
<1> DEFINE s == o.retry
           m == IF k <= Len(s) /\ s[k].type = "goto" THEN s[k].value ELSE k
<1>1. Good(o) /\ o \in Opts
  BY OptsFact
<1>2. s \in Schedule
  BY <1>1 DEF Good
<1>3. /\ s \in Seq([type : {"signal", "timeout", "goto"}, value : Nat])
      /\ Len(s) \in Nat /\ DOMAIN s = 1..Len(s)
      /\ \A x \in 1..Len(s) : s[x].value \in Nat /\ (s[x].type = "goto" => s[x].value # 0)
  <2>1. s \in Seq([type : {"signal", "timeout", "goto"}, value : Nat])
    BY <1>2 DEF Schedule
  <2>2. \A x \in DOMAIN s : s[x] \in [type : {"signal", "timeout", "goto"}, value : Nat]
    BY <2>1, ElementFact
  <2> QED
    BY <1>2, <2>1, <2>2 DEF Schedule
<1>4. m \in Nat \ {0} /\ (m <= Len(s) => s[m].value \in Nat)
  <2>1. CASE k <= Len(s) /\ s[k].type = "goto"
    BY <1>3, <2>1
  <2>2. CASE ~(k <= Len(s) /\ s[k].type = "goto")
    BY <1>3, <2>2
  <2> QED
    BY <2>1, <2>2
<1>5. \/ Exits(i, 2)
      \/ /\ s # << >> => m <= Len(s)
         /\ opt' = [opt EXCEPT ![i] = o] /\ pos' = [pos EXCEPT ![i] = m]
         /\ any' = [any EXCEPT ![i] = done] /\ killed' = [killed EXCEPT ![i] = FALSE]
         /\ \/ s # << >> /\ Goto(i, "poll") /\ timer' = [timer EXCEPT ![i] = s[m].value]
            \/ Goto(i, "find") /\ UNCHANGED timer
         /\ UNCHANGED <<find, start, hit>> /\ Going
  BY <1>3, <1>4 DEF Enter
<1> HIDE DEF m
<1>6. CASE Exits(i, 2)
  BY <1>6, LeavesFact DEF Exits
<1>7. CASE ~Exits(i, 2)
  <2>1. /\ s # << >> => m <= Len(s)
        /\ opt' = [opt EXCEPT ![i] = o] /\ pos' = [pos EXCEPT ![i] = m]
        /\ any' = [any EXCEPT ![i] = done] /\ killed' = [killed EXCEPT ![i] = FALSE]
        /\ \/ s # << >> /\ Goto(i, "poll") /\ timer' = [timer EXCEPT ![i] = s[m].value]
           \/ Goto(i, "find") /\ UNCHANGED timer
        /\ UNCHANGED <<find, start, hit>> /\ Going
    BY <1>5, <1>7
  <2>2. code' \in [Inst -> Nat \union {NoExit}] /\ code'[i] = NoExit
    BY <2>1, GoingFact DEF GoingTypes
  <2>3. RunTypes'
    <3>1. CASE s # << >> /\ Goto(i, "poll") /\ timer' = [timer EXCEPT ![i] = s[m].value]
      BY <1>1, <1>4, <2>1, <2>2, <3>1 DEF RunTypes, Goto, find, start
    <3>2. CASE Goto(i, "find") /\ UNCHANGED timer
      BY <1>1, <1>4, <2>1, <2>2, <3>2 DEF RunTypes, Goto, find, start
    <3> QED
      BY <2>1, <3>1, <3>2
  <2>4. \A j \in Inst \ {i} : Same(j)
    BY <2>1 DEF RunTypes, Same, Goto, find, start
  <2>5. /\ opt'[i] = o /\ pos'[i] = m /\ ~killed'[i]
        /\ pc'[i] = "find" \/ (pc'[i] = "poll" /\ s # << >>)
        /\ seen'[i] = seen[i] /\ found'[i] = {} /\ at'[i] = 1
        /\ child'[i] = 0 /\ second'[i] = "none"
    BY <2>1 DEF RunTypes, Goto, find, start
  <2>6. Phase(i)'
    BY <1>3, <1>4, <2>1, <2>5 DEF Phase, Stopping, Retries
  <2>7. Finding(i)'
    BY <2>5 DEF Finding
  <2> QED
    BY <2>1, <2>2, <2>3, <2>4, <2>5, <2>6, <2>7 DEF Moves
<1> QED
  BY <1>6, <1>7

LEMMA RunFact ==
  ASSUME Base, NEW i \in Inst
  PROVE  /\ Phase(i) /\ Finding(i)
         /\ pc[i] # "idle" => opt[i] \in Accepted(i) /\ Good(opt[i])
         /\ opt[i] \in Opts /\ seen[i] \in Pid \union {0}
         /\ found[i] \subseteq Pid \union {0} /\ at[i] \in Pid
         /\ child[i] \in Pid \union {0}
         /\ pos[i] \in Nat /\ timer[i] \in Nat /\ {killed[i], any[i]} \subseteq BOOLEAN
<1>1. Phase(i) /\ Finding(i)
  BY DEF Base
<1>2. pc[i] # "idle" => opt[i] \in Accepted(i) /\ Good(opt[i])
  BY <1>1, OptsFact DEF Phase
<1>3. /\ opt[i] \in Opts /\ seen[i] \in Pid \union {0}
      /\ found[i] \subseteq Pid \union {0} /\ at[i] \in Pid
      /\ child[i] \in Pid \union {0}
      /\ pos[i] \in Nat /\ timer[i] \in Nat /\ {killed[i], any[i]} \subseteq BOOLEAN
  BY DEF Base, RunTypes
<1> QED
  BY <1>1, <1>2, <1>3

LEMMA ExitFact ==
  ASSUME Base, NEW i \in Inst
  PROVE  /\ \A o, end : ExitOf(o, end) \in {0, 2, 3, 4}
         /\ \A o : exitnodo(o) \in {0, 1}
         /\ \A status \in Nat \union {NoExit} : Exits(i, status) \/ Leaves(i, status) => Moves(i)
         /\ Fails(i) => Moves(i)
<1>1. (\A o, end : ExitOf(o, end) \in {0, 2, 3, 4}) /\ \A o : exitnodo(o) \in {0, 1}
  BY DEF ExitOf, exitnodo
<1>2. \A status \in Nat \union {NoExit} : Exits(i, status) \/ Leaves(i, status) => Moves(i)
  BY LeavesFact DEF Base, Exits
<1> QED
  BY <1>1, <1>2 DEF Fails

LEMMA MovesInvoke ==
  ASSUME Base, NEW i \in Inst, Invoke(i)
  PROVE  Moves(i)
<1>1. PICK k \in DOMAIN Runs[i] :
        \/ \E status \in {0, 2, 3, 4} : Exits(i, status)
        \/ Runs[i][k].end = "none" /\ Enter(i, Runs[i][k], 1, FALSE)
  BY ExitFact DEF Invoke
<1>2. CASE \E status \in {0, 2, 3, 4} : Exits(i, status)
  BY <1>2, ExitFact
<1>3. CASE Runs[i][k].end = "none" /\ Enter(i, Runs[i][k], 1, FALSE)
  <2>1. Runs[i][k] \in Accepted(i)
    BY <1>3 DEF Accepted
  <2>2. at[i] = 1 /\ found[i] = {} /\ second[i] = "none" /\ child[i] = 0 /\ seen[i] = 0
    BY RunFact DEF Phase, Finding, Invoke
  <2>3. RunTypes /\ 1 \in Nat \ {0} /\ FALSE \in BOOLEAN
    BY DEF Base
  <2> DEFINE o == Runs[i][k]
  <2>4. Enter(i, o, 1, FALSE) /\ o \in Accepted(i)
    BY <1>3, <2>1
  <2> HIDE DEF o
  <2> QED
    BY <2>2, <2>3, <2>4, EnterFact
<1> QED
  BY <1>1, <1>2, <1>3

LEMMA Moves_do_pidfile ==
  ASSUME Base, NEW i \in Inst, do_pidfile(i)
  PROVE  Moves(i)
<1> DEFINE Read == \/ /\ pidfile \in {NoFile, NoNumber}
                      /\ look' = [look EXCEPT ![i] = IF pidfile = NoFile THEN 3 ELSE 4]
                      /\ found' = [found EXCEPT ![i] = {}]
                      /\ Goto(i, "found") /\ UNCHANGED seen
                   \/ /\ pidfile \notin {NoFile, NoNumber}
                      /\ seen' = [seen EXCEPT ![i] = pidfile]
                      /\ Goto(i, "check") /\ UNCHANGED <<look, found>>
<1>1. Fails(i) \/ (Read /\ UNCHANGED <<proc, file, opt, at, stop, start, careful>> /\ Going)
  BY DEF do_pidfile
<1>2. CASE Fails(i)
  BY <1>2, ExitFact
<1>3. CASE Read /\ UNCHANGED <<proc, file, opt, at, stop, start, careful>> /\ Going
  <2>1. code' \in [Inst -> Nat \union {NoExit}]
    BY <1>3, GoingFact DEF GoingTypes
  <2>2. pidfile \in {NoFile, NoNumber} \/ pidfile \in Pid \union {0}
    BY DEF Base, Types
  <2>3. RunTypes'
    BY <1>3, <2>1, <2>2 DEF Base, RunTypes, Goto, stop, start
  <2>4. \A j \in Inst \ {i} : Same(j)
    BY <1>3 DEF Base, RunTypes, Same, Goto, stop, start
  <2>5. /\ opt'[i] = opt[i] /\ at'[i] = at[i] /\ second'[i] = second[i] /\ child'[i] = child[i]
        /\ pos'[i] = pos[i] /\ found'[i] = {} /\ at[i] = 1 /\ pc'[i] \in {"check", "found"}
    BY <1>3, RunFact DEF Base, RunTypes, Goto, stop, start, do_pidfile, Finding
  <2>6. Phase(i)'
    BY <2>5, RunFact DEF Phase, Stopping, Retries, do_pidfile
  <2>7. Finding(i)'
    BY <2>5, RunFact DEF Finding, do_pidfile
  <2> QED
    BY <2>3, <2>4, <2>6, <2>7 DEF Moves
<1> QED
  BY <1>1, <1>2, <1>3

LEMMA MovesCheckPid ==
  ASSUME Base, NEW i \in Inst, CheckPid(i)
  PROVE  Moves(i)
<1> DEFINE p == IF opt[i].pid # Null THEN opt[i].pid.num ELSE seen[i]
           ok == pid_check(opt[i], p)
<1>1. /\ pc[i] \in {"check", "find"} /\ (opt[i].pid # Null \/ seen[i] # 0 \/ pc[i] = "check")
      /\ found' = [found EXCEPT ![i] = IF ok THEN {p} ELSE {}]
      /\ look' = [look EXCEPT ![i] = IF ok THEN 0 ELSE IF opt[i].pidfile THEN 1 ELSE 3]
      /\ Goto(i, "found")
      /\ UNCHANGED <<opt, seen, at, stop, start>> /\ Going
  BY DEF CheckPid
<1>2. code' \in [Inst -> Nat \union {NoExit}]
  BY <1>1, GoingFact DEF GoingTypes
<1>3. p \in Pid \union {0} /\ (opt[i].pidfile => p = seen[i]) /\ (opt[i].pid # Null => p = opt[i].pid.num)
  BY <1>1, RunFact DEF Good
<1> HIDE DEF p, ok
<1>4. RunTypes'
  BY <1>1, <1>2, <1>3 DEF Base, RunTypes, Goto, stop, start
<1>5. \A j \in Inst \ {i} : Same(j)
  BY <1>1 DEF Base, RunTypes, Same, Goto, stop, start
<1>6. /\ opt'[i] = opt[i] /\ at'[i] = at[i] /\ second'[i] = second[i] /\ child'[i] = child[i]
      /\ pos'[i] = pos[i] /\ pc'[i] = "found" /\ seen'[i] = seen[i]
      /\ found'[i] = IF ok THEN {p} ELSE {}
      /\ look'[i] = IF ok THEN 0 ELSE IF opt[i].pidfile THEN 1 ELSE 3
  BY <1>1 DEF Base, RunTypes, Goto, stop, start
<1>7. Phase(i)'
  BY <1>1, <1>6, RunFact DEF Phase, Stopping, Retries
<1>8. Finding(i)'
  BY <1>1, <1>3, <1>6, RunFact DEF Finding
<1> QED
  BY <1>4, <1>5, <1>7, <1>8 DEF Moves

LEMMA Moves_do_procinit ==
  ASSUME Base, NEW i \in Inst, do_procinit(i)
  PROVE  Moves(i)
<1> DEFINE p == at[i]
           ok == proc[p] # Free /\ pid_check(opt[i], p)
           so_far == IF p = 1 THEN {} ELSE found[i]
           all == IF ok THEN so_far \union {p} ELSE so_far
           last == p + 1 \notin Pid
<1>1. /\ pc[i] = "find" /\ ~opt[i].pidfile /\ opt[i].pid = Null
      /\ found' = [found EXCEPT ![i] = all]
      /\ at' = [at EXCEPT ![i] = IF last THEN 1 ELSE p + 1]
      /\ look' = [look EXCEPT ![i] = IF all = {} THEN 3 ELSE 0]
      /\ Goto(i, IF last THEN "found" ELSE "find")
      /\ UNCHANGED <<opt, seen, stop, start>> /\ Going
  BY DEF do_procinit
<1>2. code' \in [Inst -> Nat \union {NoExit}]
  BY <1>1, GoingFact DEF GoingTypes
<1>3. all \in SUBSET (Pid \union {0}) /\ p \in Nat /\ p # 0
  <2>1. p \in Pid /\ found[i] \subseteq Pid \union {0}
    BY RunFact
  <2>2. so_far \subseteq Pid \union {0}
    BY <2>1
  <2> HIDE DEF p, so_far
  <2>3. all \subseteq Pid \union {0}
    BY <2>1, <2>2
  <2> QED
    BY <2>1, <2>3, PidAssumption
<1> HIDE DEF all
<1>4. RunTypes'
  <2>1. (IF last THEN 1 ELSE p + 1) \in Pid
    BY PidAssumption
  <2> QED
    BY <1>1, <1>2, <1>3, <2>1 DEF Base, RunTypes, Goto, stop, start
<1>5. \A j \in Inst \ {i} : Same(j)
  BY <1>1 DEF Base, RunTypes, Same, Goto, stop, start
<1>6. /\ opt'[i] = opt[i] /\ second'[i] = second[i] /\ child'[i] = child[i]
      /\ pos'[i] = pos[i] /\ seen'[i] = seen[i] /\ found'[i] = all
      /\ at'[i] = (IF last THEN 1 ELSE p + 1) /\ pc'[i] = (IF last THEN "found" ELSE "find")
      /\ look'[i] = IF all = {} THEN 3 ELSE 0
  BY <1>1 DEF Base, RunTypes, Goto, stop, start
<1>7. Phase(i)'
  BY <1>1, <1>6, RunFact DEF Phase, Stopping, Retries
<1>8. Finding(i)'
  BY <1>1, <1>3, <1>6, RunFact DEF Finding
<1> QED
  BY <1>4, <1>5, <1>7, <1>8 DEF Moves

LEMMA MovesStatusRefrain ==
  ASSUME Base, NEW i \in Inst, Status(i) \/ Refrain(i)
  PROVE  Moves(i)
<1>1. exitnodo(opt[i]) \in Nat
  BY ExitFact
<1>2. look[i] \in Nat
  BY DEF Base, RunTypes
<1> QED
  BY <1>1, <1>2, ExitFact DEF Status, Refrain

\* The phases of a start change pc, child and second alone.
LEMMA MovesStart ==
  ASSUME Base, NEW i \in Inst, opt[i].action = "start", pc[i] \in {"found", "wait", "open", "write"},
         found[i] = {},
         NEW to \in {"wait", "open", "write", "exec"}, Goto(i, to),
         NEW p \in Pid \union {0}, child' = [child EXCEPT ![i] = p],
         NEW s \in {"none", "fork", "open", "write", "ok", "failed"},
         second' = [second EXCEPT ![i] = s],
         s # "none" => to = "wait",
         UNCHANGED <<opt, find, stop>>, Going
  PROVE  Moves(i)
<1>1. code' \in [Inst -> Nat \union {NoExit}]
  BY GoingFact DEF GoingTypes
<1>2. RunTypes'
  BY <1>1 DEF Base, RunTypes, Goto, stop, find
<1>3. \A j \in Inst \ {i} : Same(j)
  BY DEF Base, RunTypes, Same, Goto, stop, find
<1>4. /\ opt'[i] = opt[i] /\ second'[i] = s /\ child'[i] = p
      /\ pos'[i] = pos[i] /\ seen'[i] = seen[i] /\ found'[i] = found[i]
      /\ at'[i] = at[i] /\ pc'[i] = to /\ look'[i] = look[i]
  BY DEF Base, RunTypes, Goto, stop, find
<1>5. Phase(i)'
  BY <1>4, RunFact DEF Phase, Stopping, Retries
<1>6. Finding(i)'
  BY <1>4, RunFact DEF Finding
<1> QED
  BY <1>2, <1>3, <1>5, <1>6 DEF Moves

LEMMA MovesStartHere ==
  ASSUME Base, NEW i \in Inst, StartHere(i)
  PROVE  Moves(i)
<1>1. CASE Fails(i)
  BY <1>1, ExitFact
<1>2. CASE /\ Forks(i) /\ Goto(i, IF opt[i].make THEN "open" ELSE "exec")
           /\ UNCHANGED <<file, opt, find, stop, second>> /\ Going
  <2>1. PICK p \in Pid : child' = [child EXCEPT ![i] = p]
    BY <1>2 DEF Forks
  <2>2. second[i] = "none" /\ second' = [second EXCEPT ![i] = "none"]
    BY <1>2, RunFact DEF Phase, StartHere, Starting, Base, RunTypes
  <2>3. opt[i].action = "start" /\ pc[i] = "found" /\ found[i] = {}
    BY DEF StartHere, Starting
  <2> QED
    BY <1>2, <2>1, <2>2, <2>3, MovesStart
<1> QED
  BY <1>1, <1>2 DEF StartHere

LEMMA Moves_daemonize ==
  ASSUME Base, NEW i \in Inst, daemonize(i)
  PROVE  Moves(i)
<1>1. CASE Fails(i)
  BY <1>1, ExitFact
<1>2. CASE /\ Goto(i, "wait") /\ second' = [second EXCEPT ![i] = "fork"]
           /\ UNCHANGED <<proc, file, opt, find, stop, child>> /\ Going
  <2>1. child' = [child EXCEPT ![i] = child[i]] /\ child[i] \in Pid \union {0}
    BY <1>2 DEF Base, RunTypes
  <2>3. opt[i].action = "start" /\ pc[i] = "found" /\ found[i] = {}
    BY DEF daemonize, Starting
  <2> QED
    BY <1>2, <2>1, <2>3, MovesStart
<1> QED
  BY <1>1, <1>2 DEF daemonize

\* The caller waits while the second parent works.
LEMMA MovesSecond ==
  ASSUME Base, NEW i \in Inst, second[i] # "none",
         NEW p \in Pid \union {0}, child' = [child EXCEPT ![i] = p],
         NEW s \in {"open", "write", "ok", "failed"}, second' = [second EXCEPT ![i] = s],
         UNCHANGED <<pc, opt, find, stop>>, Going
  PROVE  Moves(i)
<1>1. pc[i] = "wait" /\ opt[i].action = "start" /\ found[i] = {}
  BY RunFact DEF Phase, Finding
<1>2. Goto(i, "wait")
  BY <1>1 DEF Goto, Base, RunTypes
<1> QED
  BY <1>1, <1>2, MovesStart

LEMMA MovesSecondFork ==
  ASSUME Base, NEW i \in Inst, SecondFork(i)
  PROVE  Moves(i)
<1>1. PICK p \in Pid \union {0} : child' = [child EXCEPT ![i] = p]
  <2>1. CASE Forks(i)
    BY <2>1 DEF Forks
  <2>2. CASE UNCHANGED child
    BY <2>2 DEF Base, RunTypes
  <2> QED
    BY <2>1, <2>2 DEF SecondFork
<1>2. PICK s \in {"open", "ok", "failed"} : second' = [second EXCEPT ![i] = s]
  BY DEF SecondFork
<1>3. second[i] # "none" /\ UNCHANGED <<pc, opt, find, stop>> /\ Going
  BY DEF SecondFork
<1> QED
  BY <1>1, <1>2, <1>3, MovesSecond

\* Opening and writing the pid file.
LEMMA MovesPidfile ==
  ASSUME Base, NEW i \in Inst, OpenPidfile(i) \/ write_pidfile(i)
  PROVE  Moves(i)
<1>1. child' = [child EXCEPT ![i] = child[i]] /\ child[i] \in Pid \union {0}
  BY DEF Base, RunTypes, OpenPidfile, write_pidfile, start
<1>2. UNCHANGED <<opt, find, stop>> /\ Going
  BY DEF OpenPidfile, write_pidfile
<1>3. CASE second[i] \in {"open", "write"} /\ UNCHANGED pc
  <2>1. PICK s \in {"write", "ok", "failed"} : second' = [second EXCEPT ![i] = s]
    <3>1. second[i] # "none" /\ pc[i] = "wait"
      BY <1>3, RunFact DEF Phase
    <3> QED
      BY <3>1 DEF OpenPidfile, write_pidfile
  <2> QED
    BY <1>1, <1>2, <1>3, <2>1, MovesSecond
<1>4. CASE pc[i] \in {"open", "write"} /\ UNCHANGED second
  <2>1. PICK to \in {"write", "exec"} : Goto(i, to)
    <3>1. second[i] = "none"
      BY <1>4, RunFact DEF Phase
    <3> QED
      BY <3>1 DEF OpenPidfile, write_pidfile
  <2>2. /\ opt[i].action = "start" /\ found[i] = {} /\ second[i] = "none"
        /\ second' = [second EXCEPT ![i] = "none"]
    BY <1>4, RunFact DEF Phase, Finding, Base, RunTypes
  <2> QED
    BY <1>1, <1>2, <1>4, <2>1, <2>2, MovesStart
<1> QED
  BY <1>3, <1>4 DEF OpenPidfile, write_pidfile, start

LEMMA Moves_wait_for_child ==
  ASSUME Base, NEW i \in Inst, wait_for_child(i)
  PROVE  Moves(i)
BY ExitFact DEF wait_for_child

\* A stop goes on to the head of the loop, to the next look or to the end.
LEMMA MovesStop ==
  ASSUME Base, NEW i \in Inst, opt[i].action = "stop", pc[i] # "idle",
         NEW to \in {"find", "poll", "remove"}, Goto(i, to),
         pc[i] # "find", found[i] = {}, to = "poll" => Retries(i), to = "remove" => opt[i].remove,
         any' \in [Inst -> BOOLEAN], \A j \in Inst \ {i} : any'[j] = any[j],
         killed' \in [Inst -> BOOLEAN], \A j \in Inst \ {i} : killed'[j] = killed[j],
         UNCHANGED <<opt, find, start, pos, timer>>, Going
  PROVE  Moves(i)
<1>1. code' \in [Inst -> Nat \union {NoExit}]
  BY GoingFact DEF GoingTypes
<1>2. RunTypes'
  BY <1>1 DEF Base, RunTypes, Goto, find, start
<1>3. \A j \in Inst \ {i} : Same(j)
  BY DEF Base, RunTypes, Same, Goto, find, start
<1>4. /\ opt'[i] = opt[i] /\ second'[i] = second[i] /\ child'[i] = child[i]
      /\ pos'[i] = pos[i] /\ seen'[i] = seen[i] /\ found'[i] = found[i]
      /\ at'[i] = at[i] /\ pc'[i] = to
  BY DEF Base, RunTypes, Goto, find, start
<1>5. Phase(i)'
  BY <1>4, RunFact DEF Phase, Stopping, Retries
<1>6. Finding(i)'
  BY <1>4, RunFact DEF Finding
<1> QED
  BY <1>2, <1>3, <1>5, <1>6 DEF Moves

\* What a stop does next: the schedule goes on.
LEMMA MovesEnter ==
  ASSUME Base, NEW i \in Inst, pc[i] \in {"found", "poll"}, opt[i].action = "stop", found[i] = {},
         NEW done \in BOOLEAN, Enter(i, opt[i], pos[i] + 1, done)
  PROVE  /\ Moves(i)
         /\ \/ Exits(i, 2) /\ pc'[i] = "idle" /\ code'[i] = 2
            \/ /\ pc'[i] \in {"find", "poll"} /\ opt'[i] = opt[i] /\ code'[i] = NoExit
               /\ ~killed'[i] /\ UNCHANGED <<find, start, hit>>
<1> DEFINE o == opt[i]
           k == pos[i] + 1
<1>1. k \in Nat \ {0} /\ o \in Accepted(i)
  BY RunFact
<1>2. at[i] = 1 /\ second[i] = "none" /\ child[i] = 0 /\ (seen[i] # 0 => o.pidfile)
  BY RunFact DEF Phase, Finding
<1>3. RunTypes /\ Enter(i, o, k, done)
  BY DEF Base
<1> HIDE DEF k
<1>4. /\ Moves(i)
      /\ \/ Exits(i, 2) /\ pc'[i] = "idle" /\ code'[i] = 2
         \/ /\ pc'[i] \in {"find", "poll"} /\ opt'[i] = o /\ code'[i] = NoExit
            /\ ~killed'[i] /\ UNCHANGED <<find, start, hit>>
  <2> HIDE DEF o
  <2> QED
    BY <1>1, <1>2, <1>3, EnterFact
<1> QED
  BY <1>4

LEMMA MovesPoll ==
  ASSUME Base, NEW i \in Inst, Poll(i)
  PROVE  Moves(i)
<1>1. /\ pc[i] = "poll" /\ opt[i].action = "stop" /\ found[i] = {} /\ any[i] \in BOOLEAN
  BY RunFact DEF Poll, Phase, Finding, Good, Retries
<1>2. CASE Enter(i, opt[i], pos[i] + 1, any[i])
  BY <1>1, <1>2, MovesEnter
<1>3. CASE /\ killed' = [killed EXCEPT ![i] = FALSE]
           /\ Goto(i, "find")
           /\ UNCHANGED <<opt, find, start, pos, timer, any, hit>> /\ Going
  <2>1. any' \in [Inst -> BOOLEAN] /\ killed' \in [Inst -> BOOLEAN]
    BY <1>3 DEF Base, RunTypes
  <2>2. \A j \in Inst \ {i} : any'[j] = any[j] /\ killed'[j] = killed[j]
    BY <1>3 DEF Base, RunTypes
  <2> QED
    BY <1>1, <1>3, <2>1, <2>2, MovesStop
<1> QED
  BY <1>2, <1>3 DEF Poll

LEMMA FinishFact ==
  ASSUME Base, NEW i \in Inst, pc[i] = "found", opt[i].action = "stop", found[i] = {},
         NEW done \in BOOLEAN, Finish(i, done)
  PROVE  Moves(i)
<1>1. CASE /\ opt[i].remove /\ Goto(i, "remove")
           /\ any' = [any EXCEPT ![i] = done]
           /\ UNCHANGED <<opt, find, start, pos, timer, killed, hit>> /\ Going
  <2>1. any' \in [Inst -> BOOLEAN] /\ killed' \in [Inst -> BOOLEAN]
    BY <1>1 DEF Base, RunTypes
  <2>2. \A j \in Inst \ {i} : any'[j] = any[j] /\ killed'[j] = killed[j]
    BY <1>1 DEF Base, RunTypes
  <2> QED
    BY <1>1, <2>1, <2>2, MovesStop
<1>2. CASE Exits(i, IF done THEN 0 ELSE exitnodo(opt[i]))
  BY <1>2, ExitFact
<1> QED
  BY <1>1, <1>2 DEF Finish

LEMMA MovesJudge ==
  ASSUME Base, NEW i \in Inst, Judge(i)
  PROVE  Moves(i)
<1>1. /\ pc[i] = "found" /\ opt[i].action = "stop" /\ found[i] = {}
      /\ any[i] \in BOOLEAN /\ killed[i] \in BOOLEAN
  BY RunFact DEF Judge
<1>2. CASE Finish(i, killed[i]) \/ Finish(i, any[i])
  BY <1>1, <1>2, FinishFact
<1>3. CASE Enter(i, opt[i], pos[i] + 1, TRUE) \/ Enter(i, opt[i], pos[i] + 1, any[i])
  BY <1>1, <1>3, MovesEnter
<1>4. CASE Retries(i) /\ Goto(i, "poll") /\ UNCHANGED <<opt, find, stop, start>> /\ Going
  <2>1. UNCHANGED <<pos, timer, killed, any>>
    BY <1>4 DEF stop
  <2>2. any' \in [Inst -> BOOLEAN] /\ killed' \in [Inst -> BOOLEAN]
    BY <2>1 DEF Base, RunTypes
  <2>3. \A j \in Inst \ {i} : any'[j] = any[j] /\ killed'[j] = killed[j]
    BY <2>1
  <2> QED
    BY <1>1, <1>4, <2>1, <2>2, <2>3, MovesStop
<1> QED
  BY <1>2, <1>3, <1>4 DEF Judge

LEMMA Moves_remove_pidfile ==
  ASSUME Base, NEW i \in Inst, remove_pidfile(i)
  PROVE  Moves(i)
<1>1. CASE Exits(i, IF any[i] THEN 0 ELSE exitnodo(opt[i]))
  BY <1>1, ExitFact
<1>2. CASE Fails(i)
  BY <1>2, ExitFact
<1> QED
  BY <1>1, <1>2 DEF remove_pidfile

LEMMA ScheduleElement ==
  ASSUME NEW s \in Schedule, NEW k \in DOMAIN s
  PROVE  s[k] \in [type : {"signal", "timeout", "goto"}, value : Nat]
<1>1. s \in Seq([type : {"signal", "timeout", "goto"}, value : Nat])
  BY DEF Schedule
<1> QED
  BY <1>1, ElementFact

LEMMA SentFact ==
  ASSUME Base, NEW i \in Inst, pc[i] = "found", opt[i].action = "stop"
  PROVE  Signal(i) \in Nat
<1>1. Good(opt[i])
  BY RunFact
<1>2. CASE ~Retries(i)
  <2>1. Signal(i) = signal_nr(opt[i])
    BY <1>2 DEF Signal
  <2> QED
    BY <1>1, <2>1 DEF Good
<1>3. CASE Retries(i)
  <2>1. pos[i] \in DOMAIN opt[i].retry
    BY <1>3, RunFact DEF Phase, Stopping
  <2>2. opt[i].retry \in Schedule
    BY <1>1 DEF Good
  <2>3. Item(i).value \in Nat
    BY <2>1, <2>2, ScheduleElement DEF Item
  <2> QED
    BY <1>3, <2>3 DEF Signal
<1> QED
  BY <1>2, <1>3

\* The head of the list, and what becomes of it.
Target(i) == CHOOSE p \in found[i] : \A q \in found[i] : q <= p
Obeyed(i) == opt[i].test \/ (MaySignal(Target(i)) /\ Signal(i) <= SIGMAX)
Sent(i) == Obeyed(i) /\ ~opt[i].test /\ Signal(i) # 0

Pops(i) ==
  /\ ~(Sent(i) /\ Target(i) = 0)
  /\ found' = [found EXCEPT ![i] = @ \ {Target(i)}]
  /\ killed' = [killed EXCEPT ![i] = @ \/ Obeyed(i)]
  /\ hit' = IF Sent(i) /\ pid_check(opt[i], Target(i))
            THEN [hit EXCEPT ![i] = @ \union {Target(i)}] ELSE hit
  /\ UNCHANGED <<pc, opt, seen, at, look, start, pos, timer, any>> /\ Going

LEMMA TargetFact ==
  ASSUME Base, NEW i \in Inst, found[i] # {}
  PROVE  Target(i) \in found[i] /\ \A q \in found[i] : q <= Target(i)
<1>1. found[i] \in SUBSET (0..Cardinality(Pid)) /\ Cardinality(Pid) \in Nat
  BY RunFact, PidAssumption
<1> QED
  BY <1>1, MaxFact DEF Target

LEMMA StopFact ==
  ASSUME NEW i \in Inst, do_stop(i)
  PROVE  /\ pc[i] = "found" /\ opt[i].action = "stop" /\ found[i] # {}
         /\ Exits(i, 128 + Signal(i)) \/ Pops(i)
         /\ UNCHANGED <<proc, file, careful>>
BY Zenon DEF do_stop, Pops, Target, Obeyed, Sent

LEMMA Moves_do_stop ==
  ASSUME Base, NEW i \in Inst, do_stop(i)
  PROVE  Moves(i)
<1>1. pc[i] = "found" /\ opt[i].action = "stop" /\ found[i] # {}
  BY StopFact
<1>2. CASE Exits(i, 128 + Signal(i))
  <2>1. 128 + Signal(i) \in Nat
    BY <1>1, SentFact
  <2> QED
    BY <1>2, <2>1, ExitFact
<1>3. CASE Pops(i)
  <2>1. code' \in [Inst -> Nat \union {NoExit}]
    BY <1>3, GoingFact DEF GoingTypes, Pops
  <2> DEFINE new == found[i] \ {Target(i)}
             hurt == killed[i] \/ Obeyed(i)
  <2>2. /\ found' = [found EXCEPT ![i] = new] /\ killed' = [killed EXCEPT ![i] = hurt]
        /\ UNCHANGED <<pc, opt, seen, at, look, start, pos, timer, any>>
    BY <1>3 DEF Pops
  <2>3. new \in SUBSET (Pid \union {0}) /\ new \subseteq found[i] /\ hurt \in BOOLEAN
    BY RunFact
  <2> HIDE DEF new, hurt
  <2>4. RunTypes'
    BY <2>1, <2>2, <2>3 DEF Base, RunTypes, start
  <2>5. \A j \in Inst \ {i} : Same(j)
    BY <2>2 DEF Base, RunTypes, Same, start
  <2>6. /\ opt'[i] = opt[i] /\ second'[i] = second[i] /\ child'[i] = child[i]
        /\ pos'[i] = pos[i] /\ seen'[i] = seen[i] /\ found'[i] = new
        /\ at'[i] = at[i] /\ pc'[i] = pc[i] /\ look'[i] = look[i]
    BY <2>2 DEF Base, RunTypes, start
  <2>7. Phase(i)'
    BY <1>1, <2>6, RunFact DEF Phase, Stopping, Retries
  <2>8. Finding(i)'
    BY <1>1, <2>3, <2>6, RunFact DEF Finding
  <2> QED
    BY <2>4, <2>5, <2>7, <2>8 DEF Moves
<1> QED
  BY <1>2, <1>3, StopFact

LEMMA StepMoves ==
  ASSUME Base, NEW i \in Inst, Invoke(i) \/ Step(i)
  PROVE  Moves(i)
BY MovesInvoke, Moves_do_pidfile, MovesCheckPid, Moves_do_procinit, MovesStatusRefrain,
   MovesStartHere, Moves_daemonize, MovesSecondFork, MovesPidfile, Moves_wait_for_child,
   MovesPoll, Moves_do_stop, MovesJudge, Moves_remove_pidfile
   DEF Step

\* A step of the rest of the system ends at most one run.
LEMMA WorldMoves ==
  ASSUME Base,
         \/ \E i \in Inst : Tick(i)
         \/ \E p \in Pid : Exec(p) \/ Die(p) \/ Reuse(p)
         \/ UNCHANGED vars
  PROVE  \/ \E i \in Inst : Moves(i)
         \/ RunTypes' /\ \A j \in Inst : Same(j)
<1>1. ASSUME NEW i \in Inst, Tick(i)
      PROVE  RunTypes' /\ \A j \in Inst : Same(j)
  <2>1. code' \in [Inst -> Nat \union {NoExit}]
    BY <1>1, GoingFact DEF GoingTypes, Tick
  <2>2. timer' \in [Inst -> Nat]
    BY <1>1 DEF Base, RunTypes, Tick
  <2>3. UNCHANGED <<pc, opt, seen, found, at, look, pos, killed, any, child, second>>
    BY <1>1 DEF Tick, find, start
  <2> QED
    BY <2>1, <2>2, <2>3 DEF Base, RunTypes, Same
<1>2. ASSUME UNCHANGED <<pc, opt, find, start, pos, timer, killed, any>>, Going \/ UNCHANGED code
      PROVE  RunTypes' /\ \A j \in Inst : Same(j)
  <2>1. code' \in [Inst -> Nat \union {NoExit}]
    BY <1>2, GoingFact DEF GoingTypes, Base, RunTypes
  <2> QED
    BY <1>2, <2>1 DEF Base, RunTypes, Same, find, start
<1>3. ASSUME NEW p \in Pid, Exec(p)
      PROVE  (\E i \in Inst : Moves(i)) \/ (RunTypes' /\ \A j \in Inst : Same(j))
  <2>1. CASE \E i \in Inst : Exits(i, NoExit)
    BY <2>1, ExitFact
  <2>2. CASE UNCHANGED <<pc, opt, find, start, stop>> /\ Going
    BY <1>2, <2>2 DEF stop
  <2> QED
    BY <1>3, <2>1, <2>2 DEF Exec
<1>4. ASSUME NEW p \in Pid, Die(p)
      PROVE  (\E i \in Inst : Moves(i)) \/ (RunTypes' /\ \A j \in Inst : Same(j))
  <2>1. CASE \E i \in Inst : \E status \in {2, 128 + SIGKILL} : Leaves(i, status)
    BY <2>1, ExitFact DEF SIGKILL
  <2>2. CASE UNCHANGED <<pc, opt, find, start, pos, timer, killed, any>> /\ Going
    BY <1>2, <2>2
  <2> QED
    BY <1>4, <2>1, <2>2 DEF Die
<1>5. ASSUME NEW p \in Pid, Reuse(p)
      PROVE  RunTypes' /\ \A j \in Inst : Same(j)
  BY <1>2, <1>5 DEF Reuse, stop
<1>6. CASE UNCHANGED vars
  BY <1>2, <1>6 DEF vars, stop
<1> QED
  BY <1>1, <1>3, <1>4, <1>5, <1>6

\* What a step does to the history of the signals.
LEMMA ExitsHit ==
  ASSUME Types, NEW i \in Inst, NEW status, Exits(i, status)
  PROVE  /\ hit' \in [Inst -> SUBSET Pid]
         /\ hit'[i] = {} /\ \A j \in Inst \ {i} : hit'[j] = hit[j]
BY DEF Types, Exits

LEMMA HitStep ==
  ASSUME Base, NEW i \in Inst, Invoke(i) \/ Step(i)
  PROVE  /\ \A j \in Inst \ {i} : hit'[j] = hit[j]
         /\ \/ \E status \in Nat \union {NoExit} : Exits(i, status)
            \/ UNCHANGED hit
            \/ do_stop(i) /\ Pops(i)
<1> DEFINE Out == \E status \in Nat \union {NoExit} : Exits(i, status)
<1>1. exitnodo(opt[i]) \in Nat /\ \A o, end : ExitOf(o, end) \in Nat
  BY ExitFact
<1>2. Fails(i) => Out
  BY <1>1 DEF Fails
<1>3. \A o, k, done : Enter(i, o, k, done) => Out \/ UNCHANGED hit
  BY Zenon DEF Enter
<1>4. \A done : Finish(i, done) => Out \/ UNCHANGED hit
  BY <1>1 DEF Finish
<1>5. Out \/ UNCHANGED hit \/ (do_stop(i) /\ Pops(i))
  <2>1. CASE Invoke(i)
    BY <1>1, <1>3, <2>1 DEF Invoke
  <2>2. CASE do_pidfile(i) \/ CheckPid(i) \/ do_procinit(i)
    BY <1>2, <2>2 DEF do_pidfile, CheckPid, do_procinit, stop
  <2>3. CASE Status(i) \/ Refrain(i) \/ wait_for_child(i)
    <3>1. look[i] \in Nat
      BY DEF Base, RunTypes
    <3> QED
      BY <1>1, <2>3, <3>1 DEF Status, Refrain, wait_for_child
  <2>4. CASE StartHere(i) \/ daemonize(i)
    BY <1>2, <2>4 DEF StartHere, daemonize, stop
  <2>5. CASE SecondFork(i) \/ OpenPidfile(i) \/ write_pidfile(i)
    BY <2>5 DEF SecondFork, OpenPidfile, write_pidfile, stop
  <2>6. CASE Poll(i)
    BY <1>3, <2>6 DEF Poll
  <2>7. CASE do_stop(i)
    <3>1. Signal(i) \in Nat
      BY <2>7, StopFact, SentFact
    <3>2. 128 + Signal(i) \in Nat
      BY <3>1
    <3> QED
      BY <2>7, <3>2, StopFact
  <2>8. CASE Judge(i)
    BY <1>3, <1>4, <2>8 DEF Judge, stop
  <2>9. CASE remove_pidfile(i)
    BY <1>1, <1>2, <2>9 DEF remove_pidfile
  <2> QED
    BY <2>1, <2>2, <2>3, <2>4, <2>5, <2>6, <2>7, <2>8, <2>9 DEF Step
<1>6. \A j \in Inst \ {i} : hit'[j] = hit[j]
  <2>1. Types
    BY DEF Base
  <2>2. Out => \A j \in Inst \ {i} : hit'[j] = hit[j]
    BY <2>1, ExitsHit
  <2>3. Pops(i) => \A j \in Inst \ {i} : hit'[j] = hit[j]
    BY <2>1 DEF Types, Pops
  <2> QED
    BY <1>5, <2>2, <2>3
<1> QED
  BY <1>5, <1>6

LEMMA HitTypes ==
  ASSUME Base, [Next]_vars
  PROVE  hit' \in [Inst -> SUBSET Pid]
<1>0. Types
  BY DEF Base
<1>1. ASSUME NEW i \in Inst, Invoke(i) \/ Step(i)
      PROVE  hit' \in [Inst -> SUBSET Pid]
  <2>1. CASE \E status \in Nat \union {NoExit} : Exits(i, status)
    BY <1>0, <2>1, ExitsHit
  <2>2. CASE UNCHANGED hit
    BY <1>0, <2>2 DEF Types
  <2>3. CASE do_stop(i) /\ Pops(i)
    <3>1. CASE Sent(i) /\ pid_check(opt[i], Target(i))
      <4>1. /\ hit' = [hit EXCEPT ![i] = @ \union {Target(i)}] /\ Target(i) # 0
        BY <2>3, <3>1 DEF Pops
      <4>2. found[i] # {} /\ found[i] \subseteq Pid \union {0}
        BY <2>3, StopFact, RunFact
      <4>3. Target(i) \in found[i]
        BY <4>2, TargetFact
      <4> QED
        BY <1>0, <4>1, <4>2, <4>3 DEF Types
    <3>2. CASE ~(Sent(i) /\ pid_check(opt[i], Target(i)))
      BY <1>0, <2>3, <3>2 DEF Pops, Types
    <3> QED
      BY <3>1, <3>2
  <2> QED
    BY <1>1, <2>1, <2>2, <2>3, HitStep
<1>2. ASSUME NEW i \in Inst, Tick(i)
      PROVE  hit' \in [Inst -> SUBSET Pid]
  BY <1>0, <1>2 DEF Tick, Types
<1>3. ASSUME NEW p \in Pid, Exec(p)
      PROVE  hit' \in [Inst -> SUBSET Pid]
  BY <1>0, <1>3, ExitsHit DEF Exec, stop, Types
<1>4. ASSUME NEW p \in Pid, Die(p) \/ Reuse(p)
      PROVE  hit' \in [Inst -> SUBSET Pid]
  BY <1>0, <1>4 DEF Die, Reuse, stop, Types
<1>5. CASE UNCHANGED vars
  BY <1>0, <1>5 DEF vars, stop, Types
<1> QED
  BY <1>1, <1>2, <1>3, <1>4, <1>5 DEF Next

\* The process table and the pid file.
World == /\ proc \in [Pid -> Image \union {Free}]
         /\ pidfile \in Pid \union {0, NoFile, NoNumber} /\ mode \in {"root", "unpriv", "world"}

LEMMA WorldStep ==
  ASSUME Base, [Next]_vars
  PROVE  World'
<1>0. World /\ RunTypes
  BY DEF Base, Types, World
<1>1. UNCHANGED <<proc, file>> => World'
  BY <1>0 DEF World, file
<1>2. ASSUME NEW i \in Inst, Invoke(i) \/ Step(i)
      PROVE  World'
  <2>1. CASE \/ Invoke(i) \/ do_pidfile(i) \/ CheckPid(i) \/ do_procinit(i) \/ Status(i) \/ Refrain(i)
             \/ daemonize(i) \/ wait_for_child(i) \/ Poll(i) \/ do_stop(i) \/ Judge(i)
    <3>1. UNCHANGED <<proc, file>>
      BY <2>1, Zenon DEF Invoke, do_pidfile, CheckPid, do_procinit, Status, Refrain,
           daemonize, wait_for_child, Poll, do_stop, Judge, Fails
    <3> QED
      BY <1>1, <3>1
  <2>2. CASE StartHere(i) \/ SecondFork(i)
    <3>1. UNCHANGED file
      BY <2>2 DEF StartHere, SecondFork, Fails
    <3>2. CASE UNCHANGED proc
      BY <1>1, <3>1, <3>2
    <3>3. CASE Forks(i)
      BY <1>0, <3>1, <3>3 DEF Forks, World, file, Image
    <3> QED
      BY <2>2, <3>2, <3>3 DEF StartHere, SecondFork, Fails
  <2>3. CASE OpenPidfile(i)
    <3>1. UNCHANGED proc /\ pidfile' \in {pidfile, NoNumber} /\ mode' \in {mode, "root", "world"}
      BY <2>3 DEF OpenPidfile, file
    <3> QED
      BY <1>0, <3>1 DEF World
  <2>4. CASE write_pidfile(i)
    <3>1. child[i] \in Pid \union {0}
      BY RunFact
    <3>2. UNCHANGED <<proc, mode>> /\ pidfile' \in {pidfile, child[i]}
      BY <2>4 DEF write_pidfile
    <3> QED
      BY <1>0, <3>1, <3>2 DEF World
  <2>5. CASE remove_pidfile(i)
    BY <1>0, <1>1, <2>5 DEF remove_pidfile, Fails, World
  <2> QED
    BY <1>2, <2>1, <2>2, <2>3, <2>4, <2>5 DEF Step
<1>3. ASSUME NEW i \in Inst, Tick(i)
      PROVE  World'
  BY <1>1, <1>3 DEF Tick
<1>4. ASSUME NEW p \in Pid, Exec(p) \/ Die(p) \/ Reuse(p)
      PROVE  World'
  <2>1. UNCHANGED file
    BY <1>4 DEF Exec, Die, Reuse
  <2>2. PICK g \in Image \union {Free} : proc' = [proc EXCEPT ![p] = g]
    BY <1>4 DEF Exec, Die, Reuse, Image, Program
  <2> QED
    BY <1>0, <2>1, <2>2 DEF World, file
<1>5. CASE UNCHANGED vars
  BY <1>1, <1>5 DEF vars
<1> QED
  BY <1>2, <1>3, <1>4, <1>5 DEF Next

LEMMA CarefulStep ==
  ASSUME careful \in BOOLEAN, [Next]_vars
  PROVE  /\ careful' \in BOOLEAN
         /\ careful' => careful
         /\ \/ UNCHANGED careful \/ ~careful'
            \/ \E i \in Inst : Invoke(i)
<1>1. ASSUME NEW i \in Inst, Invoke(i)
      PROVE  careful' \in BOOLEAN /\ (careful' => careful)
  <2>1. PICK k \in DOMAIN Runs[i] :
          UNCHANGED careful \/ careful' = (careful /\ Careful(Runs[i][k]))
    BY <1>1, Zenon DEF Invoke
  <2>2. CASE careful' = (careful /\ Careful(Runs[i][k]))
    <3>1. careful' \in BOOLEAN
      BY <2>2, Zenon
    <3> QED
      BY <2>2, <3>1, Zenon
  <2> QED
    BY <2>1, <2>2
<1>2. ASSUME NEW i \in Inst, Step(i) \/ Tick(i)
      PROVE  UNCHANGED careful \/ careful' = FALSE
  BY <1>2, Zenon DEF Step, Tick, do_pidfile, CheckPid, do_procinit, Status, Refrain, StartHere,
     daemonize, SecondFork, OpenPidfile, write_pidfile, wait_for_child, Poll, do_stop, Judge,
     remove_pidfile
<1>3. ASSUME NEW p \in Pid, Exec(p) \/ Die(p) \/ Reuse(p)
      PROVE  UNCHANGED careful
  BY <1>3 DEF Exec, Die, Reuse
<1>4. CASE UNCHANGED vars
  BY <1>4 DEF vars
<1> QED
  BY <1>1, <1>2, <1>3, <1>4 DEF Next

LEMMA BaseInit == Init => Base
<1> SUFFICES ASSUME Init PROVE Base
  OBVIOUS
<1>1. PICK f \in InitFiles : pidfile = f.pid /\ mode = f.mode
  BY DEF Init
<1>2. f.pid \in Pid \union {0, NoFile, NoNumber} /\ f.mode \in {"root", "unpriv", "world"}
  BY FilesAssumption
<1>3. Types
  BY <1>1, <1>2 DEF Init, Types
<1>4. RunTypes
  BY OptsFact, PidAssumption DEF Init, RunTypes
<1>5. ASSUME NEW i \in Inst PROVE Phase(i) /\ Finding(i)
  <2>1. /\ pc[i] = "idle" /\ opt[i] = NoOptions /\ seen[i] = 0 /\ found[i] = {} /\ at[i] = 1
        /\ child[i] = 0 /\ second[i] = "none"
    BY DEF Init
  <2> QED
    BY <2>1, OptsFact DEF Phase, Finding, Stopping
<1> QED
  BY <1>3, <1>4, <1>5 DEF Base

LEMMA BaseStep == Base /\ [Next]_vars => Base'
<1> SUFFICES ASSUME Base, [Next]_vars PROVE Base'
  OBVIOUS
<1>1. Types'
  BY WorldStep, HitTypes, CarefulStep DEF Types, World, Base
<1>2. \/ \E i \in Inst : Moves(i)
      \/ RunTypes' /\ \A j \in Inst : Same(j)
  BY StepMoves, WorldMoves DEF Next
<1>3. RunTypes' /\ \A j \in Inst : Phase(j)' /\ Finding(j)'
  <2>1. ASSUME NEW i \in Inst, Moves(i)
        PROVE  RunTypes' /\ \A j \in Inst : Phase(j)' /\ Finding(j)'
    BY <2>1, SameFact DEF Moves, Base
  <2>2. ASSUME RunTypes', \A j \in Inst : Same(j)
        PROVE  RunTypes' /\ \A j \in Inst : Phase(j)' /\ Finding(j)'
    BY <2>2, SameFact DEF Base
  <2> QED
    BY <1>2, <2>1, <2>2
<1> QED
  BY <1>1, <1>3 DEF Base

LEMMA BaseInvariant == Spec => []Base
BY BaseInit, BaseStep, PTL DEF Spec

\* Every variable keeps its type, and a stop is at an item of its schedule.
THEOREM TypeCorrect == Spec => []TypeOK
<1>1. Base => TypeOK
  <2> SUFFICES ASSUME Base PROVE TypeOK
    OBVIOUS
  <2>1. ASSUME NEW i \in Inst
        PROVE  Stopping(i) /\ Retries(i) => pos[i] \in DOMAIN opt[i].retry
    BY RunFact DEF Phase
  <2> QED
    BY <2>1 DEF Base, Types, RunTypes, TypeOK
<1> QED
  BY <1>1, BaseInvariant, PTL

-------------------------------------------------------------------------------
(* What a stop has signalled is what it still finds.                       *)

LEMMA MatchFact ==
  ASSUME NEW o, o.action = "stop", NEW q \in Pid, proc[q] # Free
  PROVE  pid_check(o, q) <=> Matches(o, proc[q])
<1>1. Process(q)
  BY PidAssumption DEF Process
<1> QED
  BY <1>1, Zenon DEF pid_check, Matches, pid_is_exec, pid_is_child, pid_is_user, pid_is_cmd

LEMMA HitsEmpty ==
  ASSUME NEW i \in Inst, hit'[i] = {}
  PROVE  Hits(i)'
BY DEF Hits

LEMMA HitsSame ==
  ASSUME Obeyable, Base, NEW j \in Inst, Hits(j), Same(j), hit'[j] \subseteq hit[j],
         \A q \in hit'[j] : proc'[q] = proc[q] \/ (proc[q] = Self /\ proc'[q] = Daemon)
  PROVE  Hits(j)'
<1>1. opt'[j] = opt[j] /\ pc'[j] = pc[j] /\ seen'[j] = seen[j] /\ at'[j] = at[j]
      /\ found'[j] = found[j] /\ killed'[j] = killed[j]
  BY DEF Same
<1>2. opt'[j].action # "stop" => hit'[j] = {}
  BY <1>1 DEF Hits
<1>3. CASE Stopping(j) /\ Retries(j)
  <2>1. /\ opt[j].pidfile => hit'[j] \subseteq {seen[j]}
        /\ opt[j].pid # Null => hit'[j] \subseteq {opt[j].pid.num}
        /\ pc[j] = "find" => \A q \in hit'[j] : q < at[j] => q \in found[j]
        /\ pc[j] = "found" /\ ~killed[j] => hit'[j] \subseteq found[j]
        /\ pc[j] = "remove" => hit'[j] = {}
    BY <1>3 DEF Hits
  <2>2. ASSUME NEW q \in hit'[j]
        PROVE  proc'[q] \notin Protected \union {Free} /\ pid_check(opt[j], q)'
    <3> DEFINE o == opt[j]
    <3>1. q \in Pid /\ proc[q] \notin Protected \union {Free} /\ pid_check(o, q)
      BY <1>3 DEF Hits, Base, Types
    <3>2. o.action = "stop" /\ o.retry # << >> /\ o \in Accepted(j)
      BY <1>3, RunFact DEF Stopping, Retries
    <3>3. Matches(o, proc[q]) /\ (Matches(o, Self) => Matches(o, Daemon))
      BY <3>1, <3>2, MatchFact DEF Obeyable
    <3>4. proc'[q] \notin Protected \union {Free} /\ Matches(o, proc'[q])
      BY <3>1, <3>3, PidAssumption DEF Obeyable, Image, Program
    <3> PICK b : b = o
      OBVIOUS
    <3>5. b.action = "stop" /\ opt'[j] = b /\ Matches(b, proc'[q])
      BY <1>1, <3>2, <3>4
    <3>6. proc'[q] # Free => (pid_check(b, q)' <=> Matches(b, proc'[q]))
      <4>1. Process(q)' <=> proc'[q] # Free
        BY <3>1, PidAssumption DEF Process
      <4> QED
        BY <3>5, <4>1, Zenon DEF pid_check, Matches, pid_is_exec, pid_is_child, pid_is_user, pid_is_cmd
    <3> QED
      BY <3>4, <3>5, <3>6
  <2> QED
    BY <1>1, <1>2, <2>1, <2>2 DEF Hits
<1>4. CASE ~(Stopping(j) /\ Retries(j))
  BY <1>1, <1>2, <1>4 DEF Hits, Stopping, Retries
<1> QED
  BY <1>3, <1>4

\* The processes of the table are those whose numbers the scan comes to.
LEMMA LastFact ==
  ASSUME NEW p \in Pid, p + 1 \notin Pid, NEW q \in Pid
  PROVE  q < p + 1
<1>1. /\ Cardinality(Pid) \in Nat
      /\ \A x \in Pid : x \in Nat /\ 1 <= x /\ x <= Cardinality(Pid)
      /\ \A x \in Nat : 1 <= x /\ x <= Cardinality(Pid) => x \in Pid
  BY PidAssumption
<1> QED
  BY <1>1

\* What Hits says of a stop with --retry, one fact after the other.
LEMMA HitsFact ==
  ASSUME Base, NEW i \in Inst, Hits(i), Stopping(i), Retries(i)
  PROVE  /\ hit[i] \subseteq Pid
         /\ \A q \in hit[i] : proc[q] \notin Protected \union {Free} /\ pid_check(opt[i], q)
         /\ opt[i].pidfile => hit[i] \subseteq {seen[i]}
         /\ opt[i].pid # Null => hit[i] \subseteq {opt[i].pid.num}
         /\ pc[i] = "find" => \A q \in hit[i] : q < at[i] => q \in found[i]
         /\ pc[i] = "found" /\ ~killed[i] => hit[i] \subseteq found[i]
         /\ pc[i] = "remove" => hit[i] = {}
BY DEF Hits, Base, Types

\* A stop with --retry that leaves the processes and its options alone.
LEMMA HitsKept ==
  ASSUME Base, NEW i \in Inst, Hits(i), UNCHANGED proc, opt'[i] = opt[i], pc[i] # "idle",
         hit'[i] = hit[i], seen'[i] = seen[i],
         Stopping(i) /\ Retries(i) =>
           /\ pc'[i] = "find" => \A q \in hit[i] : q < at'[i] => q \in found'[i]
           /\ pc'[i] = "found" /\ ~killed'[i] => hit[i] \subseteq found'[i]
           /\ pc'[i] = "remove" => hit[i] = {}
  PROVE  Hits(i)'
<1> PICK o : o = opt[i]
  OBVIOUS
<1>1. opt[i] = o /\ opt'[i] = o
  OBVIOUS
<1>2. \A q : pid_check(o, q) <=> pid_check(o, q)'
  BY DEF pid_check, pid_is_exec, pid_is_child, pid_is_user, pid_is_cmd, pid_is_running, Process, Alive
<1>3. o.action # "stop" => hit'[i] = {}
  BY <1>1 DEF Hits
<1>4. CASE Stopping(i) /\ Retries(i)
  <2>1. \A q \in hit'[i] : proc'[q] \notin Protected \union {Free} /\ pid_check(opt[i], q)'
    BY <1>1, <1>2, <1>4, HitsFact
  <2>2. /\ o.pidfile => hit'[i] \subseteq {seen'[i]}
        /\ o.pid # Null => hit'[i] \subseteq {o.pid.num}
    BY <1>1, <1>4, HitsFact
  <2>3. /\ pc'[i] = "find" => \A q \in hit'[i] : q < at'[i] => q \in found'[i]
        /\ pc'[i] = "found" /\ ~killed'[i] => hit'[i] \subseteq found'[i]
        /\ pc'[i] = "remove" => hit'[i] = {}
    BY <1>4
  <2> QED
    BY <1>1, <1>3, <2>1, <2>2, <2>3 DEF Hits
<1>5. CASE ~(Stopping(i) /\ Retries(i))
  BY <1>1, <1>3, <1>5 DEF Hits, Stopping, Retries
<1> QED
  BY <1>4, <1>5

\* Back at the look-up, or with an item to wait for: nothing is looked up yet.
LEMMA HitsEnter ==
  ASSUME Base, NEW i \in Inst, Hits(i), UNCHANGED proc, pc[i] \in {"found", "poll"},
         opt'[i] = opt[i], hit'[i] = hit[i],
         pc'[i] \in {"find", "poll"}, UNCHANGED find
  PROVE  Hits(i)'
<1>1. at[i] = 1 /\ UNCHANGED <<at, seen>>
  BY RunFact DEF Finding, find
<1>2. \A q \in hit[i] : ~(q < 1)
  BY PidAssumption DEF Base, Types
<1> QED
  BY <1>1, <1>2, HitsKept

LEMMA Hits_find ==
  ASSUME Base, NEW i \in Inst, Hits(i), do_pidfile(i) \/ CheckPid(i) \/ do_procinit(i),
         UNCHANGED hit
  PROVE  Hits(i)'
<1>1. CASE do_pidfile(i)
  <2>1. CASE Stopping(i) /\ Retries(i)
    <3>1. hit[i] = {}
      BY <1>1, <2>1, HitsFact, PidAssumption DEF do_pidfile
    <3> QED
      BY <3>1, HitsEmpty
  <2>2. CASE opt[i].action # "stop"
    BY <2>2, HitsEmpty DEF Hits
  <2>3. CASE opt[i].action = "stop" /\ ~Retries(i)
    <3>1. opt'[i] \in {opt[i], NoOptions}
      BY <1>1 DEF do_pidfile, Fails, Exits, Leaves, Base, RunTypes
    <3>2. opt'[i] = opt[i] \/ hit'[i] = {}
      BY <1>1 DEF do_pidfile, Fails, Exits, Leaves, Base, RunTypes, Types
    <3> QED
      BY <2>3, <3>1, <3>2, HitsEmpty DEF Hits, Retries
  <2> QED
    BY <1>1, <2>1, <2>2, <2>3 DEF Stopping, do_pidfile
<1>2. CASE CheckPid(i)
  <2> DEFINE p == IF opt[i].pid # Null THEN opt[i].pid.num ELSE seen[i]
             ok == pid_check(opt[i], p)
  <2>1. /\ UNCHANGED <<proc, opt, seen>> /\ pc[i] # "idle" /\ pc'[i] = "found"
        /\ found'[i] = IF ok THEN {p} ELSE {}
        /\ opt[i].pid # Null \/ seen[i] # 0 \/ pc[i] = "check"
    BY <1>2 DEF CheckPid, Base, RunTypes, Goto
  <2>2. ASSUME Stopping(i), Retries(i)
        PROVE  hit[i] \subseteq found'[i]
    <3>1. hit[i] \subseteq {p}
      BY <2>1, <2>2, HitsFact, RunFact DEF Finding
    <3>2. \A q \in hit[i] : pid_check(opt[i], q)
      BY <2>2, HitsFact
    <3> HIDE DEF p
    <3> QED
      BY <2>1, <3>1, <3>2
  <2> QED
    BY <2>1, <2>2, HitsKept
<1>3. CASE do_procinit(i)
  <2> DEFINE p == at[i]
             ok == proc[p] # Free /\ pid_check(opt[i], p)
             so_far == IF p = 1 THEN {} ELSE found[i]
             all == IF ok THEN so_far \union {p} ELSE so_far
             last == p + 1 \notin Pid
  <2>1. /\ UNCHANGED <<proc, opt, seen>> /\ pc[i] = "find"
        /\ found'[i] = all /\ at'[i] = (IF last THEN 1 ELSE p + 1)
        /\ pc'[i] = IF last THEN "found" ELSE "find"
    BY <1>3 DEF do_procinit, Base, RunTypes, Goto
  <2>2. p \in Pid /\ hit[i] \subseteq Pid /\ \A q \in Pid : q \in Nat /\ q # 0
    BY RunFact, PidAssumption DEF Base, Types
  <2>3. ASSUME Stopping(i), Retries(i), NEW q \in hit[i], q < p + 1
        PROVE  q \in all
    <3>1. CASE q = p
      BY <2>3, <3>1, HitsFact
    <3>2. CASE q # p
      <4>1. q < p /\ p # 1
        BY <2>2, <2>3, <3>2
      <4>2. q \in found[i]
        BY <2>1, <2>3, <4>1, HitsFact
      <4> QED
        BY <4>1, <4>2
    <3> QED
      BY <3>1, <3>2
  <2>4. ASSUME last, NEW q \in hit[i]
        PROVE  q < p + 1
    BY <2>2, <2>4, LastFact
  <2> HIDE DEF all
  <2> QED
    BY <2>1, <2>2, <2>3, <2>4, HitsKept
<1> QED
  BY <1>1, <1>2, <1>3

\* The process at the head of the list is gone, or it is still there.
LEMMA Hits_do_stop ==
  ASSUME Obeyable, Base, NEW i \in Inst, Hits(i), do_stop(i), Pops(i)
  PROVE  Hits(i)'
<1> DEFINE t == Target(i)
           ok == Obeyed(i)
<1>1. /\ pc[i] = "found" /\ opt[i].action = "stop" /\ found[i] # {} /\ UNCHANGED proc
  BY StopFact
<1>2. /\ UNCHANGED <<pc, opt, seen, at>> /\ found'[i] = found[i] \ {t}
      /\ killed'[i] = (killed[i] \/ ok)
      /\ hit' = IF Sent(i) /\ pid_check(opt[i], t) THEN [hit EXCEPT ![i] = @ \union {t}] ELSE hit
      /\ ~(Sent(i) /\ t = 0)
  BY DEF Pops, Base, RunTypes
<1>3. t \in found[i] /\ (opt[i].pidfile => t = seen[i]) /\ (opt[i].pid # Null => t = opt[i].pid.num)
  BY <1>1, TargetFact, RunFact DEF Finding
<1> HIDE DEF t
<1>4. CASE Sent(i) /\ pid_check(opt[i], t)
  <2>1. ok /\ hit'[i] = hit[i] \union {t} /\ killed'[i]
    BY <1>2, <1>4 DEF Sent, Base, Types
  <2>2. CASE Retries(i)
    <3>1. Stopping(i)
      BY <1>1 DEF Stopping
    <3> PICK o : o = opt[i]
      OBVIOUS
    <3>2. \A q : pid_check(o, q) <=> pid_check(o, q)'
      BY <1>1 DEF pid_check, pid_is_exec, pid_is_child, pid_is_user, pid_is_cmd, pid_is_running,
         Process, Alive
    <3>3. ~o.test
      BY <2>2, <1>1, RunFact DEF Retries, Good
    <3>4. proc[t] \notin Protected \union {Free}
      BY <1>2, <1>4, <3>3 DEF Sent, Obeyed, MaySignal, t
    <3>5. \A q \in hit'[i] : proc'[q] \notin Protected \union {Free} /\ pid_check(opt[i], q)'
      BY <1>1, <1>2, <1>4, <2>1, <2>2, <3>1, <3>2, <3>4, HitsFact
    <3>6. /\ opt[i].pidfile => hit'[i] \subseteq {seen[i]}
          /\ opt[i].pid # Null => hit'[i] \subseteq {opt[i].pid.num}
      BY <1>3, <2>1, <2>2, <3>1, HitsFact
    <3> QED
      BY <1>1, <1>2, <2>1, <3>5, <3>6 DEF Hits
  <2>3. CASE ~Retries(i)
    BY <1>1, <1>2, <2>3 DEF Hits, Retries
  <2> QED
    BY <2>2, <2>3
<1>5. CASE ~(Sent(i) /\ pid_check(opt[i], t))
  <2>1. ASSUME Stopping(i), Retries(i), ~killed'[i]
        PROVE  hit[i] \subseteq found'[i]
    <3>1. ~killed[i] /\ ~ok
      BY <1>2, <2>1
    <3>2. hit[i] \subseteq found[i]
      BY <1>1, <2>1, <3>1, HitsFact
    <3>3. t \notin hit[i]
      <4>1. SUFFICES ASSUME t \in hit[i] PROVE FALSE
        OBVIOUS
      <4>2. MaySignal(t)
        BY <2>1, <4>1, HitsFact DEF MaySignal
      <4>3. Signal(i) <= SIGMAX
        <5>1. SignalsExist(opt[i]) /\ pos[i] \in DOMAIN opt[i].retry
          BY <1>1, <2>1, RunFact DEF Obeyable, Retries, Phase
        <5> QED
          BY <2>1, <5>1 DEF Signal, SignalsExist, Item, SIGMAX
      <4> QED
        BY <3>1, <4>2, <4>3 DEF Obeyed, t
    <3> QED
      BY <1>2, <3>2, <3>3
  <2> QED
    BY <1>1, <1>2, <1>5, <2>1, HitsKept
<1> QED
  BY <1>4, <1>5

LEMMA Hits_stop ==
  ASSUME Base, NEW i \in Inst, Hits(i), Poll(i) \/ Judge(i), UNCHANGED hit
  PROVE  Hits(i)'
<1>1. UNCHANGED proc /\ opt[i].action = "stop" /\ found[i] = {} /\ pc[i] \in {"found", "poll"}
  BY RunFact DEF Poll, Judge, Phase, Finding, Good, Retries
<1>2. \A status : Exits(i, status) => Hits(i)'
  <2>1. Types
    BY DEF Base
  <2> QED
    BY <2>1, ExitsHit, HitsEmpty
<1>3. ASSUME NEW done \in BOOLEAN, Enter(i, opt[i], pos[i] + 1, done)
      PROVE  Hits(i)'
  BY <1>1, <1>2, <1>3, MovesEnter, HitsEnter
<1>4. any[i] \in BOOLEAN /\ killed[i] \in BOOLEAN
  BY RunFact
<1>5. CASE Poll(i)
  <2>1. CASE Goto(i, "find") /\ UNCHANGED <<opt, find>>
    <3>1. pc'[i] = "find"
      BY <2>1 DEF Goto, Base, RunTypes
    <3> QED
      BY <1>1, <2>1, <3>1, HitsEnter
  <2> QED
    BY <1>3, <1>4, <1>5, <2>1 DEF Poll
<1>6. CASE Judge(i)
  <2>1. CASE ~Retries(i) /\ Finish(i, killed[i])
    <3>1. CASE UNCHANGED opt
      BY <1>1, <2>1, <3>1 DEF Hits, Retries
    <3> QED
      BY <1>2, <2>1, <3>1 DEF Finish
  <2>2. CASE Retries(i) /\ ~killed[i] /\ Finish(i, any[i])
    <3>1. hit[i] = {}
      BY <1>1, <1>6, <2>2, HitsFact DEF Stopping, Judge
    <3> QED
      BY <3>1, HitsEmpty
  <2>3. CASE Enter(i, opt[i], pos[i] + 1, TRUE) \/ Enter(i, opt[i], pos[i] + 1, any[i])
    BY <1>3, <1>4, <2>3
  <2>4. CASE Goto(i, "poll") /\ UNCHANGED <<opt, find>>
    <3>1. pc'[i] = "poll"
      BY <2>4 DEF Goto, Base, RunTypes
    <3> QED
      BY <1>1, <2>4, <3>1, HitsEnter
  <2> QED
    BY <1>6, <2>1, <2>2, <2>3, <2>4 DEF Judge
<1> QED
  BY <1>5, <1>6

LEMMA HitsOwn ==
  ASSUME Obeyable, Base, NEW i \in Inst, Hits(i), Invoke(i) \/ Step(i)
  PROVE  Hits(i)'
<1>0. Types
  BY DEF Base
<1>1. CASE \E status \in Nat \union {NoExit} : Exits(i, status)
  BY <1>0, <1>1, ExitsHit, HitsEmpty
<1>2. CASE do_stop(i) /\ Pops(i)
  BY <1>2, Hits_do_stop
<1>3. CASE UNCHANGED hit
  <2>1. CASE opt[i].action # "stop"
    BY <1>3, <2>1, HitsEmpty DEF Hits
  <2>2. CASE opt[i].action = "stop"
    <3>1. pc[i] # "idle"
      BY <2>2, RunFact, OptsFact DEF Phase
    <3>2. pc[i] \notin {"wait", "open", "write", "exec"} /\ second[i] = "none"
      BY <2>2, RunFact DEF Phase
    <3>3. \/ do_pidfile(i) \/ CheckPid(i) \/ do_procinit(i) \/ Poll(i) \/ Judge(i)
          \/ do_stop(i) \/ remove_pidfile(i)
      BY <2>2, <3>1, <3>2 DEF Step, Invoke, Status, Refrain, StartHere, daemonize, Starting,
         SecondFork, OpenPidfile, write_pidfile, wait_for_child
    <3>4. CASE do_stop(i)
      <4>1. CASE Pops(i)
        BY <3>4, <4>1, Hits_do_stop
      <4>2. CASE Exits(i, 128 + Signal(i))
        BY <1>0, <4>2, ExitsHit, HitsEmpty
      <4> QED
        BY <3>4, <4>1, <4>2, StopFact
    <3>5. CASE remove_pidfile(i)
      BY <1>0, <3>5, ExitsHit, HitsEmpty DEF remove_pidfile, Fails
    <3> QED
      BY <1>3, <3>3, <3>4, <3>5, Hits_find, Hits_stop
  <2> QED
    BY <2>1, <2>2
<1> QED
  BY <1>1, <1>2, <1>3, HitStep

\* A run starts processes; it ends none.
LEMMA ProcStep ==
  ASSUME Base, NEW i \in Inst, Invoke(i) \/ Step(i)
  PROVE  UNCHANGED proc \/ (Forks(i) /\ (StartHere(i) \/ SecondFork(i)))
BY Zenon DEF Step, Invoke, do_pidfile, CheckPid, do_procinit, Status, Refrain, daemonize,
   wait_for_child, Poll, do_stop, Judge, Fails, StartHere, SecondFork, OpenPidfile,
   write_pidfile, remove_pidfile

LEMMA ProcKept ==
  ASSUME Base, NEW i \in Inst, Invoke(i) \/ Step(i), NEW q \in Pid, proc[q] # Free
  PROVE  proc'[q] = proc[q]
BY ProcStep DEF Forks, Base, Types

LEMMA HitsInit == Init => AllHits
BY DEF Init, AllHits, Hits

LEMMA HitsStep == Obeyable /\ Base /\ AllHits /\ [Next]_vars => AllHits'
<1> SUFFICES ASSUME Obeyable, Base, AllHits, [Next]_vars, NEW j \in Inst
             PROVE  Hits(j)'
  BY DEF AllHits
<1>0. Hits(j) /\ Types /\ hit[j] \subseteq Pid
  BY DEF AllHits, Base, Types
<1>1. ASSUME NEW i \in Inst, Invoke(i) \/ Step(i)
      PROVE  Hits(j)'
  <2>1. CASE j = i
    BY <1>0, <1>1, <2>1, HitsOwn
  <2>2. CASE j # i
    <3>1. Same(j) /\ hit'[j] = hit[j]
      BY <1>1, <2>2, StepMoves, HitStep DEF Moves
    <3>2. CASE Stopping(j) /\ Retries(j)
      <4>1. \A q \in hit'[j] : q \in Pid /\ proc[q] # Free
        BY <1>0, <3>1, <3>2, HitsFact
      <4>2. \A q \in hit'[j] : proc'[q] = proc[q]
        BY <1>1, <4>1, ProcKept
      <4> QED
        BY <1>0, <3>1, <4>2, HitsSame
    <3>3. CASE ~(Stopping(j) /\ Retries(j))
      BY <1>0, <3>1, <3>3 DEF Hits, Same, Stopping, Retries
    <3> QED
      BY <3>2, <3>3
  <2> QED
    BY <2>1, <2>2
<1>2. ASSUME Same(j), hit'[j] \subseteq hit[j],
             NEW p \in Pid, NEW g, proc' = [proc EXCEPT ![p] = g] \/ UNCHANGED proc,
             p \notin hit'[j] \/ (proc[p] = Self /\ g = Daemon) \/ proc[p] = Free \/ UNCHANGED proc
      PROVE  Hits(j)'
  <2>1. CASE Stopping(j) /\ Retries(j)
    <3>1. \A q \in hit'[j] : q \in Pid /\ proc[q] # Free
      BY <1>0, <1>2, <2>1, HitsFact
    <3>2. \A q \in hit'[j] : proc'[q] = proc[q] \/ (proc[q] = Self /\ proc'[q] = Daemon)
      BY <1>0, <1>2, <3>1 DEF Types
    <3> QED
      BY <1>0, <1>2, <3>2, HitsSame
  <2>2. CASE ~(Stopping(j) /\ Retries(j))
    <3>1. hit[j] = {} => hit'[j] = {}
      BY <1>2
    <3> QED
      BY <1>0, <1>2, <2>2, <3>1 DEF Hits, Same, Stopping, Retries
  <2> QED
    BY <2>1, <2>2
<1> USE PidAssumption
<1>3. ASSUME NEW i \in Inst, Tick(i)
      PROVE  Hits(j)'
  <2>1. Same(j) /\ UNCHANGED <<proc, hit>>
    BY <1>3 DEF Tick, find, start, Same
  <2> QED
    BY <1>2, <2>1
<1>4. ASSUME NEW p \in Pid, Exec(p)
      PROVE  Hits(j)'
  <2>1. proc[p] = Self /\ proc' = [proc EXCEPT ![p] = Daemon]
    BY <1>4 DEF Exec
  <2>2. CASE UNCHANGED <<pc, opt, find, start, stop>>
    <3>1. Same(j) /\ UNCHANGED hit
      BY <2>2 DEF Same, find, start, stop
    <3> QED
      BY <1>2, <2>1, <3>1
  <2>3. CASE \E i \in Inst : Exits(i, NoExit)
    <3>1. PICK i \in Inst : Exits(i, NoExit)
      BY <2>3
    <3>2. CASE j = i
      BY <1>0, <3>1, <3>2, ExitsHit, HitsEmpty
    <3>3. CASE j # i
      <4>1. Same(j) /\ hit'[j] = hit[j]
        BY <1>0, <3>1, <3>3, ExitsHit, ExitFact DEF Moves
      <4> QED
        BY <1>2, <2>1, <4>1
    <3> QED
      BY <3>2, <3>3
  <2> QED
    BY <1>4, <2>2, <2>3 DEF Exec
<1>5. ASSUME NEW p \in Pid, Die(p)
      PROVE  Hits(j)'
  <2>1. proc' = [proc EXCEPT ![p] = Free] /\ hit'[j] = hit[j] \ {p}
    BY <1>5 DEF Die
  <2>2. CASE UNCHANGED <<pc, opt, find, start, pos, timer, killed, any>>
    <3>1. Same(j)
      BY <2>2 DEF Same, find, start
    <3> QED
      BY <1>2, <2>1, <3>1
  <2>3. CASE \E i \in Inst : pc[i] \in {"open", "write", "exec"} /\
                             \E status \in {2, 128 + SIGKILL} : Leaves(i, status)
    <3>1. PICK i \in Inst : pc[i] \in {"open", "write", "exec"} /\
                           \E status \in {2, 128 + SIGKILL} : Leaves(i, status)
      BY <2>3
    <3>2. CASE j = i
      <4>1. opt[j].action = "start"
        BY <3>1, <3>2, RunFact DEF Phase
      <4> QED
        BY <1>0, <2>1, <4>1, HitsEmpty DEF Hits
    <3>3. CASE j # i
      <4>1. Same(j)
        BY <3>1, <3>3, ExitFact DEF Moves, SIGKILL
      <4> QED
        BY <1>2, <2>1, <4>1
    <3> QED
      BY <3>2, <3>3
  <2> QED
    BY <1>5, <2>2, <2>3 DEF Die
<1>6. ASSUME NEW p \in Pid, Reuse(p)
      PROVE  Hits(j)'
  <2>1. PICK g : proc' = [proc EXCEPT ![p] = g]
    BY <1>6 DEF Reuse
  <2>2. proc[p] = Free /\ Same(j) /\ UNCHANGED hit
    BY <1>6 DEF Reuse, Same, find, start, stop
  <2> QED
    BY <1>2, <2>1, <2>2
<1>7. CASE UNCHANGED vars
  <2>1. Same(j) /\ UNCHANGED <<proc, hit>>
    BY <1>7 DEF vars, find, start, stop, Same
  <2> QED
    BY <1>2, <2>1
<1> QED
  BY <1>1, <1>3, <1>4, <1>5, <1>6, <1>7 DEF Next

\* A stop with --retry ends well, or goes on to remove the pid file, from a
\* Judge that has found nothing to signal.
LEMMA GoneOwn ==
  ASSUME Base, NEW i \in Inst, Hits(i), Stopping(i), Retries(i), Invoke(i) \/ Step(i),
         (pc'[i] = "idle" /\ code'[i] \in {0, 1}) \/ pc'[i] = "remove"
  PROVE  hit[i] = {}
<1>0. /\ opt[i].action = "stop" /\ pc[i] # "idle" /\ RunTypes
      /\ pc[i] \notin {"wait", "open", "write", "exec"} /\ second[i] = "none"
  BY RunFact DEF Stopping, Phase, Base
<1>1. \/ do_pidfile(i) \/ CheckPid(i) \/ do_procinit(i) \/ Poll(i) \/ Judge(i)
      \/ do_stop(i) \/ remove_pidfile(i)
  BY <1>0 DEF Step, Invoke, Status, Refrain, StartHere, daemonize, Starting,
     SecondFork, OpenPidfile, write_pidfile, wait_for_child
<1>2. \A status \in Nat : Exits(i, status) => pc'[i] = "idle" /\ code'[i] = status
  BY <1>0, LeavesFact DEF Exits
<1>3. ~Fails(i)
  BY <1>0, <1>2 DEF Fails, ExitOf
<1>4. \A done \in BOOLEAN : pc[i] \in {"found", "poll"} /\ found[i] = {} =>
        ~Enter(i, opt[i], pos[i] + 1, done)
  BY <1>0, MovesEnter
<1>5. any[i] \in BOOLEAN
  BY RunFact
<1>6. CASE do_pidfile(i) \/ CheckPid(i) \/ do_procinit(i)
  BY <1>0, <1>3, <1>6 DEF do_pidfile, CheckPid, do_procinit, Goto, RunTypes
<1>7. CASE Poll(i)
  <2>1. pc[i] = "poll" /\ found[i] = {}
    BY <1>7, RunFact DEF Poll, Finding
  <2> QED
    BY <1>0, <1>4, <1>5, <1>7, <2>1 DEF Poll, Goto, RunTypes
<1>8. CASE do_stop(i)
  <2>1. pc[i] = "found" /\ Signal(i) \in Nat
    BY <1>8, StopFact, SentFact
  <2>2. 128 + Signal(i) \in Nat /\ 128 + Signal(i) \notin {0, 1}
    BY <2>1
  <2>3. ~Exits(i, 128 + Signal(i))
    BY <1>2, <2>2
  <2>4. Pops(i)
    BY <1>8, <2>3, StopFact
  <2> QED
    BY <2>1, <2>4 DEF Pops
<1>9. CASE Judge(i)
  <2>1. pc[i] = "found" /\ found[i] = {}
    BY <1>9 DEF Judge
  <2>2. ~killed[i] \/ (Goto(i, "poll") /\ Going)
    BY <1>4, <1>5, <1>9, <2>1 DEF Judge
  <2>3. CASE Goto(i, "poll")
    BY <1>0, <2>3 DEF Goto, RunTypes
  <2> QED
    BY <2>1, <2>2, <2>3, HitsFact
<1>10. CASE remove_pidfile(i)
  BY <1>10, HitsFact DEF remove_pidfile
<1> QED
  BY <1>1, <1>6, <1>7, <1>8, <1>9, <1>10

\* A stop with --retry that exits as if it had been obeyed, or removes the pid
\* file, has seen every process end that it signalled.
THEOREM Gone ==
  ASSUME Obeyable
  PROVE  Spec => GoneOnSuccess
<1> DEFINE Ends(i) == /\ Stopping(i) /\ Retries(i)
                      /\ (pc'[i] = "idle" /\ code'[i] \in {0, 1}) \/ pc'[i] = "remove"
           G == \A i \in Inst : Ends(i) => hit[i] = {}
<1>1. Base /\ AllHits /\ [Next]_vars => [G]_vars
  <2> SUFFICES ASSUME Base, AllHits, [Next]_vars, NEW i \in Inst, Ends(i), ~UNCHANGED vars
               PROVE  hit[i] = {}
    BY Zenon
  <2>0. Hits(i) /\ pc[i] # "idle"
    BY DEF AllHits, Stopping
  <2>1. CASE Same(i)
    BY <2>0, <2>1, HitsFact DEF Same
  <2>2. ASSUME NEW j \in Inst, Invoke(j) \/ Step(j)
        PROVE  hit[i] = {}
    <3>1. CASE i = j
      BY <2>0, <2>2, <3>1, GoneOwn
    <3>2. CASE i # j
      BY <2>1, <2>2, <3>2, StepMoves DEF Moves
    <3> QED
      BY <3>1, <3>2
  <2>3. ASSUME NEW j \in Inst, NEW status \in {NoExit, 2, 128 + SIGKILL}, Leaves(j, status)
        PROVE  hit[i] = {}
    <3>1. status \in Nat \union {NoExit} /\ status \notin {0, 1}
      BY DEF NoExit, SIGKILL
    <3>2. Moves(j) /\ pc'[j] = "idle" /\ code'[j] = status
      BY <2>3, <3>1, LeavesFact DEF Base
    <3>3. i # j
      BY <3>1, <3>2
    <3> QED
      BY <2>1, <3>2, <3>3 DEF Moves
  <2>4. ASSUME UNCHANGED <<pc, opt, find, start, pos, timer, killed, any>>
        PROVE  hit[i] = {}
    BY <2>1, <2>4 DEF Same, find, start
  <2>5. CASE \E j \in Inst : Tick(j)
    <3>1. Same(i)
      BY <2>5 DEF Tick, Same, find, start
    <3> QED
      BY <2>1, <3>1
  <2>6. CASE \E p \in Pid : Exec(p) \/ Reuse(p)
    BY <2>3, <2>4, <2>6 DEF Exec, Reuse, Exits, stop
  <2>7. CASE \E p \in Pid : Die(p)
    BY <2>3, <2>4, <2>7 DEF Die
  <2> QED
    BY <2>2, <2>5, <2>6, <2>7 DEF Next
<1>2. GoneOnSuccess <=> [][G]_vars
  BY PTL DEF GoneOnSuccess
<1>3. Base /\ AllHits /\ [Next]_vars => AllHits'
  BY HitsStep
<1>4. Spec => []AllHits
  BY <1>3, BaseInvariant, HitsInit, PTL DEF Spec
<1> QED
  BY <1>1, <1>2, <1>4, BaseInvariant, PTL DEF Spec

-------------------------------------------------------------------------------
(* Careful use.                                                            *)

\* A run that is not on its way has nothing to be right about.
LEMMA IdleSafe ==
  ASSUME NEW j \in Inst, Phase(j), pc[j] = "idle"
  PROVE  SafeRun(j) /\ ~Writing(j)
BY DEF Phase, SafeRun, Writing

LEMMA IdleSafePrime ==
  ASSUME NEW j \in Inst, Phase(j)', pc'[j] = "idle"
  PROVE  SafeRun(j)' /\ ~Writing(j)'
BY DEF Phase, SafeRun, Writing

\* Only the run that takes a step is on its way after it.
LEMMA OwnSafe ==
  ASSUME Base', NEW i \in Inst, Moves(i), \A j \in Inst \ {i} : pc[j] = "idle",
         \A p \in Pid : Ours(p)' => pidfile' = p \/ Writing(i)',
         \A p \in Pid : Writing(i)' /\ Ours(p)' => p = child'[i],
         SafeRun(i)'
  PROVE  Secure'
<1>1. \A j \in Inst \ {i} : pc'[j] = "idle" /\ Phase(j)'
  BY DEF Moves, Same, Base
<1>2. \A j \in Inst \ {i} : SafeRun(j)' /\ ~Writing(j)'
  BY <1>1, IdleSafePrime
<1>3. Alone'
  BY <1>1 DEF Alone
<1>4. Recorded'
  BY <1>2 DEF Recorded
<1> QED
  BY <1>2, <1>3, <1>4 DEF Secure

\* What a careful run that goes by the pid file has asked for.
LEMMA ReliesFact ==
  ASSUME Base, NEW i \in Inst, SafeRun(i), Relies(i), pc[i] # "idle"
  PROVE  opt[i].pidfile /\ opt[i].pid = Null
BY RunFact DEF SafeRun, CarefulOptions, Relies, OnlyPidfile, Good

\* Fewer of our processes, and runs that go on or leave: nothing can be lost
\* but what a run that has not written the pid file yet was to record.
LEMMA SafeLess ==
  ASSUME Base, Base', Secure, UNCHANGED pidfile,
         \A p \in Pid : Ours(p)' => Ours(p),
         \A p \in Pid : proc'[p] = Self => proc[p] = Self,
         \A j \in Inst : Same(j) \/ pc'[j] = "idle",
         \A j \in Inst : Writing(j) => Same(j) \/ Nothing'
  PROVE  Secure'
<1>1. Alone'
  BY DEF Secure, Alone, Same
<1>2. Recorded'
  <2>1. ASSUME NEW p \in Pid, Ours(p)'
        PROVE  pidfile' = p \/ \E j \in Inst : Writing(j)'
    <3>1. pidfile = p \/ \E j \in Inst : Writing(j)
      BY <2>1 DEF Secure, Recorded
    <3>2. CASE \E j \in Inst : Writing(j)
      <4>1. PICK j \in Inst : Writing(j)
        BY <3>2
      <4>2. Same(j)
        BY <2>1, <4>1 DEF Nothing
      <4> QED
        BY <4>1, <4>2 DEF Same, Writing
    <3> QED
      BY <3>1, <3>2
  <2>2. ASSUME NEW j \in Inst, NEW p \in Pid, Writing(j)', Ours(p)'
        PROVE  p = child'[j]
    <3>1. Same(j)
      BY <2>2, IdleSafePrime DEF Base
    <3>2. Writing(j) /\ Ours(p)
      BY <2>2, <3>1 DEF Same, Writing
    <3> QED
      BY <3>1, <3>2 DEF Secure, Recorded, Same
  <2> QED
    BY <2>1, <2>2 DEF Recorded
<1>3. ASSUME NEW j \in Inst PROVE SafeRun(j)'
  <2>1. CASE pc'[j] = "idle"
    BY <2>1, IdleSafePrime DEF Base
  <2>2. CASE Same(j)
    <3>1. SafeRun(j)
      BY DEF Secure
    <3>2. /\ pc'[j] = pc[j] /\ opt'[j] = opt[j] /\ seen'[j] = seen[j] /\ found'[j] = found[j]
          /\ killed'[j] = killed[j] /\ second'[j] = second[j]
      BY <2>2 DEF Same
    <3>3. Nothing => Nothing'
      BY DEF Nothing
    <3> QED
      BY <3>1, <3>2, <3>3 DEF SafeRun, Relies
  <2> QED
    BY <2>1, <2>2
<1> QED
  BY <1>1, <1>2, <1>3 DEF Secure

LEMMA StepActive ==
  ASSUME Base, NEW i \in Inst, Step(i)
  PROVE  pc[i] # "idle"
<1>1. second[i] # "none" => pc[i] = "wait"
  BY RunFact DEF Phase
<1> QED
  BY <1>1 DEF Step, do_pidfile, CheckPid, do_procinit, Status, Refrain, StartHere, daemonize,
     Starting, SecondFork, OpenPidfile, write_pidfile, wait_for_child, Poll, do_stop, Judge,
     remove_pidfile

LEMMA SafeInit == Init => Safe
<1> SUFFICES ASSUME Init PROVE Secure
  BY DEF Safe
<1>1. Nothing
  BY PidAssumption DEF Init, Nothing, Ours, Image, Program
<1>2. \A i \in Inst : SafeRun(i) /\ ~Writing(i)
  BY BaseInit, IdleSafe DEF Init, Base
<1> QED
  BY <1>1, <1>2 DEF Init, Secure, Alone, Recorded, Nothing

LEMMA SafeWorld ==
  ASSUME Base, Base', Secure,
         \/ \E i \in Inst : Tick(i)
         \/ \E p \in Pid : Exec(p) \/ Die(p) \/ Reuse(p)
         \/ UNCHANGED vars
  PROVE  Secure'
<1>0. proc \in [Pid -> Image \union {Free}] /\ Self # Free /\ Daemon # Free /\ Self # Daemon
      /\ \A g \in Stranger : g # Self /\ g # Daemon
  BY PidAssumption DEF Base, Types, Image, Program
<1>1. ASSUME UNCHANGED <<pc, opt, find, start, pos, timer, killed, any, pidfile>>,
             \A p \in Pid : Ours(p)' => Ours(p),
             \A p \in Pid : proc'[p] = Self => proc[p] = Self
      PROVE  Secure'
  BY <1>1, SafeLess DEF Same, find, start
<1>2. CASE \E i \in Inst : Tick(i)
  <2>1. UNCHANGED <<proc, pidfile>> /\ \A j \in Inst : Same(j)
    BY <1>2 DEF Tick, file, find, start, Same
  <2> QED
    BY <2>1, SafeLess DEF Ours
<1>3. CASE UNCHANGED vars
  BY <1>1, <1>3 DEF vars, file, stop, Ours
<1>4. ASSUME NEW p \in Pid, Reuse(p)
      PROVE  Secure'
  BY <1>0, <1>1, <1>4 DEF Reuse, file, stop, Ours
<1>5. ASSUME NEW p \in Pid, Exec(p)
      PROVE  Secure'
  <2>1. /\ UNCHANGED pidfile
        /\ \A q \in Pid : Ours(q)' => Ours(q)
        /\ \A q \in Pid : proc'[q] = Self => proc[q] = Self
    BY <1>0, <1>5 DEF Exec, file, Ours
  <2>2. CASE UNCHANGED <<pc, opt, find, start, stop>>
    BY <1>1, <2>1, <2>2 DEF stop
  <2>3. CASE \E i \in Inst : pc[i] = "exec" /\ Exits(i, NoExit)
    <3>1. PICK i \in Inst : pc[i] = "exec" /\ Exits(i, NoExit)
      BY <2>3
    <3>2. pc'[i] = "idle" /\ \A j \in Inst \ {i} : Same(j)
      BY <3>1, LeavesFact DEF Base, Exits, Moves
    <3>3. ~Writing(i)
      BY <3>1, RunFact DEF Writing, Phase
    <3> QED
      BY <2>1, <3>2, <3>3, SafeLess
  <2> QED
    BY <1>5, <2>2, <2>3 DEF Exec
<1>6. ASSUME NEW p \in Pid, Die(p)
      PROVE  Secure'
  <2>1. /\ UNCHANGED pidfile
        /\ \A q \in Pid : Ours(q)' => Ours(q) /\ q # p
        /\ \A q \in Pid : proc'[q] = Self => proc[q] = Self
    BY <1>0, <1>6 DEF Die, file, Ours
  <2>2. CASE UNCHANGED <<pc, opt, find, start, pos, timer, killed, any>>
    BY <1>1, <2>1, <2>2
  <2>3. CASE \E i \in Inst : /\ child[i] = p /\ pc[i] \in {"open", "write", "exec"}
                             /\ \E status \in {2, 128 + SIGKILL} : Leaves(i, status)
    <3>1. PICK i \in Inst : /\ child[i] = p /\ pc[i] \in {"open", "write", "exec"}
                            /\ \E status \in {2, 128 + SIGKILL} : Leaves(i, status)
      BY <2>3
    <3>2. pc'[i] = "idle" /\ \A j \in Inst \ {i} : Same(j)
      BY <3>1, LeavesFact DEF Base, Moves, SIGKILL
    <3>3. Writing(i) => Nothing'
      BY <2>1, <3>1 DEF Secure, Recorded, Nothing
    <3> QED
      BY <2>1, <3>2, <3>3, SafeLess
  <2> QED
    BY <1>6, <2>2, <2>3 DEF Die
<1> QED
  BY <1>2, <1>3, <1>4, <1>5, <1>6

LEMMA SafeExit ==
  ASSUME Base, Base', Secure, NEW i \in Inst, Moves(i), pc'[i] = "idle",
         UNCHANGED <<proc, pidfile>>, ~Writing(i)
  PROVE  Secure'
<1>1. \A j \in Inst : Same(j) \/ pc'[j] = "idle"
  BY DEF Moves
<1>2. \A j \in Inst : Writing(j) => Same(j)
  BY DEF Moves
<1> QED
  BY <1>1, <1>2, SafeLess DEF Ours

\* A run that has no file to write, before the step and after it.
LEMMA SafeQuiet ==
  ASSUME Base, Base', Secure, NEW i \in Inst, Moves(i), \A j \in Inst \ {i} : pc[j] = "idle",
         UNCHANGED <<proc, pidfile>>, ~Writing(i), SafeRun(i)', ~Writing(i)'
  PROVE  Secure'
<1>1. \A j \in Inst : ~Writing(j)
  BY IdleSafe DEF Base
<1>2. \A p \in Pid : Ours(p)' => pidfile' = p
  BY <1>1 DEF Secure, Recorded, Ours
<1> QED
  BY <1>2, OwnSafe

LEMMA SafeInvoke ==
  ASSUME Base, Base', Secure, careful', NEW i \in Inst, Invoke(i)
  PROVE  Secure'
<1>0. pc[i] = "idle" /\ UNCHANGED <<proc, pidfile>> /\ Moves(i) /\ ~Writing(i)
  BY StepMoves, IdleSafe DEF Invoke, file, Base
<1>1. CASE \E status \in {0, 2, 3, 4} : Exits(i, status)
  <2>1. pc'[i] = "idle"
    BY <1>1, LeavesFact DEF Base, Exits
  <2> QED
    BY <1>0, <2>1, SafeExit
<1>2. ASSUME NEW k \in DOMAIN Runs[i], Runs[i][k].end = "none",
             Enter(i, Runs[i][k], 1, FALSE), Careful(Runs[i][k])
      PROVE  Secure'
  <2> DEFINE o == Runs[i][k]
  <2>1. o \in Accepted(i)
    BY <1>2 DEF Accepted
  <2>2. at[i] = 1 /\ found[i] = {} /\ second[i] = "none" /\ child[i] = 0 /\ seen[i] = 0
    BY <1>0, RunFact DEF Phase, Finding
  <2>3. RunTypes /\ 1 \in Nat \ {0} /\ FALSE \in BOOLEAN
    BY DEF Base
  <2>4. Enter(i, o, 1, FALSE) /\ Careful(o)
    BY <1>2
  <2> HIDE DEF o
  <2>5. \/ Exits(i, 2) /\ pc'[i] = "idle"
        \/ /\ pc'[i] \in {"find", "poll"} /\ opt'[i] = o
           /\ UNCHANGED <<find, start>>
    BY <2>1, <2>2, <2>3, <2>4, EnterFact
  <2>6. CASE pc'[i] = "idle"
    BY <1>0, <2>6, SafeExit
  <2>7. CASE pc'[i] \in {"find", "poll"} /\ opt'[i] = o /\ UNCHANGED <<find, start>>
    <3>1. \A j \in Inst : pc[j] = "idle"
      BY <2>4 DEF Careful
    <3>2. seen'[i] = 0 /\ second'[i] = "none"
      BY <2>2, <2>7 DEF find, start
    <3>3. CarefulOptions(o)
      BY <2>4 DEF Careful, CarefulOptions
    <3>4. o.action = "start" /\ o.exec # Null => \A p \in Pid : proc[p] # Self
      BY <2>4 DEF Careful
    <3>5. SafeRun(i)' /\ ~Writing(i)'
      BY <1>0, <2>7, <3>2, <3>3, <3>4 DEF SafeRun, Writing
    <3> QED
      BY <1>0, <3>1, <3>5, SafeQuiet
  <2> QED
    BY <2>5, <2>6, <2>7
<1>3. PICK k \in DOMAIN Runs[i] :
        \/ \E status \in {0, 2, 3, 4} : Exits(i, status)
        \/ Runs[i][k].end = "none" /\ Enter(i, Runs[i][k], 1, FALSE) /\ Careful(Runs[i][k])
  <2>1. \A o, end : ExitOf(o, end) \in {0, 2, 3, 4}
    BY ExitFact
  <2> QED
    BY <2>1, Zenon DEF Invoke
<1> QED
  BY <1>1, <1>2, <1>3

\* What do_findprocs reads and what it returns.
LEMMA Safe_find ==
  ASSUME Base, Base', Secure, NEW i \in Inst, \A j \in Inst \ {i} : pc[j] = "idle",
         do_pidfile(i) \/ CheckPid(i) \/ do_procinit(i)
  PROVE  Secure'
<1>0. /\ Moves(i) /\ SafeRun(i) /\ pc[i] \in {"find", "check"} /\ second[i] = "none"
      /\ ~Writing(i) /\ UNCHANGED <<proc, pidfile>>
  <2>1. pc[i] \in {"find", "check"} /\ UNCHANGED <<proc, pidfile>>
    BY DEF do_pidfile, CheckPid, do_procinit, Fails, file
  <2>2. second[i] = "none"
    BY <2>1, RunFact DEF Phase
  <2> QED
    BY <2>1, <2>2, StepMoves DEF Step, Writing, Secure
<1>1. \A p \in Pid : Ours(p) => pidfile = p
  BY <1>0, IdleSafe DEF Base, Secure, Recorded
<1>2. CASE Fails(i)
  <2>1. pc'[i] = "idle"
    BY <1>2, LeavesFact, ExitFact DEF Base, Exits, Fails
  <2> QED
    BY <1>0, <2>1, SafeExit
<1>3. CASE do_pidfile(i) /\ ~Fails(i)
  <2>1. /\ UNCHANGED opt /\ pc'[i] \in {"check", "found"} /\ second'[i] = "none"
        /\ pc'[i] = "check" => pidfile = seen'[i]
        /\ pc'[i] = "found" => pidfile \in {NoFile, NoNumber} /\ seen'[i] = 0
    BY <1>0, <1>3 DEF do_pidfile, Base, RunTypes, Goto, start
  <2>2. pidfile \in {NoFile, NoNumber} => Nothing
    BY <1>1, PidAssumption DEF Nothing
  <2>3. SafeRun(i)'
    BY <1>0, <1>1, <1>3, <2>1, <2>2 DEF SafeRun, Relies, Nothing, Ours, do_pidfile
  <2>4. ~Writing(i)'
    BY <2>1 DEF Writing
  <2> QED
    BY <1>0, <2>3, <2>4, SafeQuiet
<1>4. CASE CheckPid(i)
  <2> DEFINE p == IF opt[i].pid # Null THEN opt[i].pid.num ELSE seen[i]
             ok == pid_check(opt[i], p)
  <2>1. /\ UNCHANGED opt /\ pc'[i] = "found" /\ second'[i] = "none"
        /\ seen'[i] = seen[i] /\ found'[i] = (IF ok THEN {p} ELSE {})
        /\ pc[i] = "check" \/ opt[i].pid # Null \/ seen[i] # 0
    BY <1>0, <1>4 DEF CheckPid, Base, RunTypes, Goto, start
  <2>2. ASSUME Relies(i), NEW q \in Pid, Ours(q)
        PROVE  q \in found'[i]
    <3>1. opt[i].pidfile /\ opt[i].pid = Null
      BY <1>0, <2>2, ReliesFact
    <3>2. p = seen[i] /\ q = seen[i]
      BY <1>0, <2>1, <2>2, <3>1 DEF SafeRun
    <3>3. proc[q] # Free /\ Process(q)
      BY <2>2, PidAssumption DEF Ours, Image, Program, Process
    <3>4. CASE opt[i].action = "start"
      <4>1. ~Given(opt[i], {"name", "user", "ppid"})
        BY <1>0, <3>4 DEF SafeRun, CarefulOptions
      <4>2. opt[i].name = Null /\ opt[i].user = Null /\ opt[i].ppid = Null
        BY <4>1 DEF Given
      <4>3. opt[i].exec # Null => proc[q] = opt[i].exec
        BY <1>0, <2>2, <3>4 DEF SafeRun, CarefulOptions, Ours
      <4>4. pid_check(opt[i], q)
        BY <3>3, <4>2, <4>3, Zenon DEF pid_check, pid_is_exec, pid_is_running, Alive
      <4> QED
        BY <2>1, <3>2, <4>4
    <3>5. CASE opt[i].action # "start"
      <4>1. OnlyPidfile(opt[i])
        BY <1>0, <2>2, <3>5 DEF Relies, SafeRun, CarefulOptions
      <4>2. opt[i].exec = Null /\ opt[i].name = Null /\ opt[i].user = Null /\ opt[i].ppid = Null
        BY <4>1 DEF OnlyPidfile, Given
      <4>3. pid_check(opt[i], q)
        BY <3>3, <4>2, Zenon DEF pid_check, pid_is_running, Alive
      <4> QED
        BY <2>1, <3>2, <4>3
    <3> QED
      BY <3>4, <3>5
  <2> HIDE DEF p, ok
  <2>3. SafeRun(i)'
    BY <1>0, <2>1, <2>2, RunFact DEF SafeRun, Relies, Ours, Finding
  <2>4. ~Writing(i)'
    BY <2>1 DEF Writing
  <2> QED
    BY <1>0, <2>3, <2>4, SafeQuiet
<1>5. CASE do_procinit(i)
  <2>1. /\ UNCHANGED opt /\ pc'[i] \in {"find", "found"} /\ second'[i] = "none"
        /\ seen'[i] = seen[i] /\ ~opt[i].pidfile
    BY <1>0, <1>5 DEF do_procinit, Base, RunTypes, Goto, start
  <2>2. ~Relies(i)
    BY <1>0, <2>1, ReliesFact
  <2>3. SafeRun(i)'
    BY <1>0, <2>1, <2>2 DEF SafeRun, Relies
  <2>4. ~Writing(i)'
    BY <2>1 DEF Writing
  <2> QED
    BY <1>0, <2>3, <2>4, SafeQuiet
<1> QED
  BY <1>2, <1>3, <1>4, <1>5

LEMMA Safe_start ==
  ASSUME Base, Base', Secure, careful', NEW i \in Inst, \A j \in Inst \ {i} : pc[j] = "idle",
         StartHere(i) \/ daemonize(i) \/ SecondFork(i) \/ OpenPidfile(i) \/ write_pidfile(i)
  PROVE  Secure'
<1>0. /\ Moves(i) /\ SafeRun(i) /\ pc[i] # "idle"
      /\ proc \in [Pid -> Image \union {Free}] /\ RunTypes
  <2>1. Step(i)
    BY DEF Step
  <2> QED
    BY <2>1, StepMoves, StepActive DEF Base, Types, Secure
<1>1. /\ opt[i].action = "start" /\ opt[i].make
      /\ UNCHANGED opt \/ Fails(i)
      /\ CarefulOptions(opt[i])
  <2>1. opt[i].action = "start"
    BY RunFact DEF Phase, StartHere, daemonize, Starting, SecondFork, OpenPidfile, write_pidfile
  <2>2. UNCHANGED opt \/ Fails(i)
    BY DEF StartHere, daemonize, SecondFork, OpenPidfile, write_pidfile
  <2> QED
    BY <1>0, <2>1, <2>2 DEF SafeRun, CarefulOptions
<1>2. Starting(i) => Nothing /\ ~Writing(i) /\ pc[i] = "found" /\ second[i] = "none"
  <2>1. ASSUME Starting(i)
        PROVE  pc[i] = "found" /\ second[i] = "none" /\ found[i] = {}
    BY <2>1, RunFact DEF Starting, Phase
  <2> QED
    BY <1>0, <1>1, <2>1 DEF SafeRun, Relies, Nothing, Writing
\* The daemon of this run is the only process there is.
<1>3. ASSUME Nothing, Forks(i), Writing(i)'
      PROVE  /\ \A p \in Pid : Ours(p)' => pidfile' = p \/ Writing(i)'
             /\ \A p \in Pid : Writing(i)' /\ Ours(p)' => p = child'[i]
  <2>1. PICK p \in Pid : proc' = [proc EXCEPT ![p] = Self] /\ child' = [child EXCEPT ![i] = p]
    BY <1>3 DEF Forks
  <2>2. child'[i] = p /\ \A q \in Pid : Ours(q)' => q = p
    BY <1>0, <1>3, <2>1 DEF Nothing, Ours, RunTypes
  <2> QED
    BY <1>3, <2>2
<1>4. CASE Fails(i) /\ (StartHere(i) \/ daemonize(i))
  <2>1. pc'[i] = "idle"
    BY <1>0, <1>4, LeavesFact, ExitFact DEF Exits, Fails
  <2> QED
    BY <1>0, <1>2, <1>4, <2>1, SafeExit DEF Fails, file, StartHere, daemonize
<1>5. CASE StartHere(i) /\ ~Fails(i)
  <2>1. Forks(i) /\ pc'[i] = "open" /\ UNCHANGED <<opt, second>>
    BY <1>0, <1>1, <1>5 DEF StartHere, Goto, RunTypes
  <2>2. Writing(i)' /\ Nothing /\ second'[i] = "none"
    BY <1>2, <1>5, <2>1 DEF Writing, StartHere
  <2>3. SafeRun(i)'
    BY <1>1, <2>1, <2>2 DEF SafeRun, Relies
  <2> QED
    BY <1>0, <1>3, <2>1, <2>2, <2>3, OwnSafe
<1>6. CASE daemonize(i) /\ ~Fails(i)
  <2>1. /\ pc'[i] = "wait" /\ second'[i] = "fork" /\ UNCHANGED <<opt, proc, pidfile>>
    BY <1>0, <1>6 DEF daemonize, Goto, RunTypes, file
  <2>2. Nothing' /\ ~Writing(i)' /\ ~Writing(i)
    BY <1>2, <1>6, <2>1 DEF Nothing, Ours, Writing, daemonize
  <2>3. SafeRun(i)'
    BY <1>1, <2>1, <2>2 DEF SafeRun, Relies
  <2> QED
    BY <1>0, <2>1, <2>2, <2>3, SafeQuiet
<1>7. CASE SecondFork(i)
  <2>0. Nothing /\ pc[i] = "wait" /\ ~Writing(i)
    BY <1>0, <1>7, RunFact DEF SafeRun, SecondFork, Phase, Writing
  <2>1. UNCHANGED <<pc, opt, pidfile>>
    BY <1>7 DEF SecondFork, file
  <2>2. CASE Forks(i) /\ second' = [second EXCEPT ![i] = IF opt[i].make THEN "open" ELSE "ok"]
    <3>1. second'[i] = "open"
      BY <1>0, <1>1, <2>0, <2>2 DEF RunTypes, SafeRun, CarefulOptions
    <3>2. Writing(i)'
      BY <3>1 DEF Writing
    <3>3. SafeRun(i)'
      BY <1>0, <2>0, <2>1, <3>1 DEF SafeRun, Relies
    <3> QED
      BY <1>0, <1>3, <2>0, <2>2, <3>2, <3>3, OwnSafe
  <2>3. CASE second' = [second EXCEPT ![i] = "failed"] /\ UNCHANGED <<proc, child>>
    <3>1. second'[i] = "failed"
      BY <1>0, <2>3 DEF RunTypes
    <3>2. ~Writing(i)'
      BY <2>0, <2>1, <3>1 DEF Writing
    <3>3. SafeRun(i)'
      BY <1>0, <2>0, <2>1, <3>1 DEF SafeRun, Relies
    <3> QED
      BY <1>0, <2>0, <2>1, <2>3, <3>2, <3>3, SafeQuiet
  <2> QED
    BY <1>7, <2>2, <2>3 DEF SecondFork
<1>8. CASE OpenPidfile(i) \/ write_pidfile(i)
  <2>0. /\ Writing(i) /\ UNCHANGED <<proc, opt, child>>
        /\ pc[i] \in {"wait", "open", "write"} /\ (pc[i] # "wait" => second[i] = "none")
    BY <1>8, RunFact DEF OpenPidfile, write_pidfile, Writing, start, Phase
  <2>1. \A p \in Pid : Ours(p)' => p = child'[i]
    BY <2>0 DEF Secure, Recorded, Ours
  <2>2. /\ pc'[i] \in {"wait", "write", "exec"} /\ second'[i] \in {"none", "write", "ok"}
        /\ (second'[i] = "write" \/ pc'[i] = "write") \/ pidfile' = child'[i]
    BY <1>0, <1>8, <2>0 DEF OpenPidfile, write_pidfile, Goto, RunTypes, start
  <2>3. \A p \in Pid : Ours(p)' => pidfile' = p \/ Writing(i)'
    BY <2>1, <2>2 DEF Writing
  <2>4. SafeRun(i)'
    BY <1>0, <2>0, <2>2 DEF SafeRun, Relies
  <2> QED
    BY <1>0, <2>1, <2>3, <2>4, OwnSafe
<1> QED
  BY <1>4, <1>5, <1>6, <1>7, <1>8

LEMMA Safe_exit ==
  ASSUME Base, Base', Secure, NEW i \in Inst, Status(i) \/ Refrain(i) \/ wait_for_child(i)
  PROVE  Secure'
<1>1. /\ pc[i] \in {"found", "wait"} /\ second[i] \in {"none", "ok", "failed"}
      /\ UNCHANGED <<proc, pidfile>>
  BY RunFact DEF Status, Refrain, wait_for_child, Phase, file
<1>2. PICK status \in Nat \union {NoExit} : Exits(i, status)
  <2>1. look[i] \in Nat /\ exitnodo(opt[i]) \in Nat
    BY ExitFact DEF Base, RunTypes
  <2> QED
    BY <2>1 DEF Status, Refrain, wait_for_child
<1>3. Moves(i) /\ pc'[i] = "idle"
  BY <1>2, LeavesFact DEF Base, Exits
<1> QED
  BY <1>1, <1>3, SafeExit DEF Writing

\* A stop that gives up, goes on with its schedule or goes on to the end.
LEMMA SafeOn ==
  ASSUME Base, Base', Secure, NEW i \in Inst, \A j \in Inst \ {i} : pc[j] = "idle",
         Moves(i), opt[i].action = "stop", pc[i] \in {"found", "poll"},
         UNCHANGED <<proc, pidfile>>,
         \/ pc'[i] = "idle"
         \/ /\ pc'[i] \in {"find", "poll", "remove"} /\ opt'[i] = opt[i]
            /\ seen'[i] = seen[i] /\ second'[i] = second[i]
            /\ pc'[i] = "remove" => Nothing
  PROVE  Secure'
<1>1. second[i] = "none" /\ ~Writing(i) /\ SafeRun(i)
  BY RunFact DEF Phase, Writing, Secure
<1>2. CASE pc'[i] = "idle"
  BY <1>1, <1>2, SafeExit
<1>3. CASE pc'[i] # "idle"
  <2>1. ~Writing(i)'
    BY <1>1, <1>3 DEF Writing
  <2>2. pc'[i] = "remove" => Nothing'
    BY <1>3 DEF Nothing, Ours
  <2>3. SafeRun(i)'
    BY <1>1, <1>3, <2>2 DEF SafeRun, Ours
  <2> QED
    BY <1>1, <2>1, <2>3, SafeQuiet
<1> QED
  BY <1>2, <1>3

LEMMA SafeStop ==
  ASSUME Base, Base', Secure, NEW i \in Inst, \A j \in Inst \ {i} : pc[j] = "idle",
         Poll(i) \/ Judge(i)
  PROVE  Secure'
<1>0. /\ opt[i].action = "stop" /\ found[i] = {} /\ pc[i] \in {"found", "poll"}
      /\ UNCHANGED <<proc, pidfile>> /\ Moves(i) /\ RunTypes
      /\ any[i] \in BOOLEAN /\ killed[i] \in BOOLEAN
  <2>1. Step(i)
    BY DEF Step
  <2>2. opt[i].action = "stop" /\ found[i] = {} /\ pc[i] \in {"found", "poll"}
    BY RunFact DEF Poll, Judge, Phase, Finding, Good, Retries
  <2>3. UNCHANGED <<proc, pidfile>>
    BY DEF Poll, Judge, file
  <2> QED
    BY <2>1, <2>2, <2>3, StepMoves, RunFact DEF Base
<1>1. ASSUME NEW done \in BOOLEAN, Enter(i, opt[i], pos[i] + 1, done)
      PROVE  Secure'
  <2>1. \/ pc'[i] = "idle"
        \/ pc'[i] \in {"find", "poll"} /\ opt'[i] = opt[i] /\ UNCHANGED <<find, start>>
    BY <1>0, <1>1, MovesEnter
  <2> QED
    BY <1>0, <2>1, SafeOn DEF find, start
<1>2. ASSUME NEW to \in {"find", "poll"}, Goto(i, to), UNCHANGED <<opt, find, start>>
      PROVE  Secure'
  <2>1. pc'[i] = to
    BY <1>0, <1>2 DEF Goto, RunTypes
  <2> QED
    BY <1>0, <1>2, <2>1, SafeOn DEF find, start
<1>3. ASSUME NEW done \in BOOLEAN, Finish(i, done), pc[i] = "found", ~Retries(i) \/ ~killed[i]
      PROVE  Secure'
  <2>1. CASE /\ opt[i].remove /\ Goto(i, "remove") /\ UNCHANGED <<opt, find, start>>
    <3>1. SafeRun(i) /\ Retries(i)
      BY <1>0, <2>1 DEF Secure, SafeRun, CarefulOptions, Retries
    <3>2. Nothing
      BY <1>0, <1>3, <2>1, <3>1 DEF SafeRun, Relies, Nothing
    <3>3. pc'[i] = "remove"
      BY <1>0, <2>1 DEF Goto, RunTypes
    <3> QED
      BY <1>0, <2>1, <3>2, <3>3, SafeOn DEF find, start
  <2>2. CASE Exits(i, IF done THEN 0 ELSE exitnodo(opt[i]))
    <3>1. pc'[i] = "idle"
      BY <1>0, <2>2, LeavesFact, ExitFact DEF Exits
    <3> QED
      BY <1>0, <3>1, SafeOn
  <2> QED
    BY <1>3, <2>1, <2>2 DEF Finish
<1>4. CASE Poll(i)
  BY <1>0, <1>1, <1>2, <1>4 DEF Poll
<1>5. CASE Judge(i)
  <2>1. pc[i] = "found"
    BY <1>5 DEF Judge
  <2>2. \/ \E done \in BOOLEAN : Finish(i, done) /\ (~Retries(i) \/ ~killed[i])
        \/ \E done \in BOOLEAN : Enter(i, opt[i], pos[i] + 1, done)
        \/ Goto(i, "poll") /\ UNCHANGED <<opt, find, start>>
    BY <1>0, <1>5 DEF Judge
  <2> QED
    BY <1>1, <1>2, <1>3, <2>1, <2>2
<1> QED
  BY <1>4, <1>5

LEMMA Safe_do_stop ==
  ASSUME Base, Base', Secure, NEW i \in Inst, \A j \in Inst \ {i} : pc[j] = "idle", do_stop(i)
  PROVE  Secure'
<1>0. /\ pc[i] = "found" /\ opt[i].action = "stop" /\ found[i] # {}
      /\ UNCHANGED <<proc, pidfile>> /\ Moves(i) /\ RunTypes /\ SafeRun(i)
  BY StopFact, StepMoves DEF Step, file, Base, Secure
<1>1. CASE Exits(i, 128 + Signal(i))
  <2>1. 128 + Signal(i) \in Nat
    BY <1>0, SentFact
  <2>2. pc'[i] = "idle"
    BY <1>0, <1>1, <2>1, LeavesFact DEF Exits
  <2> QED
    BY <1>0, <2>2, SafeOn
<1>2. CASE Pops(i)
  <2> DEFINE t == Target(i)
             ok == Obeyed(i)
  <2>1. /\ UNCHANGED <<pc, opt, seen>> /\ found'[i] = found[i] \ {t}
        /\ killed'[i] = (killed[i] \/ ok) /\ second'[i] = second[i]
    BY <1>0, <1>2 DEF Pops, RunTypes, start
  <2>2. ASSUME opt[i].remove, ~killed'[i], NEW p \in Pid, Ours(p)
        PROVE  p \in found'[i]
    <3>1. ~killed[i] /\ ~ok
      BY <2>1, <2>2
    <3>2. p \in found[i]
      BY <1>0, <2>2, <3>1 DEF SafeRun, Relies
    <3>3. /\ SignalsExist(opt[i]) /\ Retries(i) /\ {Daemon, Self} \intersect Protected = {}
      BY <1>0, <2>2 DEF SafeRun, CarefulOptions, Retries
    <3>4. Signal(i) <= SIGMAX
      <4>1. pos[i] \in DOMAIN opt[i].retry
        BY <1>0, <3>3, RunFact DEF Phase, Stopping
      <4> QED
        BY <3>3, <4>1 DEF Signal, SignalsExist, Item, SIGMAX
    <3>5. MaySignal(p)
      BY <2>2, <3>3, PidAssumption DEF MaySignal, Ours, Image, Program
    <3>6. p # t
      BY <3>1, <3>4, <3>5 DEF Obeyed
    <3> QED
      BY <2>1, <3>2, <3>6
  <2>3. second[i] = "none" /\ ~Writing(i) /\ ~Writing(i)'
    BY <1>0, <2>1, RunFact DEF Phase, Writing
  <2> HIDE DEF t, ok
  <2>4. SafeRun(i)'
    BY <1>0, <2>1, <2>2, <2>3 DEF SafeRun, Relies, Ours
  <2> QED
    BY <1>0, <2>3, <2>4, SafeQuiet
<1> QED
  BY <1>1, <1>2, StopFact

LEMMA Safe_remove_pidfile ==
  ASSUME Base, Base', Secure, NEW i \in Inst, \A j \in Inst \ {i} : pc[j] = "idle",
         remove_pidfile(i)
  PROVE  Secure'
<1>0. /\ pc[i] = "remove" /\ UNCHANGED proc /\ Moves(i) /\ RunTypes
      /\ second[i] = "none" /\ Nothing
  BY StepMoves, RunFact DEF Step, remove_pidfile, Fails, Base, Secure, SafeRun, Phase
<1>1. pc'[i] = "idle"
  <2>1. (IF any[i] THEN 0 ELSE exitnodo(opt[i])) \in Nat /\ ExitOf(opt[i], "fatal") \in Nat
    BY ExitFact
  <2> QED
    BY <1>0, <2>1, LeavesFact DEF remove_pidfile, Fails, Exits
<1>2. SafeRun(i)' /\ ~Writing(i)'
  BY <1>1, IdleSafePrime DEF Base
<1> QED
  BY <1>0, <1>2, OwnSafe DEF Nothing, Ours

LEMMA SafeStep == Base /\ Safe /\ [Next]_vars => Safe'
<1> SUFFICES ASSUME Base, Safe, [Next]_vars, careful'
             PROVE  Secure'
  BY DEF Safe
<1>1. Base' /\ Secure
  BY BaseStep, CarefulStep DEF Base, Types, Safe
<1>2. ASSUME NEW i \in Inst, Step(i)
      PROVE  Secure'
  <2>1. \A j \in Inst \ {i} : pc[j] = "idle"
    BY <1>1, <1>2, StepActive DEF Secure, Alone
  <2> QED
    BY <1>1, <1>2, <2>1, Safe_find, Safe_start, Safe_exit, SafeStop, Safe_do_stop,
       Safe_remove_pidfile DEF Step
<1> QED
  BY <1>1, <1>2, SafeInvoke, SafeWorld DEF Next

LEMMA SafeInvariant == Spec => []Safe
BY BaseInvariant, SafeInit, SafeStep, PTL DEF Spec

\* With careful use there is at most one daemon, or process that becomes one.
THEOREM AtMostOne == Spec => []OneDaemon
<1>1. Safe => OneDaemon
  <2> SUFFICES ASSUME Secure, NEW p \in Pid, NEW q \in Pid, Ours(p), Ours(q)
               PROVE  p = q
    BY DEF Safe, OneDaemon, Ours
  <2>1. CASE \E i \in Inst : Writing(i)
    BY <2>1 DEF Secure, Recorded
  <2>2. CASE ~\E i \in Inst : Writing(i)
    BY <2>2 DEF Secure, Recorded
  <2> QED
    BY <2>1, <2>2
<1> QED
  BY <1>1, SafeInvariant, PTL

\* No run but the one that takes the step has an exit status.
LEMMA CodeFact ==
  ASSUME NEW i \in Inst, NEW j \in Inst, i # j, Invoke(j) \/ Step(j)
  PROVE  code'[i] = NoExit
<1>1. Going => code'[i] = NoExit
  BY DEF Going
<1>2. \A status : Leaves(j, status) \/ Exits(j, status) => code'[i] = NoExit
  BY DEF Leaves, Exits
<1>3. Fails(j) => code'[i] = NoExit
  BY <1>2 DEF Fails
<1>4. \A o, k, done : Enter(j, o, k, done) => code'[i] = NoExit
  BY <1>1, <1>2, Zenon DEF Enter
<1>5. \A done : Finish(j, done) => code'[i] = NoExit
  BY <1>1, <1>2 DEF Finish
<1>6. CASE Invoke(j)
  BY <1>2, <1>4, <1>6, Zenon DEF Invoke
<1>7. CASE do_pidfile(j) \/ CheckPid(j) \/ do_procinit(j) \/ Status(j) \/ Refrain(j)
  BY <1>1, <1>2, <1>3, <1>7, Zenon DEF do_pidfile, CheckPid, do_procinit, Status, Refrain
<1>8. CASE StartHere(j) \/ daemonize(j) \/ SecondFork(j) \/ OpenPidfile(j) \/ write_pidfile(j)
           \/ wait_for_child(j)
  BY <1>1, <1>2, <1>3, <1>8, Zenon DEF StartHere, daemonize, SecondFork, OpenPidfile,
     write_pidfile, wait_for_child
<1>9. CASE Poll(j) \/ Judge(j) \/ do_stop(j) \/ remove_pidfile(j)
  BY <1>1, <1>2, <1>3, <1>4, <1>5, <1>9, Zenon DEF Poll, Judge, do_stop, remove_pidfile
<1> QED
  BY <1>6, <1>7, <1>8, <1>9 DEF Step

\* With careful use a status by the pid file that says the program does not
\* run is right.
THEOREM Truthful == Spec => StatusTrue
<1> DEFINE Denies(i) == /\ careful /\ opt[i].action = "status" /\ OnlyPidfile(opt[i])
                        /\ code'[i] \in {1, 3}
           G == \A i \in Inst : Denies(i) => \A p \in Pid : proc[p] \notin {Daemon, Self}
<1>1. Base /\ Safe /\ [Next]_vars => [G]_vars
  <2> SUFFICES ASSUME Base, Safe, [Next]_vars, NEW i \in Inst, Denies(i), ~UNCHANGED vars
               PROVE  Nothing
    BY Zenon DEF Nothing, Ours
  <2>0. /\ pc[i] # "idle" /\ pc[i] \notin {"wait", "open", "write", "exec", "poll", "remove"}
        /\ second[i] = "none" /\ child[i] = 0 /\ SafeRun(i) /\ RunTypes
    BY RunFact, OptsFact DEF Phase, Good, Retries, Safe, Secure, Base
  <2>1. code'[i] # NoExit /\ ~Going
    BY DEF NoExit, Going
  <2>2. ASSUME NEW j \in Inst, Invoke(j) \/ Step(j)
        PROVE  Nothing
    <3>1. i = j
      BY <2>1, <2>2, CodeFact
    <3>2. do_pidfile(i) \/ CheckPid(i) \/ do_procinit(i) \/ Status(i)
      BY <2>0, <2>2, <3>1 DEF Step, Invoke, Refrain, StartHere, daemonize, Starting,
         SecondFork, OpenPidfile, write_pidfile, wait_for_child, Poll, do_stop, Judge,
         remove_pidfile
    <3>3. \A status \in Nat : Exits(i, status) => code'[i] = status
      BY <2>0, LeavesFact DEF Exits
    <3>4. ~Fails(i)
      BY <3>3 DEF Fails, ExitOf
    <3>5. pc[i] = "found" /\ Exits(i, look[i])
      BY <2>1, <3>2, <3>4 DEF do_pidfile, CheckPid, do_procinit, Status
    <3>6. look[i] # 0 /\ found[i] = {}
      BY <2>0, <3>3, <3>5, RunFact DEF Finding, RunTypes
    <3> QED
      BY <2>0, <3>5, <3>6 DEF SafeRun, Relies, Nothing
  <2>3. ~\E j \in Inst : Tick(j)
    BY <2>1 DEF Tick
  <2>4. ASSUME NEW p \in Pid, NEW j \in Inst, child[j] = p, NEW status,
               Leaves(j, status) \/ Exits(j, status)
        PROVE  FALSE
    <3>1. i # j
      BY <2>0, <2>4, PidAssumption
    <3> QED
      BY <2>1, <2>4, <3>1 DEF Leaves, Exits
  <2>5. ~\E p \in Pid : Exec(p) \/ Die(p) \/ Reuse(p)
    BY <2>1, <2>4 DEF Exec, Die, Reuse
  <2> QED
    BY <2>2, <2>3, <2>5 DEF Next
<1>2. StatusTrue <=> [][G]_vars
  BY PTL DEF StatusTrue
<1> QED
  BY <1>1, <1>2, BaseInvariant, SafeInvariant, PTL DEF Spec

===============================================================================
