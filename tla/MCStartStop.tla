------------------------------ MODULE MCStartStop ------------------------------
(* One daemon, one other program, and the command lines of the rc scripts with *)
(* a few more: wrong ones, --background by pid file alone, and --retry lists.  *)
EXTENDS StartStop, TLC

CONSTANTS a, b, daemon, other, self

MCUid == [root |-> 0, git |-> 101]
MCOwner == (daemon :> 0) @@ (other :> 1000) @@ (self :> 0)
MCParent == (daemon :> 1) @@ (other :> 2) @@ (self :> 1)

Opt(o, arg) == [opt |-> o, arg |-> arg]
Set(o) == Opt(o, TRUE)
Action(x) == Opt("action", x)
Sig(w) == [hyph |-> FALSE, str |-> Word(w)]
Sec(n) == [hyph |-> FALSE, str |-> Num(n)]

\* rc.gitd; the git user is known.
GitdStart == <<Action("start"), Opt("chuid", [user |-> Word("git"), group |-> Null]),
               Set("background"), Set("make"), Set("pidfile"), Opt("exec", daemon)>>
GitdStop == <<Action("stop"), Set("pidfile"), Set("remove"), Opt("retry", <<Sec(1)>>)>>

GitdStatus == <<Action("status"), Set("pidfile")>>

\* rc.crond: by executable alone.
CrondStop == <<Action("stop"), Opt("retry", <<Sec(1)>>), Opt("exec", daemon)>>

\* In the foreground, known by its pid file alone.
Foreground == <<Action("start"), Set("make"), Set("pidfile"), Opt("startas", daemon)>>
Tested == <<Action("start"), Set("test"), Opt("exec", daemon)>>
Hasty == <<Action("stop"), Set("pidfile"), Set("remove"), Set("oknodo")>>
Lasting == <<Action("stop"), Set("pidfile"),
             Opt("retry", <<Sig("TERM"), Sig("forever"), Sig("KILL"), Sec(0)>>)>>

\* Not accepted: two commands, forever at the end, a slash too many, users
\* that are not known, the priority the manual page says is the default.
Wrong ==
  <<<<Action("status"), Action("stop"), Set("pidfile")>>,
    <<Action("stop"), Set("pidfile"), Opt("retry", <<Sig("TERM"), Sec(1), Sig("forever")>>)>>,
    <<Action("stop"), Set("pidfile"), Opt("retry", <<Sig("TERM"), Sec(1), Sig("")>>)>>,
    <<Action("stop"), Opt("user", Word("nobody"))>>,
    <<Action("start"), Opt("exec", daemon), Opt("chuid", [user |-> Num(102), group |-> Null])>>,
    <<Action("start"), Opt("exec", daemon),
      Opt("procsched", [policy |-> "fifo", prio |-> Null])>>>>

MCLines ==
  (a :> <<GitdStart, GitdStop, GitdStatus>> \o Wrong) @@
  (b :> <<Foreground, Tested, Hasty, CrondStop, Lasting>>)

MCInitFiles == {[pid |-> NoFile, mode |-> "root"], [pid |-> 0, mode |-> "root"],
                [pid |-> 2, mode |-> "world"]}

\* These command lines are ones a success of which says that all are gone.
ASSUME ObeyableHere == Obeyable
==============================================================================
