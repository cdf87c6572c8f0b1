---------------------------- MODULE Pkgman_proofs ----------------------------
(***************************************************************************)
(* For any number of instances, packages and commands, with any faults:    *)
(* what changes in the package database is only what pkgadd and pkgrm were *)
(* asked to change, and an installation never replaces a package; what a   *)
(* plan may take along, leave alone and has to keep in order.  For one     *)
(* instance: what an exit status of 0 means.                               *)
(***************************************************************************)
EXTENDS Pkgman, FiniteSetTheorems, TLAPS

-------------------------------------------------------------------------------
(* Sequences and the sets of their elements.                               *)

\* The elements of a list are the first one and those of the rest.
LEMMA TailSet ==
  ASSUME NEW S, NEW s \in Seq(S), s # << >>
  PROVE  SeqSet(s) = {Head(s)} \union SeqSet(Tail(s))
<1>1. Head(s) \in SeqSet(s)
  BY DEF SeqSet
<1>2. ASSUME NEW x \in SeqSet(s), x # Head(s)  PROVE x \in SeqSet(Tail(s))
  <2>1. PICK i \in DOMAIN s : s[i] = x
    BY <1>2 DEF SeqSet
  <2>2. i - 1 \in DOMAIN Tail(s) /\ Tail(s)[i - 1] = x
    BY <1>2, <2>1
  <2> QED
    BY <2>2 DEF SeqSet
<1>3. ASSUME NEW x \in SeqSet(Tail(s))  PROVE x \in SeqSet(s)
  <2>1. PICK i \in DOMAIN Tail(s) : Tail(s)[i] = x
    BY <1>3 DEF SeqSet
  <2>2. i + 1 \in DOMAIN s /\ s[i + 1] = x
    BY <2>1
  <2> QED
    BY <2>2 DEF SeqSet
<1> QED
  BY <1>1, <1>2, <1>3

\* A list that is put before another one.
LEMMA ConcatSet ==
  ASSUME NEW S, NEW s \in Seq(S), NEW t \in Seq(S)
  PROVE  SeqSet(s \o t) = SeqSet(s) \union SeqSet(t)
<1>1. ASSUME NEW i \in DOMAIN s  PROVE i \in DOMAIN (s \o t) /\ (s \o t)[i] = s[i]
  OBVIOUS
<1>2. ASSUME NEW i \in DOMAIN t
      PROVE  i + Len(s) \in DOMAIN (s \o t) /\ (s \o t)[i + Len(s)] = t[i]
  OBVIOUS
<1>3. ASSUME NEW i \in DOMAIN (s \o t)
      PROVE  (s \o t)[i] \in SeqSet(s) \union SeqSet(t)
  <2>1. CASE i \in DOMAIN s
    BY <1>1, <2>1 DEF SeqSet
  <2>2. CASE i \notin DOMAIN s
    <3>1. i - Len(s) \in DOMAIN t /\ (s \o t)[i] = t[i - Len(s)]
      BY <2>2
    <3> QED
      BY <3>1 DEF SeqSet
  <2> QED
    BY <2>1, <2>2
<1>4. SeqSet(s \o t) \subseteq SeqSet(s) \union SeqSet(t)
  BY <1>3 DEF SeqSet
<1>5. SeqSet(s) \subseteq SeqSet(s \o t)
  BY <1>1 DEF SeqSet
<1>6. SeqSet(t) \subseteq SeqSet(s \o t)
  BY <1>2 DEF SeqSet
<1> QED
  BY <1>4, <1>5, <1>6

\* The elements of a list belong to what the list is made of.
LEMMA SetBound ==
  ASSUME NEW S, NEW s \in Seq(S)
  PROVE  SeqSet(s) \subseteq S
BY DEF SeqSet

\* There are finitely many of them.
LEMMA SetFinite ==
  ASSUME NEW S, NEW s \in Seq(S)
  PROVE  IsFiniteSet(SeqSet(s)) /\ Cardinality(SeqSet(s)) \in Nat
<1> DEFINE n == Len(s)
<1>1. n \in Nat /\ DOMAIN s = 1..n
  OBVIOUS
<1>2. IsFiniteSet(1..n)
  BY <1>1, FS_Interval
<1>3. s \in Surjection(1..n, SeqSet(s))
  BY <1>1 DEF Surjection, SeqSet
<1>4. IsFiniteSet(SeqSet(s))
  BY <1>2, <1>3, FS_Surjection
<1> QED
  BY <1>4, FS_CardinalityType

\* The names of the packages are those of the alphabet.
LEMMA PkgFinite == IsFiniteSet(Pkg)
BY PkgmanAssumption, SetFinite

\* A list of what is kept has its names from what was there.
LEMMA KeptFact ==
  ASSUME NEW s \in Seq(Pkg), NEW S, NEW t \in Kept(s, S)
  PROVE  t \in Seq(Pkg) /\ SeqSet(t) = SeqSet(s) \intersect S
<1> DEFINE X == SeqSet(s) \intersect S
<1>1. IsFiniteSet(X) /\ X \subseteq Pkg
  BY SetFinite, SetBound, FS_Intersection
<1>2. Cardinality(X) \in Nat
  BY <1>1, FS_CardinalityType
<1>3. t \in [1..Cardinality(X) -> X] /\ SeqSet(t) = X
  BY DEF Kept
<1>4. t \in [1..Cardinality(X) -> Pkg]
  BY <1>1, <1>3
<1> HIDE DEF X
<1>5. t \in Seq(Pkg)
  BY <1>2, <1>4
<1> QED
  BY <1>3, <1>5 DEF X

\* An order lists the closure.
LEMMA OrderFact ==
  ASSUME NEW S, NEW s \in Orders(S)
  PROVE  /\ s \in Seq(Pkg)
         /\ SeqSet(s) = Closure(S)
         /\ \A i, j \in DOMAIN s : i < j => s[j] \notin Needs[s[i]]
<1> DEFINE C == Closure(S)
<1>1. C \subseteq Repo /\ Repo \subseteq Pkg
  BY PkgmanAssumption DEF Closure
<1>2. IsFiniteSet(C)
  BY <1>1, PkgFinite, FS_Subset
<1>3. Cardinality(C) \in Nat
  BY <1>2, FS_CardinalityType
<1>4. /\ s \in [1..Cardinality(C) -> C] /\ SeqSet(s) = C
      /\ \A i, j \in DOMAIN s : i < j => s[j] \notin Needs[s[i]]
  BY DEF Orders
<1> HIDE DEF C
<1>5. s \in [1..Cardinality(C) -> Pkg]
  BY <1>1, <1>4
<1>6. s \in Seq(Pkg)
  BY <1>3, <1>5
<1> QED
  BY <1>4, <1>6 DEF C

\* The closure has what is asked for and what that needs.
LEMMA ClosureFact ==
  ASSUME NEW S
  PROVE  /\ S \intersect Repo \subseteq Closure(S)
         /\ Closure(S) \subseteq Repo
         /\ \A x \in Closure(S) : Needs[x] \intersect Repo \subseteq Closure(S)
<1> DEFINE Closed(C) ==
      S \intersect Repo \subseteq C /\ \A x \in C : Needs[x] \intersect Repo \subseteq C
<1>1. Closure(S) = {x \in Repo : \A C \in SUBSET Repo : Closed(C) => x \in C}
  BY Zenon DEF Closure
<1>2. ASSUME NEW x \in Closure(S), NEW y \in Needs[x] \intersect Repo, NEW C \in SUBSET Repo, Closed(C)
      PROVE  y \in C
  BY <1>1, <1>2
<1>3. S \intersect Repo \subseteq Closure(S)
  BY <1>1
<1>4. Closure(S) \subseteq Repo
  BY <1>1
<1> HIDE DEF Closed
<1>5. \A x \in Closure(S) : Needs[x] \intersect Repo \subseteq Closure(S)
  BY <1>1, <1>2
<1> QED
  BY <1>3, <1>4, <1>5

-------------------------------------------------------------------------------
(* The types, and what a step leaves alone.                                *)

\* What a report may list.
Entry == List \X Pkg

Types ==
  /\ db \in [Pkg -> Version]
  /\ locked \in SUBSET Pkg
  /\ logs \in SUBSET Repo
  /\ pc \in [Proc -> {"idle", "open", "next", "make", "add", "store", "write"}]
  /\ cmd \in [Proc -> Command \union {NoCmd}]
  /\ mine \in [Proc -> SUBSET Pkg]
  /\ known \in [Proc -> [Pkg -> Version]]
  /\ plan \in [Proc -> Seq(Transaction)]
  /\ report \in [Proc -> SUBSET Entry]
  /\ failed \in [Proc -> BOOLEAN]

\* An instance that takes no step.
Same(q) ==
  /\ pc'[q] = pc[q] /\ cmd'[q] = cmd[q] /\ mine'[q] = mine[q] /\ known'[q] = known[q]
  /\ plan'[q] = plan[q] /\ report'[q] = report[q] /\ failed'[q] = failed[q]

\* Where an instance is: only building and adding have a package at hand, and
\* only a removal or setLock stores.
Stage(p) ==
  /\ pc[p] # "idle" => cmd[p] \in Command
  /\ pc[p] \in {"idle", "open"} => plan[p] = << >>
  /\ pc[p] \in {"make", "add"} =>
       plan[p] # << >> /\ Type(p) # "REMOVE" /\ Names(p) # << >> /\ Name(p) \in Repo
  /\ pc[p] \in {"store", "write"} => plan[p] = << >> \/ (Type(p) = "REMOVE" /\ Names(p) = << >>)

\* The first transaction of a plan, and its first package.
LEMMA FirstFact ==
  ASSUME Types, NEW p \in Proc, plan[p] # << >>
  PROVE  /\ plan[p] \in Seq(Transaction) /\ Head(plan[p]) \in Transaction
         /\ Tail(plan[p]) \in Seq(Transaction)
         /\ Type(p) \in {"INSTALL", "UPDATE", "REMOVE"}
         /\ Names(p) \in Seq(Pkg)
         /\ Names(p) # << >> => Name(p) \in Pkg /\ Tail(Names(p)) \in Seq(Pkg)
<1>1. plan[p] \in Seq(Transaction)
  BY DEF Types
<1>2. Head(plan[p]) \in Transaction /\ Tail(plan[p]) \in Seq(Transaction)
  BY <1>1
<1>3. Type(p) \in {"INSTALL", "UPDATE", "REMOVE"} /\ Names(p) \in Seq(Pkg)
  BY <1>2 DEF Transaction, Type, Names
<1> QED
  BY <1>1, <1>2, <1>3 DEF Name

\* The types of what an instance has in memory when it goes on to the next
\* package, and what becomes of it.
LEMMA ProceedFact ==
  ASSUME Types, NEW p \in Proc, plan[p] # << >>, Names(p) # << >>,
         NEW lists \in SUBSET List, NEW stop \in BOOLEAN, Proceed(p, lists, stop)
  PROVE  /\ pc' \in [Proc -> {"idle", "open", "next", "make", "add", "store", "write"}]
         /\ plan' \in [Proc -> Seq(Transaction)]
         /\ report' \in [Proc -> SUBSET Entry]
         /\ failed' \in [Proc -> BOOLEAN]
         /\ pc'[p] = "next"
         /\ plan'[p] = IF stop THEN Tail(plan[p])
                       ELSE <<[type |-> Type(p), names |-> Tail(Names(p))]>> \o Tail(plan[p])
         /\ report[p] \subseteq report'[p] /\ \A l \in lists : <<l, Name(p)>> \in report'[p]
         /\ failed'[p] <=> (failed[p] \/ stop)
         /\ \A q \in Proc \ {p} : pc'[q] = pc[q] /\ plan'[q] = plan[q]
                                  /\ report'[q] = report[q] /\ failed'[q] = failed[q]
<1>1. pc' = [pc EXCEPT ![p] = "next"]
  BY DEF Proceed
<1>2. /\ pc' \in [Proc -> {"idle", "open", "next", "make", "add", "store", "write"}]
      /\ pc'[p] = "next" /\ \A q \in Proc \ {p} : pc'[q] = pc[q]
  BY <1>1 DEF Types
<1> DEFINE new == IF stop THEN Tail(plan[p])
                  ELSE <<[type |-> Type(p), names |-> Tail(Names(p))]>> \o Tail(plan[p])
<1>3. plan' = [plan EXCEPT ![p] = new]
  BY DEF Proceed
<1>4. [type |-> Type(p), names |-> Tail(Names(p))] \in Transaction
  BY FirstFact DEF Transaction
<1>5. new \in Seq(Transaction)
  BY <1>4, FirstFact
<1>6. /\ plan' \in [Proc -> Seq(Transaction)]
      /\ plan'[p] = new /\ \A q \in Proc \ {p} : plan'[q] = plan[q]
  <2> HIDE DEF new
  <2> QED
    BY <1>3, <1>5 DEF Types
<1>7. report' = [report EXCEPT ![p] = @ \union (lists \X {Name(p)})]
  BY DEF Proceed
<1>8. lists \X {Name(p)} \in SUBSET Entry
  BY FirstFact DEF Entry
<1>9. /\ report' \in [Proc -> SUBSET Entry]
      /\ report[p] \subseteq report'[p] /\ \A l \in lists : <<l, Name(p)>> \in report'[p]
      /\ \A q \in Proc \ {p} : report'[q] = report[q]
  BY <1>7, <1>8 DEF Types
<1>10. failed' = [failed EXCEPT ![p] = @ \/ stop]
  BY DEF Proceed
<1>11. /\ failed' \in [Proc -> BOOLEAN]
       /\ failed'[p] <=> (failed[p] \/ stop)
       /\ \A q \in Proc \ {p} : failed'[q] = failed[q]
  BY <1>10 DEF Types
<1> QED
  BY <1>2, <1>6, <1>9, <1>11

\* An instance that ends: what it has in memory is gone.
LEMMA ExitFact ==
  ASSUME Types, NEW p \in Proc, NEW bad \in BOOLEAN, Exit(p, bad), UNCHANGED <<disk, cmd, report>>
  PROVE  /\ Types'
         /\ \A q \in Proc \ {p} : Same(q)
         /\ pc'[p] = "idle" /\ plan'[p] = << >> /\ failed'[p] = bad
<1>1. Blank \in [Pkg -> Version]
  BY DEF Blank, Version
<1>2. << >> \in Seq(Transaction)
  OBVIOUS
<1>3. Types'
  BY <1>1, <1>2 DEF Types, Exit, disk
<1> QED
  BY <1>3 DEF Types, Exit, Same

-------------------------------------------------------------------------------
(* What plans look like.                                                   *)

\* The packages that a list of transactions of a type still has ahead of it.
Ahead(steps, type) ==
  {x \in Pkg : \E k \in DOMAIN steps : steps[k].type = type /\ x \in SeqSet(steps[k].names)}

\* A plan that installs comes first and alone.
UpdatesFollow(steps) == \A k \in DOMAIN steps : k > 1 => steps[k].type = "UPDATE"

\* What a transaction becomes part of a plan with.
LEMMA PlanFact ==
  ASSUME NEW type \in {"INSTALL", "UPDATE", "REMOVE"}, NEW names \in Seq(Pkg)
  PROVE  /\ Plan(type, names) \in Seq(Transaction)
         /\ \A other : Ahead(Plan(type, names), other) = IF other = type THEN SeqSet(names) ELSE {}
         /\ UpdatesFollow(Plan(type, names))
         /\ \A k \in DOMAIN Plan(type, names) : Plan(type, names)[k].type = type
<1>1. CASE names = << >>
  <2>1. Plan(type, names) = << >> /\ SeqSet(names) = {}
    BY <1>1 DEF Plan, SeqSet
  <2> QED
    BY <2>1 DEF Ahead, UpdatesFollow
<1>2. CASE names # << >>
  <2> DEFINE step == [type |-> type, names |-> names]
  <2>1. step \in Transaction /\ step.type = type /\ step.names = names
    BY DEF Transaction
  <2>2. Plan(type, names) = <<step>>
    BY <1>2 DEF Plan
  <2> HIDE DEF step
  <2>3. <<step>> \in Seq(Transaction) /\ DOMAIN <<step>> = {1} /\ <<step>>[1] = step
    BY <2>1
  <2>4. SeqSet(names) \subseteq Pkg
    BY SetBound
  <2> QED
    BY <2>1, <2>2, <2>3, <2>4 DEF Ahead, UpdatesFollow
<1> QED
  BY <1>1, <1>2

\* What two plans have ahead of them, one after the other.
LEMMA AheadConcat ==
  ASSUME NEW s \in Seq(Transaction), NEW t \in Seq(Transaction), NEW type
  PROVE  Ahead(s \o t, type) = Ahead(s, type) \union Ahead(t, type)
<1>1. ASSUME NEW i \in DOMAIN s  PROVE i \in DOMAIN (s \o t) /\ (s \o t)[i] = s[i]
  OBVIOUS
<1>2. ASSUME NEW i \in DOMAIN t
      PROVE  i + Len(s) \in DOMAIN (s \o t) /\ (s \o t)[i + Len(s)] = t[i]
  OBVIOUS
<1>3. ASSUME NEW i \in DOMAIN (s \o t)
      PROVE  \/ i \in DOMAIN s /\ (s \o t)[i] = s[i]
             \/ i - Len(s) \in DOMAIN t /\ (s \o t)[i] = t[i - Len(s)]
  OBVIOUS
<1>4. Ahead(s, type) \subseteq Ahead(s \o t, type)
  BY <1>1 DEF Ahead
<1>5. Ahead(t, type) \subseteq Ahead(s \o t, type)
  BY <1>2 DEF Ahead
<1>6. Ahead(s \o t, type) \subseteq Ahead(s, type) \union Ahead(t, type)
  BY <1>3 DEF Ahead
<1> QED
  BY <1>4, <1>5, <1>6

\* An installation followed by an update, either of which may be empty.
LEMMA PairFact ==
  ASSUME NEW a \in Seq(Pkg), NEW b \in Seq(Pkg)
  PROVE  LET steps == Plan("INSTALL", a) \o Plan("UPDATE", b)
         IN  /\ steps \in Seq(Transaction)
             /\ Ahead(steps, "INSTALL") = SeqSet(a)
             /\ Ahead(steps, "UPDATE") = SeqSet(b)
             /\ Ahead(steps, "REMOVE") = {}
             /\ UpdatesFollow(steps)
             /\ \A k \in DOMAIN steps : steps[k].type # "REMOVE"
             /\ steps # << >> /\ Head(steps).type = "INSTALL" => Head(steps).names = a
<1> DEFINE one == Plan("INSTALL", a)
           two == Plan("UPDATE", b)
<1>1. one \in Seq(Transaction) /\ two \in Seq(Transaction)
  BY PlanFact
<1>2. /\ Ahead(one, "INSTALL") = SeqSet(a) /\ Ahead(one, "UPDATE") = {} /\ Ahead(one, "REMOVE") = {}
      /\ Ahead(two, "INSTALL") = {} /\ Ahead(two, "UPDATE") = SeqSet(b) /\ Ahead(two, "REMOVE") = {}
  BY PlanFact
<1>3. /\ one = << >> \/ (Len(one) = 1 /\ one[1].type = "INSTALL" /\ one[1].names = a)
      /\ two = << >> \/ (Len(two) = 1 /\ two[1].type = "UPDATE" /\ two[1].names = b)
  BY DEF Plan
<1> HIDE DEF one, two
<1>4. one \o two \in Seq(Transaction)
  BY <1>1
<1>5. \A type : Ahead(one \o two, type) = Ahead(one, type) \union Ahead(two, type)
  BY <1>1, AheadConcat
<1>6. UpdatesFollow(one \o two) /\ \A k \in DOMAIN (one \o two) : (one \o two)[k].type # "REMOVE"
  BY <1>1, <1>3 DEF UpdatesFollow
<1>7. one \o two # << >> /\ Head(one \o two).type = "INSTALL" => Head(one \o two).names = a
  BY <1>1, <1>3
<1> QED
  BY <1>2, <1>4, <1>5, <1>6, <1>7 DEF one, two

\* Going on to the next package of the first transaction, or giving it up.
LEMMA AheadProceeds ==
  ASSUME Types, NEW p \in Proc, plan[p] # << >>, Names(p) # << >>, NEW stop \in BOOLEAN,
         NEW new,
         new = IF stop THEN Tail(plan[p])
               ELSE <<[type |-> Type(p), names |-> Tail(Names(p))]>> \o Tail(plan[p])
  PROVE  /\ \A type : Ahead(new, type) \subseteq Ahead(plan[p], type)
         /\ \A type : ~ stop => Ahead(plan[p], type) \subseteq
                 Ahead(new, type) \union (IF type = Type(p) THEN {Name(p)} ELSE {})
         /\ UpdatesFollow(plan[p]) => UpdatesFollow(new)
<1> DEFINE s == plan[p]
           rest == [type |-> Type(p), names |-> Tail(Names(p))]
           here == Names(p)
<1>1. /\ s \in Seq(Transaction) /\ s # << >> /\ Tail(s) \in Seq(Transaction)
      /\ here \in Seq(Pkg) /\ here # << >> /\ Name(p) = Head(here)
      /\ s[1].type = Type(p) /\ s[1].names = here
  BY FirstFact DEF Type, Names, Name
<1>2. rest \in Transaction /\ rest.type = Type(p) /\ rest.names = Tail(here)
  BY FirstFact DEF Transaction
<1>3. SeqSet(here) = {Name(p)} \union SeqSet(Tail(here))
  BY <1>1, TailSet
<1> HIDE DEF s, rest, here
<1>4. ASSUME NEW k \in DOMAIN s, k # 1
      PROVE  k - 1 \in DOMAIN Tail(s) /\ Tail(s)[k - 1] = s[k]
  BY <1>1, <1>4
<1>5. ASSUME NEW k \in DOMAIN Tail(s)
      PROVE  k + 1 \in DOMAIN s /\ Tail(s)[k] = s[k + 1] /\ k + 1 > 1
  BY <1>1, <1>5
<1>6. \A type : Ahead(Tail(s), type) \subseteq Ahead(s, type)
  BY <1>5 DEF Ahead
<1>7. \A type : Ahead(s, type) \subseteq
                  Ahead(Tail(s), type) \union (IF type = Type(p) THEN SeqSet(here) ELSE {})
  BY <1>1, <1>4 DEF Ahead
<1>8. <<rest>> \in Seq(Transaction) /\ DOMAIN <<rest>> = {1} /\ <<rest>>[1] = rest
  BY <1>2
<1>9. SeqSet(Tail(here)) \subseteq Pkg /\ SeqSet(here) \subseteq Pkg
  <2>1. SeqSet(here) \subseteq Pkg
    BY <1>1, SetBound
  <2> QED
    BY <1>3, <2>1
<1>10. \A type : Ahead(<<rest>>, type) = IF type = Type(p) THEN SeqSet(Tail(here)) ELSE {}
  BY <1>2, <1>8, <1>9 DEF Ahead
<1>11. \A type : Ahead(<<rest>> \o Tail(s), type) = Ahead(<<rest>>, type) \union Ahead(Tail(s), type)
  BY <1>1, <1>8, AheadConcat
<1>12. 1 \in DOMAIN s
  BY <1>1
<1>13. SeqSet(here) \subseteq Ahead(s, Type(p))
  BY <1>1, <1>9, <1>12 DEF Ahead
<1>14. ASSUME UpdatesFollow(s)  PROVE UpdatesFollow(Tail(s)) /\ UpdatesFollow(<<rest>> \o Tail(s))
  <2>1. ASSUME NEW k \in DOMAIN Tail(s)  PROVE Tail(s)[k].type = "UPDATE"
    BY <1>5, <1>14 DEF UpdatesFollow
  <2>2. ASSUME NEW k \in DOMAIN (<<rest>> \o Tail(s)), k > 1
        PROVE  k - 1 \in DOMAIN Tail(s) /\ (<<rest>> \o Tail(s))[k] = Tail(s)[k - 1]
    BY <1>1, <1>8, <2>2
  <2> QED
    BY <2>1, <2>2 DEF UpdatesFollow
<1>15. new = IF stop THEN Tail(s) ELSE <<rest>> \o Tail(s)
  BY DEF s, rest
<1>16. \A type : Ahead(new, type) \subseteq Ahead(s, type)
  BY <1>3, <1>6, <1>10, <1>11, <1>13, <1>15
<1>17. \A type : ~ stop => Ahead(s, type) \subseteq
                 Ahead(new, type) \union (IF type = Type(p) THEN {Name(p)} ELSE {})
  <2> SUFFICES ASSUME NEW type, ~ stop
               PROVE  Ahead(s, type) \subseteq
                        Ahead(new, type) \union (IF type = Type(p) THEN {Name(p)} ELSE {})
    OBVIOUS
  <2>1. Ahead(new, type) = (IF type = Type(p) THEN SeqSet(Tail(here)) ELSE {}) \union Ahead(Tail(s), type)
    BY <1>10, <1>11, <1>15
  <2> QED
    BY <1>3, <1>7, <2>1
<1>18. UpdatesFollow(s) => UpdatesFollow(new)
  BY <1>14, <1>15
<1> QED
  BY <1>16, <1>17, <1>18 DEF s

\* The command as it is typed.
LEMMA CmdFact ==
  ASSUME NEW p \in Proc, cmd[p] \in Command
  PROVE  /\ cmd[p].op \in Op /\ cmd[p].args \in Seq(Pkg) /\ cmd[p].opts \in SUBSET Option
         /\ cmd[p].ignore \in SUBSET Pkg /\ Args(p) \subseteq Pkg
         /\ Args(p) = SeqSet(cmd[p].args)
BY SetBound DEF Command, Args

\* install and update: what is to be installed and what is to be updated.
LEMMA InstallForm ==
  ASSUME NEW p \in Proc, cmd[p] \in Command, cmd[p].op \in {"install", "update"},
         NEW steps \in InstallPlans(p)
  PROVE  \E a, b \in Seq(Pkg) :
           /\ steps = Plan("INSTALL", a) \o Plan("UPDATE", b)
           /\ SeqSet(b) = IF cmd[p].op = "update" THEN Args(p) ELSE {}
           /\ IF Has(p, "deps")
              THEN \E s \in Orders(Args(p)) : a \in NotInstalled(s)
              ELSE SeqSet(a) = IF cmd[p].op = "update" THEN {} ELSE Args(p)
<1> DEFINE args == cmd[p].args
           empty == << >>
           update == cmd[p].op = "update"
           rest == Plan(IF update THEN "UPDATE" ELSE "INSTALL", args)
<1>1. args \in Seq(Pkg) /\ SeqSet(args) = Args(p)
  BY CmdFact
<1>2. empty \in Seq(Pkg) /\ SeqSet(empty) = {} /\ \A type : Plan(type, empty) = << >>
  BY DEF SeqSet, Plan
<1>3. /\ steps \in IF ~ Has(p, "deps") THEN {rest}
                   ELSE {Plan("INSTALL", t) \o (IF update THEN rest ELSE << >>) :
                           t \in UNION {NotInstalled(s) : s \in Orders(Args(p))}}
  BY Zenon DEF InstallPlans
<1>4. \A c \in Seq(Pkg) : Plan("INSTALL", c) \in Seq(Transaction) /\ Plan("UPDATE", c) \in Seq(Transaction)
  BY PlanFact
<1>5. \A q \in Seq(Transaction) : q \o << >> = q /\ << >> \o q = q
  OBVIOUS
<1>6. \A s \in Orders(Args(p)) : \A t \in NotInstalled(s) : t \in Seq(Pkg)
  BY OrderFact, KeptFact DEF NotInstalled
<1>7. CASE ~ Has(p, "deps") /\ update
  <2>1. steps = Plan("UPDATE", args)
    BY <1>3, <1>7
  <2>2. steps = Plan("INSTALL", empty) \o Plan("UPDATE", args)
    BY <1>1, <1>2, <1>4, <1>5, <2>1
  <2> HIDE DEF args, empty
  <2> QED
    BY <1>1, <1>2, <1>7, <2>2
<1>8. CASE ~ Has(p, "deps") /\ ~ update
  <2>1. steps = Plan("INSTALL", args)
    BY <1>3, <1>8
  <2>2. steps = Plan("INSTALL", args) \o Plan("UPDATE", empty)
    BY <1>1, <1>2, <1>4, <1>5, <2>1
  <2> HIDE DEF args, empty
  <2> QED
    BY <1>1, <1>2, <1>8, <2>2
<1>9. CASE Has(p, "deps")
  <2> PICK s \in Orders(Args(p)) :
        \E t \in NotInstalled(s) : steps = Plan("INSTALL", t) \o (IF update THEN rest ELSE << >>)
    BY <1>3, <1>9
  <2>1. PICK t \in NotInstalled(s) : steps = Plan("INSTALL", t) \o (IF update THEN rest ELSE << >>)
    OBVIOUS
  <2>2. t \in Seq(Pkg)
    BY <1>6
  <2>3. CASE update
    <3>1. steps = Plan("INSTALL", t) \o Plan("UPDATE", args)
      BY <2>1, <2>3
    <3> HIDE DEF args, empty
    <3> QED
      BY <1>1, <1>9, <2>2, <2>3, <3>1
  <2>4. CASE ~ update
    <3>1. steps = Plan("INSTALL", t) \o Plan("UPDATE", empty)
      BY <1>2, <2>1, <2>4
    <3> HIDE DEF args, empty
    <3> QED
      BY <1>2, <1>9, <2>2, <2>4, <3>1
  <2> QED
    BY <2>3, <2>4
<1> QED
  BY <1>7, <1>8, <1>9

\* sysup: what is updated are the packages that are out of date.
LEMMA SysupForm ==
  ASSUME NEW p \in Proc, NEW steps \in SysupPlans(p)
  PROVE  \E a, b \in Seq(Pkg) :
           /\ steps = Plan("INSTALL", a) \o Plan("UPDATE", b)
           /\ SeqSet(b) = Greater(p)
           /\ a # << >> => \E s \in Orders(Greater(p)) : a \in NotInstalled(s)
<1> DEFINE empty == << >>
           new(s) == IF Has(p, "deps") THEN NotInstalled(s) ELSE {<< >>}
           target(s) == IF Has(p, "depsort") THEN Kept(s, Greater(p)) ELSE Sort(Greater(p))
<1>1. steps \in IF Greater(p) = {} THEN {<< >>}
                ELSE UNION {{Plan("INSTALL", t) \o Plan("UPDATE", u) : t \in new(s), u \in target(s)} :
                              s \in Orders(Greater(p))}
  BY DEF SysupPlans
<1>2. empty \in Seq(Pkg) /\ SeqSet(empty) = {} /\ \A type : Plan(type, empty) = << >>
  BY DEF SeqSet, Plan
<1>3. Greater(p) \subseteq Repo /\ Repo \subseteq Pkg
  BY PkgmanAssumption DEF Greater
<1>4. CASE Greater(p) = {}
  <2>1. steps = Plan("INSTALL", empty) \o Plan("UPDATE", empty)
    BY <1>1, <1>2, <1>4
  <2> HIDE DEF empty
  <2>2. empty = << >>
    BY DEF empty
  <2> QED
    BY <1>2, <1>4, <2>1, <2>2
<1>5. CASE Greater(p) # {}
  <2> PICK s \in Orders(Greater(p)) :
        \E t \in new(s) : \E u \in target(s) : steps = Plan("INSTALL", t) \o Plan("UPDATE", u)
    BY <1>1, <1>5
  <2>1. PICK t \in new(s) : \E u \in target(s) : steps = Plan("INSTALL", t) \o Plan("UPDATE", u)
    OBVIOUS
  <2> PICK u \in target(s) : steps = Plan("INSTALL", t) \o Plan("UPDATE", u)
    BY <2>1
  <2>2. s \in Seq(Pkg) /\ SeqSet(s) = Closure(Greater(p))
    BY OrderFact
  <2>3. t \in Seq(Pkg) /\ (t # << >> => t \in NotInstalled(s))
    BY <1>2, <2>2, KeptFact DEF NotInstalled
  <2>4. Alphabet \in Seq(Pkg) /\ SeqSet(Alphabet) = Pkg
    BY PkgmanAssumption
  <2>5. CASE Has(p, "depsort")
    <3>1. u \in Kept(s, Greater(p))
      BY <2>5
    <3>2. u \in Seq(Pkg) /\ SeqSet(u) = Closure(Greater(p)) \intersect Greater(p)
      BY <2>2, <3>1, KeptFact
    <3>3. Greater(p) \subseteq Closure(Greater(p))
      BY <1>3, ClosureFact
    <3> QED
      BY <2>1, <2>3, <3>2, <3>3
  <2>6. CASE ~ Has(p, "depsort")
    <3>1. u \in Kept(Alphabet, Greater(p))
      BY <2>6 DEF Sort
    <3>2. u \in Seq(Pkg) /\ SeqSet(u) = Pkg \intersect Greater(p)
      BY <2>4, <3>1, KeptFact
    <3> QED
      BY <1>3, <2>1, <2>3, <3>2
  <2> QED
    BY <2>5, <2>6
<1> QED
  BY <1>4, <1>5

\* remove: the arguments, and with --deps what they alone need.
LEMMA RemoveForm ==
  ASSUME NEW p \in Proc, cmd[p] \in Command, NEW steps \in RemovePlans(p)
  PROVE  \E t \in Seq(Pkg) :
           /\ steps = Plan("REMOVE", t)
           /\ Args(p) \subseteq SeqSet(t)
           /\ SeqSet(t) \subseteq Args(p) \union UNION {RemovableDeps(x) : x \in Args(p)}
<1> DEFINE more == Args(p) \union UNION {RemovableDeps(x) : x \in Args(p)}
<1>1. PICK t \in (IF Has(p, "deps") THEN Sort(more) ELSE {cmd[p].args}) : steps = Plan("REMOVE", t)
  BY DEF RemovePlans
<1>2. Args(p) \subseteq Pkg /\ cmd[p].args \in Seq(Pkg) /\ Args(p) = SeqSet(cmd[p].args)
  BY CmdFact
<1>3. Args(p) \subseteq more
  OBVIOUS
<1> HIDE DEF more
<1>4. CASE Has(p, "deps")
  <2>1. Alphabet \in Seq(Pkg) /\ SeqSet(Alphabet) = Pkg
    BY PkgmanAssumption
  <2>2. t \in Seq(Pkg) /\ SeqSet(t) = Pkg \intersect more
    BY <1>1, <1>4, <2>1, KeptFact DEF Sort
  <2> QED
    BY <1>1, <1>2, <1>3, <2>2 DEF more
<1>5. CASE ~ Has(p, "deps")
  BY <1>1, <1>2, <1>3, <1>5 DEF more
<1> QED
  BY <1>4, <1>5

-------------------------------------------------------------------------------
(* What an instance's plan keeps to, in every state it may be in.          *)

\* What remove takes along is needed by nothing but what it was to remove, by
\* the instance's copy of the database.
Unneeded(p) ==
  \A x \in Ahead(plan[p], "REMOVE") \ Args(p) : \A y \in Repo :
    known[p][y] # "none" /\ x \in Needs[y] => y \in Args(p)

\* sysup has no locked package ahead of it.
LockFree(p) ==
  cmd[p].op = "sysup" /\ ~ Has(p, "all") => Ahead(plan[p], "UPDATE") \intersect mine[p] = {}

\* What a package of an installation needs is there, has been installed or is
\* ahead of it.
Ordered(p) ==
  /\ plan[p] # << >>
  /\ {"deps", "group"} \subseteq cmd[p].opts /\ ~ Has(p, "do")
  /\ Type(p) = "INSTALL"
  => /\ SeqSet(Names(p)) \subseteq Repo
     /\ \A i \in DOMAIN Names(p) :
        \A x \in (Needs[Names(p)[i]] \intersect Repo) \ ({Names(p)[i]} \union cmd[p].ignore) :
          \/ known[p][x] # "none"
          \/ <<"installed", x>> \in report[p]
          \/ \E j \in DOMAIN Names(p) : j < i /\ Names(p)[j] = x

Inv(p) ==
  /\ Stage(p)
  /\ pc[p] = "add" => ~ Has(p, "do")
  /\ UpdatesFollow(plan[p])
  /\ Unneeded(p)
  /\ LockFree(p)
  /\ Ordered(p)

IInv == Types /\ \A p \in Proc : Inv(p)

\* What an instance has is its own.
LEMMA SameInv ==
  ASSUME NEW q \in Proc, Inv(q), Same(q)
  PROVE  Inv(q)'
BY DEF Same, Inv, Stage, Type, Names, Name, Unneeded, LockFree, Ordered, Args, Has

\* An empty plan keeps to everything.
LEMMA EmptyPlan ==
  ASSUME NEW p \in Proc, plan[p] = << >>
  PROVE  /\ \A type : Ahead(plan[p], type) = {}
         /\ UpdatesFollow(plan[p]) /\ Unneeded(p) /\ LockFree(p) /\ Ordered(p)
<1>1. \A type : Ahead(plan[p], type) = {}
  BY DEF Ahead
<1> QED
  BY <1>1 DEF UpdatesFollow, Unneeded, LockFree, Ordered

\* The order of the rest of an installation, when the first package of it is
\* there, need not be there, or the transaction is given up.
LEMMA OrderedProceeds ==
  ASSUME Types, NEW p \in Proc, plan[p] # << >>, Names(p) # << >>,
         Ordered(p), UpdatesFollow(plan[p]),
         NEW lists \in SUBSET List, NEW stop \in BOOLEAN, Proceed(p, lists, stop),
         UNCHANGED <<cmd, known>>,
         Has(p, "do") \/ stop \/ Name(p) \in cmd[p].ignore \/ Name(p) \notin Repo
           \/ known[p][Name(p)] # "none" \/ "installed" \in lists \/ ~ Has(p, "group")
           \/ Type(p) # "INSTALL"
  PROVE  Ordered(p)'
<1> DEFINE here == Names(p)
           rest == Tail(Names(p))
<1>1. /\ plan[p] \in Seq(Transaction) /\ here \in Seq(Pkg) /\ Name(p) = Head(here)
      /\ rest \in Seq(Pkg)
  BY FirstFact DEF Name
<1>2. SeqSet(here) = {Name(p)} \union SeqSet(rest)
  BY <1>1, TailSet
<1>3. /\ plan'[p] = IF stop THEN Tail(plan[p])
                    ELSE <<[type |-> Type(p), names |-> rest]>> \o Tail(plan[p])
      /\ report[p] \subseteq report'[p] /\ \A l \in lists : <<l, Name(p)>> \in report'[p]
  <2>1. plan'[p] = IF stop THEN Tail(plan[p])
                   ELSE <<[type |-> Type(p), names |-> rest]>> \o Tail(plan[p])
    BY ProceedFact
  <2>2. report[p] \subseteq report'[p] /\ \A l \in lists : <<l, Name(p)>> \in report'[p]
    BY ProceedFact
  <2> QED
    BY <2>1, <2>2
<1> SUFFICES ASSUME plan'[p] # << >>, {"deps", "group"} \subseteq cmd[p].opts, ~ Has(p, "do"),
                    Head(plan'[p]).type = "INSTALL"
             PROVE  /\ SeqSet(Head(plan'[p]).names) \subseteq Repo
                    /\ \A i \in DOMAIN Head(plan'[p]).names :
                         \A x \in (Needs[Head(plan'[p]).names[i]] \intersect Repo)
                                     \ ({Head(plan'[p]).names[i]} \union cmd[p].ignore) :
                           \/ known[p][x] # "none"
                           \/ <<"installed", x>> \in report'[p]
                           \/ \E j \in DOMAIN Head(plan'[p]).names :
                                j < i /\ Head(plan'[p]).names[j] = x
  BY DEF Ordered, Type, Names, Has
<1>4. ~ stop
  <2> SUFFICES ASSUME stop PROVE FALSE
    OBVIOUS
  <2>1. plan'[p] = Tail(plan[p])
    BY <1>3
  <2>2. 2 \in DOMAIN plan[p] /\ Head(plan'[p]) = plan[p][2]
    BY <1>1, <2>1
  <2> QED
    BY <2>2 DEF UpdatesFollow
<1>5. Head(plan'[p]) = [type |-> Type(p), names |-> rest]
  BY <1>1, <1>3, <1>4, FirstFact
<1>6. Head(plan'[p]).names = rest /\ Type(p) = "INSTALL"
  BY <1>5
<1>7. /\ SeqSet(here) \subseteq Repo
      /\ \A i \in DOMAIN here :
         \A x \in (Needs[here[i]] \intersect Repo) \ ({here[i]} \union cmd[p].ignore) :
           \/ known[p][x] # "none"
           \/ <<"installed", x>> \in report[p]
           \/ \E j \in DOMAIN here : j < i /\ here[j] = x
  BY <1>6 DEF Ordered
<1>8. \/ Name(p) \in cmd[p].ignore \/ known[p][Name(p)] # "none" \/ <<"installed", Name(p)>> \in report'[p]
  BY <1>2, <1>3, <1>4, <1>6, <1>7 DEF Has
<1> HIDE DEF here, rest
<1>9. rest = Tail(here) /\ here # << >>
  BY DEF here, rest
<1>10. ASSUME NEW i \in DOMAIN rest, NEW x \in (Needs[rest[i]] \intersect Repo) \ ({rest[i]} \union cmd[p].ignore)
       PROVE  \/ known[p][x] # "none"
              \/ <<"installed", x>> \in report'[p]
              \/ \E j \in DOMAIN rest : j < i /\ rest[j] = x
  <2>1. i \in Nat /\ i + 1 \in DOMAIN here /\ here[i + 1] = rest[i]
    BY <1>1, <1>9
  <2>2. \/ known[p][x] # "none"
        \/ <<"installed", x>> \in report[p]
        \/ \E j \in DOMAIN here : j < i + 1 /\ here[j] = x
    BY <1>7, <1>10, <2>1
  <2>3. ASSUME NEW j \in DOMAIN here, j < i + 1, here[j] = x
        PROVE  x = Name(p) \/ \E k \in DOMAIN rest : k < i /\ rest[k] = x
    <3>1. CASE j = 1
      BY <1>1, <2>3, <3>1
    <3>2. CASE j # 1
      <4>1. j - 1 \in DOMAIN rest /\ rest[j - 1] = x /\ j - 1 < i
        BY <1>1, <1>9, <2>1, <2>3, <3>2
      <4> QED
        BY <4>1
    <3> QED
      BY <3>1, <3>2
  <2> QED
    BY <1>3, <1>8, <1>10, <2>2, <2>3
<1> QED
  BY <1>2, <1>6, <1>7, <1>10

\* Going on keeps to everything, with fewer packages ahead.
LEMMA InvProceeds ==
  ASSUME Types, NEW p \in Proc, plan[p] # << >>, Names(p) # << >>, Inv(p), pc[p] # "idle",
         NEW lists \in SUBSET List, NEW stop \in BOOLEAN, Proceed(p, lists, stop),
         UNCHANGED <<cmd, known>>, mine'[p] \subseteq mine[p],
         Has(p, "do") \/ stop \/ Name(p) \in cmd[p].ignore \/ Name(p) \notin Repo
           \/ known[p][Name(p)] # "none" \/ "installed" \in lists \/ ~ Has(p, "group")
           \/ Type(p) # "INSTALL"
  PROVE  Inv(p)'
<1>1. /\ pc'[p] = "next"
      /\ plan'[p] = IF stop THEN Tail(plan[p])
                    ELSE <<[type |-> Type(p), names |-> Tail(Names(p))]>> \o Tail(plan[p])
  BY ProceedFact
<1>2. /\ \A type : Ahead(plan'[p], type) \subseteq Ahead(plan[p], type)
      /\ UpdatesFollow(plan'[p])
  <2> PICK new : new = plan'[p]
    OBVIOUS
  <2>1. /\ \A type : Ahead(new, type) \subseteq Ahead(plan[p], type)
        /\ UpdatesFollow(plan[p]) => UpdatesFollow(new)
    BY <1>1, AheadProceeds
  <2> QED
    BY <2>1 DEF Inv
<1>3. Ordered(p)'
  BY OrderedProceeds DEF Inv
<1>4. Stage(p)'
  BY <1>1 DEF Stage, Inv
<1>5. Unneeded(p)' /\ LockFree(p)'
  BY <1>2 DEF Inv, Unneeded, LockFree, Args, Has
<1> QED
  BY <1>1, <1>2, <1>3, <1>4, <1>5 DEF Inv

-------------------------------------------------------------------------------
(* The plan an instance begins with.                                       *)

LEMMA PlansFact ==
  ASSUME NEW p \in Proc, cmd[p] \in Command, cmd[p].op \notin {"lock", "unlock"},
         NEW steps \in Plans(p)
  PROVE  /\ steps \in Seq(Transaction) /\ UpdatesFollow(steps)
         /\ \A k \in DOMAIN steps : steps[k].type = "REMOVE" <=> cmd[p].op = "remove"
         /\ \A x \in Ahead(steps, "REMOVE") \ Args(p) : \E a \in Args(p) : x \in RemovableDeps(a)
         /\ cmd[p].op = "sysup" => Ahead(steps, "UPDATE") = Greater(p)
         /\ cmd[p].op = "update" => Ahead(steps, "UPDATE") = Args(p)
         /\ cmd[p].op = "remove" => Args(p) \subseteq Ahead(steps, "REMOVE")
         /\ cmd[p].op = "install" =>
              Ahead(steps, "INSTALL") =
                IF Has(p, "deps") THEN {x \in Closure(Args(p)) : ~ IsInstalled(x)} ELSE Args(p)
         /\ steps # << >> /\ Head(steps).type = "INSTALL" /\ Has(p, "deps") =>
              \E S : \E s \in Orders(S) : Head(steps).names \in NotInstalled(s)
<1>1. cmd[p].op \in {"install", "update", "remove", "sysup"}
  BY CmdFact DEF Op
<1>2. \A S : \A s \in Orders(S) : \A t \in NotInstalled(s) :
        SeqSet(t) = {x \in Closure(S) : ~ IsInstalled(x)}
  <2> SUFFICES ASSUME NEW S, NEW s \in Orders(S), NEW t \in NotInstalled(s)
               PROVE  SeqSet(t) = {x \in Closure(S) : ~ IsInstalled(x)}
    OBVIOUS
  <2>1. s \in Seq(Pkg) /\ SeqSet(s) = Closure(S)
    BY OrderFact
  <2>2. SeqSet(t) = SeqSet(s) \intersect {x \in Pkg : ~ IsInstalled(x)}
    BY <2>1, KeptFact DEF NotInstalled
  <2> QED
    BY <2>1, <2>2, SetBound
<1>3. CASE cmd[p].op \in {"install", "update"}
  <2>1. steps \in InstallPlans(p)
    BY <1>3 DEF Plans
  <2> PICK a \in Seq(Pkg), b \in Seq(Pkg) :
           /\ steps = Plan("INSTALL", a) \o Plan("UPDATE", b)
           /\ SeqSet(b) = IF cmd[p].op = "update" THEN Args(p) ELSE {}
           /\ IF Has(p, "deps")
              THEN \E s \in Orders(Args(p)) : a \in NotInstalled(s)
              ELSE SeqSet(a) = IF cmd[p].op = "update" THEN {} ELSE Args(p)
    BY <1>3, <2>1, InstallForm
  <2>2. /\ steps \in Seq(Transaction)
        /\ Ahead(steps, "INSTALL") = SeqSet(a)
        /\ Ahead(steps, "UPDATE") = SeqSet(b)
        /\ Ahead(steps, "REMOVE") = {}
        /\ UpdatesFollow(steps)
        /\ \A k \in DOMAIN steps : steps[k].type # "REMOVE"
        /\ steps # << >> /\ Head(steps).type = "INSTALL" => Head(steps).names = a
    BY PairFact
  <2>3. cmd[p].op = "install" => SeqSet(a) =
          IF Has(p, "deps") THEN {x \in Closure(Args(p)) : ~ IsInstalled(x)} ELSE Args(p)
    BY <1>2
  <2> QED
    BY <1>3, <2>2, <2>3
<1>4. CASE cmd[p].op = "sysup"
  <2>1. steps \in SysupPlans(p)
    BY <1>4 DEF Plans
  <2> PICK a \in Seq(Pkg), b \in Seq(Pkg) :
           /\ steps = Plan("INSTALL", a) \o Plan("UPDATE", b)
           /\ SeqSet(b) = Greater(p)
           /\ a # << >> => \E s \in Orders(Greater(p)) : a \in NotInstalled(s)
    BY <2>1, SysupForm
  <2>2. /\ steps \in Seq(Transaction)
        /\ Ahead(steps, "INSTALL") = SeqSet(a)
        /\ Ahead(steps, "UPDATE") = SeqSet(b)
        /\ Ahead(steps, "REMOVE") = {}
        /\ UpdatesFollow(steps)
        /\ \A k \in DOMAIN steps : steps[k].type # "REMOVE"
        /\ steps # << >> /\ Head(steps).type = "INSTALL" => Head(steps).names = a
    BY PairFact
  <2>3. steps # << >> /\ Head(steps).type = "INSTALL" => a # << >>
    <3> SUFFICES ASSUME a = << >>, steps # << >>, Head(steps).type = "INSTALL" PROVE FALSE
      OBVIOUS
    <3>1. SeqSet(a) = {}
      BY DEF SeqSet
    <3>2. Plan("INSTALL", a) = << >>
      BY DEF Plan
    <3>3. steps = Plan("UPDATE", b)
      BY <3>2, PlanFact
    <3> QED
      BY <3>3 DEF Plan
  <2> QED
    BY <1>4, <2>2, <2>3
<1>5. CASE cmd[p].op = "remove"
  <2>1. steps \in RemovePlans(p)
    BY <1>5 DEF Plans
  <2> PICK t \in Seq(Pkg) :
           /\ steps = Plan("REMOVE", t)
           /\ Args(p) \subseteq SeqSet(t)
           /\ SeqSet(t) \subseteq Args(p) \union UNION {RemovableDeps(x) : x \in Args(p)}
    BY <2>1, RemoveForm
  <2>2. /\ steps \in Seq(Transaction) /\ UpdatesFollow(steps)
        /\ \A k \in DOMAIN steps : steps[k].type = "REMOVE"
        /\ \A other : Ahead(steps, other) = IF other = "REMOVE" THEN SeqSet(t) ELSE {}
    BY PlanFact
  <2>3. steps # << >> => Head(steps).type = "REMOVE"
    BY DEF Plan
  <2> QED
    BY <1>5, <2>2, <2>3
<1> QED
  BY <1>1, <1>3, <1>4, <1>5

\* Dependencies that miss are listed before what needs them.
LEMMA ListOrdered ==
  ASSUME NEW S, NEW s \in Orders(S), NEW t \in NotInstalled(s)
  PROVE  /\ SeqSet(t) \subseteq Repo
         /\ \A i \in DOMAIN t : \A x \in (Needs[t[i]] \intersect Repo) \ {t[i]} :
              IsInstalled(x) \/ \E j \in DOMAIN t : j < i /\ t[j] = x
<1> DEFINE Absent == {x \in Pkg : ~ IsInstalled(x)}
<1>1. /\ s \in Seq(Pkg) /\ SeqSet(s) = Closure(S)
      /\ \A i, j \in DOMAIN s : i < j => s[j] \notin Needs[s[i]]
  BY OrderFact
<1>2. t \in Seq(Pkg) /\ SeqSet(t) = SeqSet(s) \intersect Absent
  BY <1>1, KeptFact DEF NotInstalled
<1>3. \A i, j \in DOMAIN t, k, l \in DOMAIN s : i < j /\ s[k] = t[i] /\ s[l] = t[j] => k < l
  BY DEF NotInstalled, Kept
<1>4. Repo \subseteq Pkg
  BY PkgmanAssumption
<1>5. ASSUME NEW i \in DOMAIN t, NEW x \in (Needs[t[i]] \intersect Repo) \ {t[i]}, ~ IsInstalled(x)
      PROVE  \E j \in DOMAIN t : j < i /\ t[j] = x
  <2>1. t[i] \in Closure(S)
    BY <1>1, <1>2 DEF SeqSet
  <2>2. x \in Closure(S)
    BY <2>1, ClosureFact
  <2>3. x \in SeqSet(t)
    BY <1>1, <1>2, <1>4, <1>5, <2>2
  <2>4. PICK j \in DOMAIN t : t[j] = x
    BY <2>3 DEF SeqSet
  <2>5. ASSUME i < j  PROVE FALSE
    <3>1. t[i] \in SeqSet(s) /\ t[j] \in SeqSet(s)
      BY <1>2 DEF SeqSet
    <3>2. PICK k \in DOMAIN s : s[k] = t[i]
      BY <3>1 DEF SeqSet
    <3>3. PICK l \in DOMAIN s : s[l] = t[j]
      BY <3>1 DEF SeqSet
    <3>4. k < l
      BY <1>3, <2>5, <3>2, <3>3
    <3> QED
      BY <1>1, <1>5, <2>4, <3>2, <3>3, <3>4
  <2> QED
    BY <1>2, <1>5, <2>4, <2>5
<1> QED
  BY <1>1, <1>2, <1>5, ClosureFact

-------------------------------------------------------------------------------
(* Every action, by the instance that takes it.                            *)

\* What a step of p leaves: the types, p's invariant, and the others alone.
Keeps(p) == Types' /\ Inv(p)' /\ \A q \in Proc \ {p} : Same(q)

LEMMA StartStep ==
  ASSUME IInv, NEW p \in Proc, Start(p)
  PROVE  Keeps(p)
<1> USE DEF disk
<1>1. PICK c \in Cmds : cmd' = [cmd EXCEPT ![p] = c]
  BY DEF Start
<1>2. c \in Command
  BY PkgmanAssumption
<1>3. Types
  BY DEF IInv
<1>4. /\ cmd' \in [Proc -> Command \union {NoCmd}] /\ cmd'[p] = c
      /\ \A q \in Proc \ {p} : cmd'[q] = cmd[q]
  BY <1>1, <1>2, <1>3 DEF Types
<1>5. /\ pc' \in [Proc -> {"idle", "open", "next", "make", "add", "store", "write"}]
      /\ mine' \in [Proc -> SUBSET Pkg] /\ report' \in [Proc -> SUBSET Entry]
      /\ failed' \in [Proc -> BOOLEAN] /\ pc'[p] = "open"
  BY <1>3 DEF Start, Types
<1>6. Types'
  BY <1>3, <1>4, <1>5 DEF Types, Start
<1>7. \A q \in Proc \ {p} : Same(q)
  BY <1>3, <1>4 DEF Types, Start, Same
<1>8. plan[p] = << >> /\ plan'[p] = plan[p]
  BY DEF IInv, Inv, Stage, Start
<1>9. plan'[p] = << >>
  BY <1>8
<1>10. (UpdatesFollow(plan[p]) /\ Unneeded(p) /\ LockFree(p) /\ Ordered(p))'
  BY <1>9, EmptyPlan DEF Ahead, UpdatesFollow, Unneeded, LockFree, Ordered
<1>11. Stage(p)'
  BY <1>2, <1>4, <1>5, <1>9 DEF Stage
<1> QED
  BY <1>5, <1>6, <1>7, <1>10, <1>11 DEF Keeps, Inv

\* An instance that ends.
LEMMA EndStep ==
  ASSUME IInv, NEW p \in Proc, NEW bad \in BOOLEAN, Exit(p, bad), UNCHANGED <<disk, cmd, report>>
  PROVE  Keeps(p)
<1>1. /\ Types' /\ \A q \in Proc \ {p} : Same(q)
      /\ pc'[p] = "idle" /\ plan'[p] = << >>
  BY ExitFact DEF IInv
<1>2. (UpdatesFollow(plan[p]) /\ Unneeded(p) /\ LockFree(p) /\ Ordered(p))'
  BY <1>1 DEF Ahead, UpdatesFollow, Unneeded, LockFree, Ordered
<1>3. Stage(p)'
  BY <1>1 DEF Stage
<1> QED
  BY <1>1, <1>2, <1>3 DEF Keeps, Inv

LEMMA OpenStep ==
  ASSUME IInv, NEW p \in Proc, Open(p)
  PROVE  Keeps(p)
<1> USE DEF disk
<1>1. Types /\ cmd[p] \in Command /\ cmd[p].op \notin {"lock", "unlock"}
  BY DEF IInv, Inv, Stage, Open
<1>2. PICK steps \in Plans(p) : plan' = [plan EXCEPT ![p] = steps]
  BY DEF Open
<1>3. /\ steps \in Seq(Transaction) /\ UpdatesFollow(steps)
      /\ \A x \in Ahead(steps, "REMOVE") \ Args(p) : \E a \in Args(p) : x \in RemovableDeps(a)
      /\ cmd[p].op = "sysup" => Ahead(steps, "UPDATE") = Greater(p)
      /\ steps # << >> /\ Head(steps).type = "INSTALL" /\ Has(p, "deps") =>
              \E S : \E s \in Orders(S) : Head(steps).names \in NotInstalled(s)
  BY <1>1, PlansFact
<1>4. /\ plan' \in [Proc -> Seq(Transaction)] /\ plan'[p] = steps
      /\ \A q \in Proc \ {p} : plan'[q] = plan[q]
  BY <1>1, <1>2, <1>3 DEF Types
<1>5. /\ pc' \in [Proc -> {"idle", "open", "next", "make", "add", "store", "write"}]
      /\ known' \in [Proc -> [Pkg -> Version]] /\ pc'[p] = "next" /\ known'[p] = db
      /\ UNCHANGED <<cmd, mine, report>>
  BY <1>1 DEF Open, Types
<1>6. Types'
  BY <1>1, <1>4, <1>5 DEF Types, Open
<1>7. \A q \in Proc \ {p} : Same(q)
  BY <1>1, <1>4 DEF Types, Open, Same
<1>8. Unneeded(p)'
  <2> SUFFICES ASSUME NEW x \in Ahead(steps, "REMOVE") \ Args(p), NEW y \in Repo,
                      db[y] # "none", x \in Needs[y]
               PROVE  y \in Args(p)
    BY <1>4, <1>5 DEF Unneeded, Args
  <2>1. PICK a \in Args(p) : x \in RemovableDeps(a)
    BY <1>3
  <2>2. Users(x) = {a}
    BY <2>1 DEF RemovableDeps
  <2>3. y \in Users(x)
    BY DEF Users, IsInstalled
  <2> QED
    BY <2>2, <2>3
<1>9. LockFree(p)'
  <2> SUFFICES ASSUME cmd[p].op = "sysup", ~ Has(p, "all"), NEW x \in Ahead(steps, "UPDATE")
               PROVE  x \notin mine[p]
    BY <1>4, <1>5 DEF LockFree, Has
  <2> QED
    BY <1>3 DEF Greater
<1>10. Ordered(p)'
  <2> SUFFICES ASSUME steps # << >>, Has(p, "deps"), Head(steps).type = "INSTALL"
               PROVE  /\ SeqSet(Head(steps).names) \subseteq Repo
                      /\ \A i \in DOMAIN Head(steps).names :
                         \A x \in (Needs[Head(steps).names[i]] \intersect Repo) \ {Head(steps).names[i]} :
                           \/ db[x] # "none"
                           \/ \E j \in DOMAIN Head(steps).names : j < i /\ Head(steps).names[j] = x
    BY <1>4, <1>5 DEF Ordered, Has, Type, Names
  <2>1. PICK S : \E s \in Orders(S) : Head(steps).names \in NotInstalled(s)
    BY <1>3
  <2>2. PICK s \in Orders(S) : Head(steps).names \in NotInstalled(s)
    BY <2>1
  <2> DEFINE t == Head(steps).names
  <2>3. t \in NotInstalled(s)
    BY <2>2
  <2> HIDE DEF t
  <2>4. /\ SeqSet(t) \subseteq Repo
        /\ \A i \in DOMAIN t : \A x \in (Needs[t[i]] \intersect Repo) \ {t[i]} :
              IsInstalled(x) \/ \E j \in DOMAIN t : j < i /\ t[j] = x
    BY <2>3, ListOrdered
  <2> QED
    BY <2>4 DEF t, IsInstalled
<1>11. Stage(p)'
  BY <1>1, <1>5 DEF Stage
<1> QED
  BY <1>3, <1>4, <1>5, <1>6, <1>7, <1>8, <1>9, <1>10, <1>11 DEF Keeps, Inv

\* lock and unlock, and what refuses them.
LEMMA LockSteps ==
  ASSUME IInv, NEW p \in Proc, Lock(p) \/ Unlock(p)
  PROVE  Keeps(p)
<1> USE DEF disk
<1>1. Types /\ cmd[p] \in Command /\ plan[p] = << >>
  BY DEF IInv, Inv, Stage, Lock, Unlock
<1>2. Args(p) \subseteq Pkg
  BY <1>1, CmdFact
<1>3. mine' \in [Proc -> SUBSET Pkg] /\ \A q \in Proc \ {p} : mine'[q] = mine[q]
  <2>1. CASE Lock(p)
    <3>1. mine' = [mine EXCEPT ![p] = mine[p] \union Args(p)]
      BY <2>1 DEF Lock
    <3>2. mine[p] \union Args(p) \in SUBSET Pkg
      BY <1>1, <1>2 DEF Types
    <3> QED
      BY <1>1, <3>1, <3>2 DEF Types
  <2>2. CASE Unlock(p)
    <3>1. mine' = [mine EXCEPT ![p] = mine[p] \ Args(p)]
      BY <2>2 DEF Unlock
    <3>2. mine[p] \ Args(p) \in SUBSET Pkg
      BY <1>1 DEF Types
    <3> QED
      BY <1>1, <3>1, <3>2 DEF Types
  <2> QED
    BY <2>1, <2>2
<1>4. failed' \in [Proc -> BOOLEAN] /\ \A q \in Proc \ {p} : failed'[q] = failed[q]
  BY <1>1 DEF Lock, Unlock, Types
<1>5. /\ pc' \in [Proc -> {"idle", "open", "next", "make", "add", "store", "write"}]
      /\ pc'[p] = "store" /\ \A q \in Proc \ {p} : pc'[q] = pc[q]
  BY <1>1 DEF Lock, Unlock, Types
<1>6. UNCHANGED <<db, locked, logs, cmd, known, plan, report>>
  BY DEF Lock, Unlock
<1>7. Types'
  BY <1>1, <1>3, <1>4, <1>5, <1>6 DEF Types
<1>8. \A q \in Proc \ {p} : Same(q)
  BY <1>3, <1>4, <1>5, <1>6 DEF Same
<1>9. plan'[p] = << >> /\ cmd'[p] \in Command
  BY <1>1, <1>6
<1>10. (UpdatesFollow(plan[p]) /\ Unneeded(p) /\ LockFree(p) /\ Ordered(p))'
  BY <1>9 DEF Ahead, UpdatesFollow, Unneeded, LockFree, Ordered
<1>11. Stage(p)'
  BY <1>5, <1>9 DEF Stage
<1> QED
  BY <1>5, <1>7, <1>8, <1>10, <1>11 DEF Keeps, Inv

\* An instance that goes on to the next package.
LEMMA ProceedStep ==
  ASSUME IInv, NEW p \in Proc, plan[p] # << >>, Names(p) # << >>, pc[p] # "idle",
         NEW lists \in SUBSET List, NEW stop \in BOOLEAN, Proceed(p, lists, stop),
         db' \in [Pkg -> Version], logs' \in SUBSET Repo, UNCHANGED <<locked, cmd, known>>,
         mine' \in [Proc -> SUBSET Pkg], mine'[p] \subseteq mine[p],
         \A q \in Proc \ {p} : mine'[q] = mine[q],
         Has(p, "do") \/ stop \/ Name(p) \in cmd[p].ignore \/ Name(p) \notin Repo
           \/ known[p][Name(p)] # "none" \/ "installed" \in lists \/ ~ Has(p, "group")
           \/ Type(p) # "INSTALL"
  PROVE  Keeps(p)
<1>1. Types /\ Inv(p)
  BY DEF IInv
<1>2. /\ pc' \in [Proc -> {"idle", "open", "next", "make", "add", "store", "write"}]
      /\ plan' \in [Proc -> Seq(Transaction)]
      /\ report' \in [Proc -> SUBSET Entry]
      /\ failed' \in [Proc -> BOOLEAN]
      /\ \A q \in Proc \ {p} : pc'[q] = pc[q] /\ plan'[q] = plan[q]
                                  /\ report'[q] = report[q] /\ failed'[q] = failed[q]
  <2>1. pc' \in [Proc -> {"idle", "open", "next", "make", "add", "store", "write"}]
    BY <1>1, ProceedFact
  <2>2. plan' \in [Proc -> Seq(Transaction)]
    BY <1>1, ProceedFact
  <2>3. report' \in [Proc -> SUBSET Entry] /\ failed' \in [Proc -> BOOLEAN]
    BY <1>1, ProceedFact
  <2>4. \A q \in Proc \ {p} : pc'[q] = pc[q] /\ plan'[q] = plan[q]
                               /\ report'[q] = report[q] /\ failed'[q] = failed[q]
    BY <1>1, ProceedFact
  <2> QED
    BY <2>1, <2>2, <2>3, <2>4
<1>3. Types'
  BY <1>1, <1>2 DEF Types
<1>4. \A q \in Proc \ {p} : Same(q)
  BY <1>2 DEF Same
<1>5. Inv(p)'
  BY <1>1, InvProceeds
<1> QED
  BY <1>3, <1>4, <1>5 DEF Keeps

\* The steps that pass a package by.
LEMMA PassSteps ==
  ASSUME IInv, NEW p \in Proc, Ignored(p) \/ Missing(p) \/ AlreadyInstalled(p) \/ LogFails(p)
  PROVE  Keeps(p)
<1> USE DEF disk
<1>1. Types /\ plan[p] # << >> /\ Names(p) # << >> /\ pc[p] = "next"
  BY DEF IInv, Ignored, Missing, AlreadyInstalled, LogFails, ToMake, InLoop
<1>2. UNCHANGED <<db, locked, logs, cmd, mine, known>>
  BY DEF Ignored, Missing, AlreadyInstalled, LogFails
<1>3. PICK lists \in SUBSET List, stop \in BOOLEAN :
        /\ Proceed(p, lists, stop)
        /\ stop \/ Name(p) \in cmd[p].ignore \/ known[p][Name(p)] # "none" \/ ~ Has(p, "group")
  <2>1. {"ignored"} \in SUBSET List /\ {"missing"} \in SUBSET List /\ {"alreadyInstalled"} \in SUBSET List
    BY DEF List, Errors
  <2>2. Has(p, "group") \in BOOLEAN
    BY DEF Has
  <2>3. CASE Ignored(p)
    BY <2>1, <2>3 DEF Ignored
  <2>4. CASE Missing(p)
    BY <2>1, <2>2, <2>4 DEF Missing
  <2>5. CASE AlreadyInstalled(p)
    BY <2>1, <2>5 DEF AlreadyInstalled
  <2>6. CASE LogFails(p)
    BY <2>6 DEF LogFails
  <2> QED
    BY <2>3, <2>4, <2>5, <2>6
<1> QED
  BY <1>1, <1>2, <1>3, ProceedStep DEF Types

\* The log of a package is one of the packages that have sources.
LEMMA LogFact ==
  ASSUME Types, NEW p \in Proc, LogDone(p)
  PROVE  logs' \in SUBSET Repo
BY DEF Types, LogDone

\* A package is built.
LEMMA MakeSteps ==
  ASSUME IInv, NEW p \in Proc, Made(p) \/ MakeFails(p)
  PROVE  Keeps(p)
<1> USE DEF disk
<1>1. Types /\ plan[p] # << >> /\ Names(p) # << >> /\ pc[p] = "make" /\ Inv(p)
  BY DEF IInv, Inv, Stage, Made, MakeFails
<1>2. CASE Made(p) /\ Has(p, "do")
  <2>1. Proceed(p, {}, FALSE) /\ logs' \in SUBSET Repo /\ UNCHANGED <<db, locked, cmd, mine, known>>
    BY <1>1, <1>2, LogFact DEF Made
  <2> QED
    BY <1>1, <1>2, <2>1, ProceedStep DEF Types
<1>3. CASE Made(p) /\ ~ Has(p, "do")
  <2>1. pc' = [pc EXCEPT ![p] = "add"] /\ UNCHANGED <<db, locked, logs, cmd, mine, known, plan, report, failed>>
    BY <1>3 DEF Made
  <2>2. /\ pc' \in [Proc -> {"idle", "open", "next", "make", "add", "store", "write"}]
        /\ pc'[p] = "add" /\ \A q \in Proc \ {p} : pc'[q] = pc[q]
    BY <1>1, <2>1 DEF Types
  <2>3. Types' /\ \A q \in Proc \ {p} : Same(q)
    BY <1>1, <2>1, <2>2 DEF Types, Same
  <2>4. (UpdatesFollow(plan[p]) /\ Unneeded(p) /\ LockFree(p) /\ Ordered(p))'
    BY <1>1, <2>1 DEF Inv, Unneeded, LockFree, Ordered, Args, Has, Type, Names
  <2>5. Stage(p)'
    BY <1>1, <2>1, <2>2 DEF Inv, Stage, Type, Names, Name
  <2> QED
    BY <1>3, <2>1, <2>2, <2>3, <2>4, <2>5 DEF Keeps, Inv, Has
<1>4. CASE MakeFails(p)
  <2>1. PICK lists \in {{"downloadFailed"}, IF Has(p, "do") THEN {} ELSE {"buildFailed"}} :
          Proceed(p, lists, Has(p, "group"))
    BY <1>4 DEF MakeFails
  <2>2. lists \in SUBSET List /\ Has(p, "group") \in BOOLEAN
    BY DEF List, Errors, Has
  <2>3. UNCHANGED <<db, locked, logs, cmd, mine, known>>
    BY <1>4 DEF MakeFails
  <2> QED
    BY <1>1, <2>1, <2>2, <2>3, ProceedStep DEF Types
<1> QED
  BY <1>2, <1>3, <1>4

LEMMA logFileCreateStep ==
  ASSUME IInv, NEW p \in Proc, logFileCreate(p)
  PROVE  Keeps(p)
<1>1. Types /\ Inv(p)
  BY DEF IInv
<1>2. /\ plan[p] # << >> /\ Names(p) # << >> /\ pc[p] = "next" /\ Type(p) # "REMOVE" /\ Name(p) \in Repo
      /\ pc' = [pc EXCEPT ![p] = "make"]
      /\ logs' = IF Logged(p) THEN logs \union {Name(p)} ELSE logs
      /\ UNCHANGED <<db, locked, cmd, mine, known, plan, report, failed>>
  BY DEF logFileCreate, ToMake, InLoop
<1>3. /\ pc' \in [Proc -> {"idle", "open", "next", "make", "add", "store", "write"}]
      /\ pc'[p] = "make" /\ \A q \in Proc \ {p} : pc'[q] = pc[q]
  BY <1>1, <1>2 DEF Types
<1>4. logs' \in SUBSET Repo
  BY <1>1, <1>2 DEF Types
<1>5. Types' /\ \A q \in Proc \ {p} : Same(q)
  BY <1>1, <1>2, <1>3, <1>4 DEF Types, Same
<1>6. (UpdatesFollow(plan[p]) /\ Unneeded(p) /\ LockFree(p) /\ Ordered(p))'
  BY <1>1, <1>2 DEF Inv, Unneeded, LockFree, Ordered, Args, Has, Type, Names
<1>7. Stage(p)'
  BY <1>1, <1>2, <1>3 DEF Inv, Stage, Type, Names, Name
<1> QED
  BY <1>3, <1>5, <1>6, <1>7 DEF Keeps, Inv

\* pkgadd is run.
LEMMA AddSteps ==
  ASSUME IInv, NEW p \in Proc, Added(p) \/ AddFails(p) \/ AddLost(p)
  PROVE  Keeps(p)
<1>1. Types /\ plan[p] # << >> /\ Names(p) # << >> /\ pc[p] = "add" /\ Name(p) \in Pkg
  <2>1. Types /\ plan[p] # << >> /\ Names(p) # << >> /\ pc[p] = "add"
    BY DEF IInv, Inv, Stage, Added, AddFails, AddLost
  <2> QED
    BY <2>1, FirstFact
<1>2. UNCHANGED <<locked, cmd, mine, known>>
  BY DEF Added, AddFails, AddLost
<1>3. db' \in [Pkg -> Version]
  <2>1. db' = db \/ db' = [db EXCEPT ![Name(p)] = "new"]
    BY DEF Added, AddFails, AddLost
  <2> QED
    BY <1>1, <2>1 DEF Types, Version
<1>4. logs' \in SUBSET Repo
  BY <1>1, LogFact DEF Added, AddFails, AddLost, Types
<1>5. PICK lists \in SUBSET List, stop \in BOOLEAN :
        Proceed(p, lists, stop) /\ ("installed" \in lists \/ stop \/ ~ Has(p, "group"))
  <2>1. {"installed"} \in SUBSET List /\ {"installFailed"} \in SUBSET List /\ Has(p, "group") \in BOOLEAN
    BY DEF List, Errors, Has
  <2>2. Proceed(p, {"installed"}, FALSE) \/ Proceed(p, {"installFailed"}, Has(p, "group"))
    BY DEF Added, AddFails, AddLost
  <2> QED
    BY <2>1, <2>2
<1> QED
  BY <1>1, <1>2, <1>3, <1>4, <1>5, ProceedStep DEF Types

\* pkgrm is run.
LEMMA RemoveSteps ==
  ASSUME IInv, NEW p \in Proc, Removed(p) \/ RemoveFails(p)
  PROVE  Keeps(p)
<1> USE DEF disk
<1>1. Types /\ plan[p] # << >> /\ Names(p) # << >> /\ pc[p] = "next" /\ Type(p) = "REMOVE"
  BY DEF IInv, Removed, RemoveFails, ToRemove, InLoop
<1>2. UNCHANGED <<locked, logs, cmd, known>>
  BY DEF Removed, RemoveFails
<1>3. db' \in [Pkg -> Version]
  <2>1. db' = db \/ db' = [db EXCEPT ![Name(p)] = "none"]
    BY DEF Removed, RemoveFails
  <2> QED
    BY <1>1, <2>1 DEF Types, Version
<1>4. /\ mine' \in [Proc -> SUBSET Pkg] /\ mine'[p] \subseteq mine[p]
      /\ \A q \in Proc \ {p} : mine'[q] = mine[q]
  <2>1. mine' = mine \/ mine' = [mine EXCEPT ![p] = @ \ {Name(p)}]
    BY DEF Removed, RemoveFails
  <2> QED
    BY <1>1, <2>1 DEF Types
<1>5. PICK lists \in SUBSET List, stop \in BOOLEAN : Proceed(p, lists, stop)
  <2>1. {"removed"} \in SUBSET List /\ {"removeFailed"} \in SUBSET List /\ Has(p, "group") \in BOOLEAN
    BY DEF List, Errors, Has
  <2> QED
    BY <2>1 DEF Removed, RemoveFails
<1> QED
  BY <1>1, <1>2, <1>3, <1>4, <1>5, ProceedStep DEF Types

\* A transaction without packages is taken off the plan.
LEMMA AheadEnds ==
  ASSUME Types, NEW p \in Proc, plan[p] # << >>, Names(p) = << >>
  PROVE  /\ \A type : Ahead(Tail(plan[p]), type) = Ahead(plan[p], type)
         /\ UpdatesFollow(plan[p]) => /\ UpdatesFollow(Tail(plan[p]))
                                      /\ Tail(plan[p]) # << >> => Head(Tail(plan[p])).type = "UPDATE"
<1> DEFINE s == plan[p]
<1>1. s \in Seq(Transaction) /\ s # << >> /\ s[1].names = << >>
  BY FirstFact DEF Names
<1> HIDE DEF s
<1>2. ASSUME NEW k \in DOMAIN s, k # 1
      PROVE  k - 1 \in DOMAIN Tail(s) /\ Tail(s)[k - 1] = s[k]
  BY <1>1, <1>2
<1>3. ASSUME NEW k \in DOMAIN Tail(s)
      PROVE  k + 1 \in DOMAIN s /\ Tail(s)[k] = s[k + 1] /\ k + 1 > 1
  BY <1>1, <1>3
<1>4. \A x : x \notin SeqSet(s[1].names)
  BY <1>1 DEF SeqSet
<1>5. ASSUME NEW type, NEW x \in Ahead(s, type)  PROVE x \in Ahead(Tail(s), type)
  <2>1. PICK k \in DOMAIN s : s[k].type = type /\ x \in SeqSet(s[k].names)
    BY <1>5 DEF Ahead
  <2>2. k # 1
    BY <1>4, <2>1
  <2>3. k - 1 \in DOMAIN Tail(s) /\ Tail(s)[k - 1] = s[k]
    BY <1>2, <2>2
  <2> QED
    BY <1>5, <2>1, <2>3 DEF Ahead
<1>6. \A type : Ahead(Tail(s), type) \subseteq Ahead(s, type)
  BY <1>3 DEF Ahead
<1>7. ASSUME UpdatesFollow(s), NEW k \in DOMAIN Tail(s)  PROVE Tail(s)[k].type = "UPDATE"
  BY <1>3, <1>7 DEF UpdatesFollow
<1>8. Tail(s) # << >> => 1 \in DOMAIN Tail(s) /\ Head(Tail(s)) = Tail(s)[1]
  BY <1>1
<1>9. UpdatesFollow(s) => /\ UpdatesFollow(Tail(s))
                          /\ Tail(s) # << >> => Head(Tail(s)).type = "UPDATE"
  BY <1>7, <1>8 DEF UpdatesFollow
<1> QED
  BY <1>5, <1>6, <1>9 DEF s

\* What is left of a plan when its first, finished transaction is taken off.
LEMMA TailStep ==
  ASSUME IInv, NEW p \in Proc, plan[p] # << >> => Names(p) = << >>, pc[p] # "idle",
         plan' = [plan EXCEPT ![p] = IF @ = << >> THEN @ ELSE Tail(@)],
         locked' \in SUBSET Pkg, failed' \in [Proc -> BOOLEAN],
         \A q \in Proc \ {p} : failed'[q] = failed[q],
         pc' = [pc EXCEPT ![p] = "next"], UNCHANGED <<db, logs, cmd, mine, known, report>>
  PROVE  Keeps(p)
<1>1. Types /\ Inv(p)
  BY DEF IInv
<1>2. PICK rest : rest = IF plan[p] = << >> THEN << >> ELSE Tail(plan[p])
  OBVIOUS
<1>3. rest \in Seq(Transaction)
  BY <1>1, <1>2, FirstFact
<1>4. plan' \in [Proc -> Seq(Transaction)] /\ plan'[p] = rest /\ \A q \in Proc \ {p} : plan'[q] = plan[q]
  BY <1>1, <1>2, <1>3 DEF Types
<1>5. /\ pc' \in [Proc -> {"idle", "open", "next", "make", "add", "store", "write"}]
      /\ pc'[p] = "next" /\ \A q \in Proc \ {p} : pc'[q] = pc[q]
  BY <1>1 DEF Types
<1>6. Types' /\ \A q \in Proc \ {p} : Same(q)
  BY <1>1, <1>4, <1>5 DEF Types, Same
<1>7. /\ \A type : Ahead(rest, type) = Ahead(plan[p], type)
      /\ UpdatesFollow(rest) /\ (rest # << >> => Head(rest).type = "UPDATE")
  BY <1>1, <1>2, AheadEnds DEF Inv
<1>8. (UpdatesFollow(plan[p]) /\ Unneeded(p) /\ LockFree(p) /\ Ordered(p))'
  BY <1>1, <1>4, <1>7 DEF Inv, Unneeded, LockFree, Ordered, Args, Has, Type
<1>9. Stage(p)'
  BY <1>1, <1>5 DEF Inv, Stage
<1> QED
  BY <1>5, <1>6, <1>8, <1>9 DEF Keeps, Inv

LEMMA EndTransactionStep ==
  ASSUME IInv, NEW p \in Proc, EndTransaction(p)
  PROVE  Keeps(p)
<1> USE DEF disk
<1>1. Types /\ Inv(p) /\ plan[p] # << >> /\ Names(p) = << >> /\ pc[p] = "next"
  BY DEF IInv, EndTransaction, TransactionDone
<1>2. CASE Type(p) = "REMOVE"
  <2>1. pc' = [pc EXCEPT ![p] = "store"] /\ UNCHANGED <<db, locked, logs, cmd, mine, known, plan, report, failed>>
    BY <1>2 DEF EndTransaction
  <2>2. /\ pc' \in [Proc -> {"idle", "open", "next", "make", "add", "store", "write"}]
        /\ pc'[p] = "store" /\ \A q \in Proc \ {p} : pc'[q] = pc[q]
    BY <1>1, <2>1 DEF Types
  <2>3. Types' /\ \A q \in Proc \ {p} : Same(q)
    BY <1>1, <2>1, <2>2 DEF Types, Same
  <2>4. (UpdatesFollow(plan[p]) /\ Unneeded(p) /\ LockFree(p) /\ Ordered(p))'
    BY <1>1, <2>1 DEF Inv, Unneeded, LockFree, Ordered, Args, Has, Type, Names
  <2>5. Stage(p)'
    BY <1>1, <1>2, <2>1, <2>2 DEF Inv, Stage, Type, Names, Name
  <2> QED
    BY <2>2, <2>3, <2>4, <2>5 DEF Keeps, Inv
<1>3. CASE Type(p) # "REMOVE"
  <2>1. plan' = [plan EXCEPT ![p] = Tail(@)] /\ UNCHANGED <<db, locked, logs, pc, cmd, mine, known, report, failed>>
    BY <1>3 DEF EndTransaction
  <2>2. plan' = [plan EXCEPT ![p] = IF @ = << >> THEN @ ELSE Tail(@)]
    BY <1>1, <2>1
  <2>3. pc' = [pc EXCEPT ![p] = "next"]
    BY <1>1, <2>1 DEF Types
  <2> QED
    BY <1>1, <2>1, <2>2, <2>3, TailStep DEF Types
<1> QED
  BY <1>2, <1>3

\* The database of locked packages is stored, or cannot be.
LEMMA StoreSteps ==
  ASSUME IInv, NEW p \in Proc, Truncate(p) \/ Write(p) \/ StoreFails(p)
  PROVE  Keeps(p)
<1> USE DEF disk
<1>1. /\ Types /\ Inv(p) /\ pc[p] \in {"store", "write"}
      /\ plan[p] = << >> \/ (Type(p) = "REMOVE" /\ Names(p) = << >>)
  BY DEF IInv, Inv, Stage, Truncate, Write, StoreFails
<1>2. CASE Truncate(p)
  <2>1. pc' = [pc EXCEPT ![p] = "write"] /\ locked' = {} /\ UNCHANGED <<db, logs, cmd, mine, known, plan, report, failed>>
    BY <1>2 DEF Truncate
  <2>2. /\ pc' \in [Proc -> {"idle", "open", "next", "make", "add", "store", "write"}]
        /\ pc'[p] = "write" /\ \A q \in Proc \ {p} : pc'[q] = pc[q]
    BY <1>1, <2>1 DEF Types
  <2>3. Types' /\ \A q \in Proc \ {p} : Same(q)
    BY <1>1, <2>1, <2>2 DEF Types, Same
  <2>4. (UpdatesFollow(plan[p]) /\ Unneeded(p) /\ LockFree(p) /\ Ordered(p))'
    BY <1>1, <2>1 DEF Inv, Unneeded, LockFree, Ordered, Args, Has, Type, Names
  <2>5. Stage(p)'
    BY <1>1, <2>1, <2>2 DEF Inv, Stage, Type, Names, Name
  <2> QED
    BY <2>2, <2>3, <2>4, <2>5 DEF Keeps, Inv
<1>3. CASE Write(p)
  <2>1. locked' \in SUBSET Pkg
    <3>1. PICK rest \in SUBSET (locked \ mine[p]) : locked' = mine[p] \union rest
      BY <1>3 DEF Write
    <3> QED
      BY <1>1, <3>1 DEF Types
  <2> QED
    BY <1>1, <1>3, <2>1, TailStep DEF Write, StoreDone, Types
<1>4. CASE StoreFails(p)
  <2>1. failed' \in [Proc -> BOOLEAN] /\ \A q \in Proc \ {p} : failed'[q] = failed[q]
    BY <1>1, <1>4 DEF StoreFails, Types
  <2> QED
    BY <1>1, <1>4, <2>1, TailStep DEF StoreFails, StoreDone, Types
<1> QED
  BY <1>2, <1>3, <1>4

\* An instance ends: its work is done, refused, or cut short by a signal.
LEMMA EndSteps ==
  ASSUME IInv, NEW p \in Proc, Refuse(p) \/ LockRefused(p) \/ Leave(p) \/ Signal(p)
  PROVE  Keeps(p)
<1>1. PICK bad \in BOOLEAN : Exit(p, bad)
  <2>1. (failed[p] \/ report[p] \intersect (Errors \X Pkg) # {}) \in BOOLEAN
    BY DEF IInv, Types
  <2> QED
    BY <2>1 DEF Refuse, LockRefused, Leave, Signal
<1>2. UNCHANGED <<disk, cmd, report>>
  BY DEF Refuse, LockRefused, Leave, Signal
<1> QED
  BY <1>1, <1>2, EndStep

-------------------------------------------------------------------------------
(* The invariant, and what it says.                                        *)

Step(p) ==
  \/ Start(p) \/ Open(p) \/ Refuse(p) \/ Lock(p) \/ Unlock(p) \/ LockRefused(p)
  \/ Ignored(p) \/ Missing(p) \/ AlreadyInstalled(p)
  \/ logFileCreate(p) \/ LogFails(p) \/ Made(p) \/ MakeFails(p)
  \/ Added(p) \/ AddFails(p) \/ AddLost(p) \/ Removed(p) \/ RemoveFails(p)
  \/ EndTransaction(p) \/ Truncate(p) \/ Write(p) \/ StoreFails(p)
  \/ Leave(p) \/ Signal(p)

LEMMA StepKeeps ==
  ASSUME IInv, NEW p \in Proc, Step(p)
  PROVE  Keeps(p)
BY StartStep, OpenStep, LockSteps, EndSteps, PassSteps, logFileCreateStep, MakeSteps, AddSteps,
   RemoveSteps, EndTransactionStep, StoreSteps DEF Step

\* Initially no instance is at work.
LEMMA Initially == ASSUME Init PROVE IInv
<1>1. Types
  BY PkgmanAssumption DEF Init, Types, Blank, Version
<1>2. ASSUME NEW p \in Proc PROVE Inv(p)
  <2>1. pc[p] = "idle" /\ plan[p] = << >>
    BY DEF Init
  <2> QED
    BY <2>1, EmptyPlan DEF Inv, Stage
<1> QED
  BY <1>1, <1>2 DEF IInv

LEMMA Preserved == IInv /\ [Next]_vars => IInv'
<1>1. ASSUME IInv, NEW p \in Proc, Step(p) PROVE IInv'
  <2>1. Types' /\ Inv(p)' /\ \A q \in Proc \ {p} : Same(q)
    BY <1>1, StepKeeps DEF Keeps
  <2>2. \A q \in Proc : Inv(q)
    BY <1>1 DEF IInv
  <2>3. \A q \in Proc \ {p} : Inv(q)'
    BY <2>1, <2>2, SameInv
  <2> QED
    BY <2>1, <2>3 DEF IInv
<1>2. ASSUME IInv, UNCHANGED vars PROVE IInv'
  <2>1. \A q \in Proc : Same(q)
    BY <1>2 DEF vars, Same
  <2>2. Types'
    BY <1>2 DEF vars, IInv, Types
  <2> QED
    BY <1>2, <2>1, <2>2, SameInv DEF IInv
<1> QED
  BY <1>1, <1>2 DEF Next, Step

\* Every instance keeps to its plan, wherever it is: what the theorems below
\* rest on.
THEOREM Invariant == Spec => []IInv
BY Initially, Preserved, PTL DEF Spec

\* Whatever happens to the children, the databases and the other instances,
\* each instance keeps its types, has a package at hand where it builds and
\* adds, and stores locked packages only after a removal or setLock.
THEOREM TypeCorrect == Spec => []TypeOK
<1>1. IInv => TypeOK
  BY DEF IInv, Inv, Types, Stage, TypeOK, Entry
<1> QED
  BY <1>1, Invariant, PTL

\* sysup, without --all, adds no package that was locked when it started,
\* whatever the others lock and unlock meanwhile.
THEOREM LocksKept == Spec => []LockedKept
<1>1. IInv => LockedKept
  <2> SUFFICES ASSUME IInv, NEW p \in Proc, pc[p] = "add", cmd[p].op = "sysup",
                      Type(p) = "UPDATE", ~ Has(p, "all")
               PROVE  Name(p) \notin mine[p]
    BY DEF LockedKept
  <2>1. Types /\ plan[p] # << >> /\ Names(p) # << >> /\ LockFree(p)
    BY DEF IInv, Inv, Stage
  <2>2. Names(p) \in Seq(Pkg) /\ plan[p] \in Seq(Transaction) /\ Name(p) \in Pkg
    BY <2>1, FirstFact
  <2>3. Name(p) \in SeqSet(Names(p))
    BY <2>1, <2>2 DEF Name, SeqSet
  <2>4. 1 \in DOMAIN plan[p] /\ plan[p][1].type = Type(p) /\ plan[p][1].names = Names(p)
    BY <2>1, <2>2 DEF Type, Names
  <2>5. Name(p) \in Ahead(plan[p], "UPDATE")
    BY <2>2, <2>3, <2>4 DEF Ahead
  <2> QED
    BY <2>1, <2>5 DEF LockFree
<1> QED
  BY <1>1, Invariant, PTL

\* remove --deps takes along only what no installed package needs but those
\* that were to be removed.
THEOREM RemovalsSafe == Spec => []RemovableSafe
<1>1. IInv => RemovableSafe
  <2> SUFFICES ASSUME IInv, NEW p \in Proc, plan[p] # << >>, Type(p) = "REMOVE",
                      NEW x \in SeqSet(Names(p)) \ Args(p), NEW y \in Repo,
                      known[p][y] # "none", x \in Needs[y]
               PROVE  y \in Args(p)
    BY DEF RemovableSafe
  <2>1. Types /\ Unneeded(p)
    BY DEF IInv, Inv
  <2>2. Names(p) \in Seq(Pkg) /\ plan[p] \in Seq(Transaction)
    BY <2>1, FirstFact
  <2>3. x \in Pkg
    BY <2>2, SetBound
  <2>4. 1 \in DOMAIN plan[p] /\ plan[p][1].type = Type(p) /\ plan[p][1].names = Names(p)
    BY <2>2 DEF Type, Names
  <2>5. x \in Ahead(plan[p], "REMOVE")
    BY <2>3, <2>4 DEF Ahead
  <2> QED
    BY <2>1, <2>5 DEF Unneeded
<1> QED
  BY <1>1, Invariant, PTL

\* With --deps and --group no package is added before what it needs: not when
\* an earlier package fails, is passed by, or is there already.
THEOREM OrderKept == Spec => []GroupOrder
<1>1. IInv => GroupOrder
  <2> SUFFICES ASSUME IInv, NEW p \in Proc, pc[p] = "add", {"deps", "group"} \subseteq cmd[p].opts,
                      Type(p) = "INSTALL",
                      NEW x \in (Needs[Name(p)] \intersect Repo) \ ({Name(p)} \union cmd[p].ignore)
               PROVE  known[p][x] # "none" \/ <<"installed", x>> \in report[p]
    BY DEF GroupOrder
  <2>1. Types /\ Ordered(p) /\ ~ Has(p, "do") /\ plan[p] # << >> /\ Names(p) # << >>
    BY DEF IInv, Inv, Stage
  <2>2. Names(p) \in Seq(Pkg)
    BY <2>1, FirstFact
  <2>3. 1 \in DOMAIN Names(p) /\ Names(p)[1] = Name(p) /\ \A j \in DOMAIN Names(p) : ~ (j < 1)
    BY <2>1, <2>2 DEF Name
  <2> QED
    BY <2>1, <2>3 DEF Ordered
<1> QED
  BY <1>1, Invariant, PTL

Changes(x) ==
  db'[x] # db[x] =>
    \E p \in Proc :
      /\ plan[p] # << >> /\ Names(p) # << >> /\ Name(p) = x
      /\ Type(p) = "INSTALL" <=> db[x] = "none"

\* Whatever an instance does to the database is what its plan says.
LEMMA Authorised ==
  ASSUME IInv, NEW p \in Proc, Step(p)
  PROVE  \A x \in Pkg : Changes(x)
<1> USE DEF disk
<1>1. CASE Added(p) \/ AddFails(p)
  <2> SUFFICES ASSUME NEW x \in Pkg, db'[x] # db[x]
               PROVE  /\ plan[p] # << >> /\ Names(p) # << >> /\ Name(p) = x
                      /\ Type(p) = "INSTALL" <=> db[x] = "none"
    BY DEF Changes
  <2>1. Accepts(p) /\ db' = [db EXCEPT ![Name(p)] = "new"]
    BY <1>1 DEF Added, AddFails
  <2>2. Name(p) = x
    BY <2>1 DEF IInv, Types
  <2>3. plan[p] # << >> /\ Names(p) # << >> /\ Type(p) \in {"INSTALL", "UPDATE"}
    BY <1>1, FirstFact DEF Added, AddFails, IInv, Inv, Stage
  <2>4. IsInstalled(x) <=> Type(p) = "UPDATE"
    BY <2>1, <2>2 DEF Accepts
  <2> QED
    BY <2>2, <2>3, <2>4 DEF IsInstalled
<1>2. CASE Removed(p)
  <2> SUFFICES ASSUME NEW x \in Pkg, db'[x] # db[x]
               PROVE  /\ plan[p] # << >> /\ Names(p) # << >> /\ Name(p) = x
                      /\ Type(p) = "INSTALL" <=> db[x] = "none"
    BY DEF Changes
  <2>1. IsInstalled(Name(p)) /\ db' = [db EXCEPT ![Name(p)] = "none"]
    BY <1>2 DEF Removed
  <2>2. Name(p) = x
    BY <2>1 DEF IInv, Types
  <2>3. plan[p] # << >> /\ Names(p) # << >> /\ Type(p) = "REMOVE"
    BY <1>2 DEF Removed, ToRemove, InLoop
  <2> QED
    BY <2>1, <2>2, <2>3 DEF IsInstalled
<1>3. CASE ~ Added(p) /\ ~ AddFails(p) /\ ~ Removed(p)
  <2>1. db' = db
    BY <1>3 DEF Step, Start, Open, Refuse, Lock, Unlock, LockRefused, Ignored, Missing,
         AlreadyInstalled, logFileCreate, LogFails, Made, MakeFails, AddLost,
         RemoveFails, EndTransaction, Truncate, Write, StoreFails, Leave, Signal
  <2> QED
    BY <2>1 DEF Changes
<1> QED
  BY <1>1, <1>2, <1>3

\* pkgadd and pkgman, the stale copy included: however many instances run,
\* an installed package changes only where an instance updates or removes it,
\* and a package comes into the database only where one installs it.
THEOREM KeepsInstalled == Spec => InstallKeeps
<1>1. IInv /\ [Next]_vars => [\A x \in Pkg : Changes(x)]_db
  <2>1. ASSUME IInv, Next PROVE \A x \in Pkg : Changes(x)
    BY <2>1, Authorised DEF Next, Step
  <2>2. ASSUME UNCHANGED vars PROVE db' = db
    BY <2>2 DEF vars
  <2> QED
    BY <2>1, <2>2
<1>2. [][\A x \in Pkg : Changes(x)]_db <=> InstallKeeps
  BY DEF InstallKeeps, Changes
<1> QED
  BY <1>1, <1>2, Invariant, PTL DEF Spec

-------------------------------------------------------------------------------
(* What an exit status of 0 means, when one instance runs.                 *)

\* Removals are the work of remove, and with setLock all that is stored.
Fits(p) ==
  /\ \A k \in DOMAIN plan[p] : plan[p][k].type = "REMOVE" <=> cmd[p].op = "remove"
  /\ pc[p] \in {"store", "write"} =>
       cmd[p].op \in {"lock", "unlock"} \/ (cmd[p].op = "remove" /\ plan[p] # << >>)
  /\ pc[p] # "idle" /\ pc[p] # "open" /\ cmd[p].op \in {"lock", "unlock"} => plan[p] = << >>

\* The instance's copies, as far as the databases still agree with them.
Current(p) ==
  /\ pc[p] = "open" \/ (pc[p] # "idle" /\ cmd[p].op \in {"install", "update", "sysup"}) =>
       mine[p] = locked
  /\ pc[p] \in {"next", "make", "add"} /\ cmd[p].op \in {"install", "update", "sysup"} =>
       \A x \in Pkg : known[p][x] # "none" => db[x] # "none"
  /\ pc[p] = "write" => locked = {}
  /\ pc[p] = "next" /\ plan[p] = << >> /\ ~ failed[p] /\ cmd[p].op \in {"lock", "unlock", "remove"} =>
       mine[p] = locked

\* Nothing has gone wrong, and the command is to do something.
Clean(p) ==
  /\ ~ failed[p] /\ \A l \in Errors : \A x \in Pkg : <<l, x>> \notin report[p]
  /\ "test" \notin cmd[p].opts /\ "do" \notin cmd[p].opts

Wanted(p) == IF Has(p, "deps") THEN Closure(Args(p)) ELSE Args(p)

\* What the command is to do is done or ahead of it.
OnTheWay(p) ==
  pc[p] \notin {"idle", "open"} /\ Clean(p) =>
    /\ cmd[p].op = "install" =>
         \A x \in Wanted(p) \ cmd[p].ignore : db[x] # "none" \/ x \in Ahead(plan[p], "INSTALL")
    /\ cmd[p].op = "update" =>
         \A x \in Args(p) \ cmd[p].ignore : db[x] = "new" \/ x \in Ahead(plan[p], "UPDATE")
    /\ cmd[p].op = "remove" =>
         \A x \in Args(p) \ cmd[p].ignore :
           (db[x] = "none" /\ x \notin mine[p]) \/ x \in Ahead(plan[p], "REMOVE")
    /\ cmd[p].op = "sysup" =>
         \A x \in Repo \ cmd[p].ignore : db[x] = "old" =>
           (x \in mine[p] /\ ~ Has(p, "all")) \/ x \in Ahead(plan[p], "UPDATE")
    /\ cmd[p].op = "lock" => Args(p) \subseteq mine[p]
    /\ cmd[p].op = "unlock" => Args(p) \intersect mine[p] = {}

\* What the command was to do is done.
Done(p) ==
  pc[p] = "idle" /\ ~ failed[p] /\ cmd[p].opts \intersect {"test", "do"} = {} =>
    /\ cmd[p].op = "install" =>
         IF "deps" \in cmd[p].opts
         THEN \A x \in Closure(Args(p)) \ cmd[p].ignore : IsInstalled(x)
         ELSE \A x \in Args(p) \ cmd[p].ignore : IsInstalled(x)
    /\ cmd[p].op = "update" => \A x \in Args(p) \ cmd[p].ignore : db[x] = "new"
    /\ cmd[p].op = "remove" =>
         \A x \in Args(p) \ cmd[p].ignore : ~ IsInstalled(x) /\ x \notin locked
    /\ cmd[p].op = "sysup" =>
         \A x \in Repo \ cmd[p].ignore :
           db[x] = "old" => x \in locked /\ "all" \notin cmd[p].opts
    /\ cmd[p].op = "lock" => Args(p) \ cmd[p].ignore \subseteq locked
    /\ cmd[p].op = "unlock" => (Args(p) \ cmd[p].ignore) \intersect locked = {}

Duty(p) == Fits(p) /\ Current(p) /\ OnTheWay(p) /\ Done(p)

\* One instance, whose children are not lost and whose locks can be written.
Single(p) == Proc = {p} /\ Faults \intersect {"lost", "store"} = {}

\* The plan when a transaction goes on or is taken off.
Onward(p, new) ==
  \/ new = Tail(plan[p])
  \/ \E rest \in Transaction : rest.type = Type(p) /\ new = <<rest>> \o Tail(plan[p])

\* The types of transactions only become fewer.
LEMMA TypesRemain ==
  ASSUME Types, NEW p \in Proc, plan[p] # << >>, NEW new, Onward(p, new)
  PROVE  \A k \in DOMAIN new : \E m \in DOMAIN plan[p] : new[k].type = plan[p][m].type
<1> DEFINE s == plan[p]
<1>1. s \in Seq(Transaction) /\ s # << >> /\ s[1].type = Type(p) /\ 1 \in DOMAIN s
  BY FirstFact DEF Type
<1>2. new = Tail(s) \/ \E rest \in Transaction : rest.type = Type(p) /\ new = <<rest>> \o Tail(s)
  BY DEF Onward
<1> HIDE DEF s
<1>3. CASE new = Tail(s)
  <2>1. ASSUME NEW k \in DOMAIN new PROVE k + 1 \in DOMAIN s /\ new[k] = s[k + 1]
    BY <1>1, <1>3
  <2> QED
    BY <2>1 DEF s
<1>4. CASE new # Tail(s)
  <2> PICK rest \in Transaction : rest.type = Type(p) /\ new = <<rest>> \o Tail(s)
    BY <1>2, <1>4
  <2>1. ASSUME NEW k \in DOMAIN new PROVE k \in DOMAIN s /\ new[k].type = s[k].type
    <3>1. CASE k = 1
      BY <1>1, <1>4, <3>1
    <3>2. CASE k # 1
      BY <1>1, <1>4, <2>1, <3>2
    <3> QED
      BY <3>1, <3>2
  <2> QED
    BY <2>1 DEF s
<1> QED
  BY <1>3, <1>4

\* Going on, and taking off a transaction, fit.
LEMMA FitsProceeds ==
  ASSUME Types, NEW p \in Proc, Fits(p), plan[p] # << >>, cmd'[p] = cmd[p], pc'[p] = "next",
         pc[p] \notin {"idle", "open"}, NEW new, Onward(p, new), plan'[p] = new
  PROVE  Fits(p)'
<1>1. \A k \in DOMAIN new : \E m \in DOMAIN plan[p] : new[k].type = plan[p][m].type
  BY TypesRemain
<1>2. cmd[p].op \notin {"lock", "unlock"}
  BY DEF Fits
<1> QED
  BY <1>1, <1>2 DEF Fits

\* What going on to the next package leaves of a plan.
LEMMA ProceedOnward ==
  ASSUME Types, NEW p \in Proc, plan[p] # << >>, Names(p) # << >>,
         NEW lists \in SUBSET List, NEW stop \in BOOLEAN, Proceed(p, lists, stop),
         NEW new, new = plan'[p]
  PROVE  Onward(p, new) /\ pc'[p] = "next" /\ (~ stop => new # << >>)
<1>1. pc'[p] = "next"
  BY ProceedFact
<1>2. plan'[p] = IF stop THEN Tail(plan[p])
                 ELSE <<[type |-> Type(p), names |-> Tail(Names(p))]>> \o Tail(plan[p])
  BY ProceedFact
<1> PICK rest : rest = [type |-> Type(p), names |-> Tail(Names(p))]
  OBVIOUS
<1>3. rest \in Transaction /\ rest.type = Type(p)
  BY FirstFact DEF Transaction
<1>4. Tail(plan[p]) \in Seq(Transaction)
  BY FirstFact
<1>5. new = IF stop THEN Tail(plan[p]) ELSE <<rest>> \o Tail(plan[p])
  BY <1>2
<1>6. ~ stop => new # << >>
  BY <1>3, <1>4, <1>5
<1> QED
  BY <1>1, <1>3, <1>5, <1>6 DEF Onward

\* The actions that go on to the next package.
GoesOn(p) ==
  /\ plan[p] # << >> /\ Names(p) # << >> /\ pc[p] \notin {"idle", "open"}
  /\ \E lists \in SUBSET List, stop \in BOOLEAN : Proceed(p, lists, stop)

LEMMA GoingOn ==
  ASSUME IInv, NEW p \in Proc,
         \/ Ignored(p) \/ Missing(p) \/ AlreadyInstalled(p) \/ LogFails(p) \/ (Made(p) /\ Has(p, "do"))
         \/ MakeFails(p) \/ Added(p) \/ AddFails(p) \/ AddLost(p) \/ Removed(p) \/ RemoveFails(p)
  PROVE  GoesOn(p) /\ cmd' = cmd /\ known' = known /\ locked' = locked
<1> USE DEF disk
<1>1. plan[p] # << >> /\ Names(p) # << >> /\ pc[p] \in {"next", "make", "add"}
  BY DEF IInv, Inv, Stage, Ignored, Missing, AlreadyInstalled, LogFails, Made, MakeFails, Added,
     AddFails, AddLost, Removed, RemoveFails, ToMake, ToRemove, InLoop
<1>2. cmd' = cmd /\ known' = known /\ locked' = locked
  BY DEF Ignored, Missing, AlreadyInstalled, LogFails, Made, MakeFails, Added, AddFails, AddLost,
     Removed, RemoveFails
<1>3. \A l \in List : {l} \in SUBSET List
  OBVIOUS
<1>4. {"ignored", "missing", "alreadyInstalled", "downloadFailed", "buildFailed", "installed",
       "installFailed", "removed", "removeFailed"} \subseteq List
  BY DEF List, Errors
<1>5. Has(p, "group") \in BOOLEAN
  BY DEF Has
<1>6. \E lists \in SUBSET List, stop \in BOOLEAN : Proceed(p, lists, stop)
  <2>1. CASE Ignored(p) \/ Missing(p) \/ AlreadyInstalled(p) \/ LogFails(p) \/ (Made(p) /\ Has(p, "do"))
    BY <1>3, <1>4, <1>5, <2>1 DEF Ignored, Missing, AlreadyInstalled, LogFails, Made
  <2>2. CASE MakeFails(p)
    BY <1>3, <1>4, <1>5, <2>2 DEF MakeFails
  <2>3. CASE Added(p) \/ AddFails(p) \/ AddLost(p)
    BY <1>3, <1>4, <1>5, <2>3 DEF Added, AddFails, AddLost
  <2>4. CASE Removed(p) \/ RemoveFails(p)
    BY <1>3, <1>4, <1>5, <2>4 DEF Removed, RemoveFails
  <2> QED
    BY <2>1, <2>2, <2>3, <2>4
<1> QED
  BY <1>1, <1>2, <1>6 DEF GoesOn

LEMMA FitsStep ==
  ASSUME IInv, NEW p \in Proc, Fits(p), Step(p)
  PROVE  Fits(p)'
<1> USE DEF disk
<1>1. Types /\ Inv(p)
  BY DEF IInv
<1>2. CASE Start(p)
  <2>1. plan'[p] = << >> /\ pc'[p] = "open"
    BY <1>1, <1>2 DEF Start, Inv, Stage, Types
  <2> QED
    BY <2>1 DEF Fits
<1>3. CASE Refuse(p) \/ LockRefused(p) \/ Leave(p) \/ Signal(p)
  <2>1. plan'[p] = << >> /\ pc'[p] = "idle"
    BY <1>1, <1>3 DEF Refuse, LockRefused, Leave, Signal, Exit, Types
  <2> QED
    BY <2>1 DEF Fits
<1>4. CASE Open(p)
  <2>1. cmd[p] \in Command /\ cmd[p].op \notin {"lock", "unlock"}
    BY <1>1, <1>4 DEF Open, Inv, Stage
  <2>2. PICK steps \in Plans(p) : plan' = [plan EXCEPT ![p] = steps]
    BY <1>4 DEF Open
  <2>3. \A k \in DOMAIN steps : steps[k].type = "REMOVE" <=> cmd[p].op = "remove"
    BY <2>1, PlansFact
  <2>4. plan'[p] = steps /\ pc'[p] = "next" /\ cmd' = cmd
    BY <1>1, <1>4, <2>2 DEF Types, Open
  <2> QED
    BY <2>1, <2>3, <2>4 DEF Fits
<1>5. CASE Lock(p) \/ Unlock(p)
  <2>1. plan'[p] = << >> /\ pc'[p] = "store" /\ cmd' = cmd /\ cmd[p].op \in {"lock", "unlock"}
    BY <1>1, <1>5 DEF Lock, Unlock, Inv, Stage, Types
  <2> QED
    BY <2>1 DEF Fits
<1>6. CASE logFileCreate(p) \/ (Made(p) /\ ~ Has(p, "do"))
  <2>1. /\ plan' = plan /\ pc'[p] \in {"make", "add"} /\ cmd' = cmd
        /\ pc[p] \in {"next", "make"}
    BY <1>1, <1>6 DEF logFileCreate, ToMake, InLoop, Made, Types
  <2> QED
    BY <2>1 DEF Fits
<1>7. CASE GoesOn(p) /\ cmd' = cmd
  <2>1. PICK lists \in SUBSET List, stop \in BOOLEAN : Proceed(p, lists, stop)
    BY <1>7 DEF GoesOn
  <2> PICK new : new = plan'[p]
    OBVIOUS
  <2>2. Onward(p, new) /\ pc'[p] = "next"
    BY <1>1, <1>7, <2>1, ProceedOnward DEF GoesOn
  <2> QED
    BY <1>1, <1>7, <2>2, FitsProceeds DEF GoesOn
<1>8. CASE EndTransaction(p)
  <2>1. plan[p] # << >> /\ pc[p] = "next" /\ cmd' = cmd
    BY <1>8 DEF EndTransaction, TransactionDone
  <2>2. CASE Type(p) = "REMOVE"
    <3>1. 1 \in DOMAIN plan[p] /\ plan[p][1].type = "REMOVE"
      BY <1>1, <2>1, <2>2, FirstFact DEF Type
    <3>2. cmd[p].op = "remove"
      BY <3>1 DEF Fits
    <3>3. pc'[p] = "store" /\ plan' = plan
      BY <1>1, <1>8, <2>2 DEF EndTransaction, Types
    <3> QED
      BY <2>1, <3>2, <3>3 DEF Fits
  <2>3. CASE Type(p) # "REMOVE"
    <3> PICK new : new = Tail(plan[p])
      OBVIOUS
    <3>1. plan'[p] = new /\ pc'[p] = "next" /\ Onward(p, new)
      BY <1>1, <1>8, <2>1, <2>3 DEF EndTransaction, Types, Onward
    <3> QED
      BY <1>1, <2>1, <3>1, FitsProceeds
  <2> QED
    BY <2>2, <2>3
<1>9. CASE Truncate(p)
  <2>1. plan' = plan /\ pc'[p] = "write" /\ cmd' = cmd /\ pc[p] = "store"
    BY <1>1, <1>9 DEF Truncate, Types
  <2> QED
    BY <2>1 DEF Fits
<1>10. CASE Write(p) \/ StoreFails(p)
  <2>1. /\ plan'[p] = IF plan[p] = << >> THEN plan[p] ELSE Tail(plan[p])
        /\ pc'[p] = "next" /\ cmd' = cmd /\ pc[p] \in {"store", "write"}
    BY <1>1, <1>10 DEF Write, StoreFails, StoreDone, Types
  <2>2. CASE plan[p] = << >>
    BY <2>1, <2>2 DEF Fits
  <2>3. CASE plan[p] # << >>
    <3> PICK new : new = Tail(plan[p])
      OBVIOUS
    <3>1. plan'[p] = new /\ Onward(p, new)
      BY <2>1, <2>3 DEF Onward
    <3> QED
      BY <1>1, <2>1, <2>3, <3>1, FitsProceeds
  <2> QED
    BY <2>2, <2>3
<1> QED
  BY <1>2, <1>3, <1>4, <1>5, <1>6, <1>7, <1>8, <1>9, <1>10, GoingOn DEF Step

\* A removal is the work of remove.
LEMMA RemoveFits ==
  ASSUME Types, NEW p \in Proc, Fits(p), plan[p] # << >>
  PROVE  Type(p) = "REMOVE" <=> cmd[p].op = "remove"
<1>1. 1 \in DOMAIN plan[p] /\ plan[p][1].type = Type(p)
  BY FirstFact DEF Type
<1> QED
  BY <1>1 DEF Fits

LEMMA CurrentStep ==
  ASSUME IInv, NEW p \in Proc, Single(p), Fits(p), Current(p), Step(p)
  PROVE  Current(p)'
<1> USE DEF disk
<1>1. Types /\ Inv(p) /\ "lost" \notin Faults /\ "store" \notin Faults
  BY DEF IInv, Single
<1>2. CASE Start(p)
  <2>1. mine'[p] = locked /\ locked' = locked /\ pc'[p] = "open"
    BY <1>1, <1>2 DEF Start, Types
  <2> QED
    BY <2>1 DEF Current
<1>3. CASE Refuse(p) \/ LockRefused(p) \/ Leave(p) \/ Signal(p)
  <2>1. pc'[p] = "idle"
    BY <1>1, <1>3 DEF Refuse, LockRefused, Leave, Signal, Exit, Types
  <2> QED
    BY <2>1 DEF Current
<1>4. CASE Open(p)
  <2>1. pc[p] = "open" /\ pc'[p] = "next" /\ known'[p] = db /\ UNCHANGED <<db, locked, cmd, mine, failed>>
    BY <1>1, <1>4 DEF Open, Types
  <2> QED
    BY <2>1 DEF Current
<1>5. CASE Lock(p) \/ Unlock(p)
  <2>1. pc'[p] = "store" /\ cmd' = cmd /\ cmd[p].op \in {"lock", "unlock"}
    BY <1>1, <1>5 DEF Lock, Unlock, Types
  <2> QED
    BY <2>1 DEF Current
<1>6. CASE logFileCreate(p) \/ (Made(p) /\ ~ Has(p, "do"))
  <2>1. /\ UNCHANGED <<db, locked, cmd, mine, known>> /\ pc'[p] \in {"make", "add"}
        /\ pc[p] \in {"next", "make"}
    BY <1>1, <1>6 DEF logFileCreate, ToMake, InLoop, Made, Types
  <2> QED
    BY <2>1 DEF Current
<1>7. CASE GoesOn(p) /\ cmd' = cmd /\ known' = known /\ locked' = locked
           /\ \/ cmd[p].op = "remove"
              \/ (mine' = mine /\ (db' = db \/ db' = [db EXCEPT ![Name(p)] = "new"]))
  <2>1. PICK lists \in SUBSET List, stop \in BOOLEAN : Proceed(p, lists, stop)
    BY <1>7 DEF GoesOn
  <2> PICK new : new = plan'[p]
    OBVIOUS
  <2>2. pc'[p] = "next" /\ (~ stop => new # << >>)
    BY <1>1, <1>7, <2>1, ProceedOnward DEF GoesOn
  <2>3. stop => failed'[p]
    BY <1>1, <1>7, <2>1, ProceedFact DEF GoesOn
  <2>4. pc[p] \in {"next", "make", "add"} /\ cmd[p].op \notin {"lock", "unlock"}
    BY <1>1, <1>7 DEF GoesOn, Fits, Inv, Stage, Types
  <2>5. CASE cmd[p].op = "remove"
    BY <1>7, <2>2, <2>3, <2>5 DEF Current
  <2>6. CASE cmd[p].op # "remove"
    <3>1. \A x \in Pkg : db[x] # "none" => db'[x] # "none"
      BY <1>1, <1>7, <2>6 DEF Types
    <3> QED
      BY <1>7, <2>2, <2>4, <2>6, <3>1 DEF Current
  <2> QED
    BY <2>5, <2>6
<1>8. CASE EndTransaction(p)
  <2>1. /\ plan[p] # << >> /\ pc[p] = "next" /\ UNCHANGED <<db, locked, cmd, mine, known, failed>>
        /\ IF Type(p) = "REMOVE" THEN pc' = [pc EXCEPT ![p] = "store"] ELSE pc' = pc
    BY <1>8 DEF EndTransaction, TransactionDone
  <2>2. cmd[p].op \notin {"lock", "unlock"} /\ (Type(p) = "REMOVE" <=> cmd[p].op = "remove")
    BY <1>1, <2>1, RemoveFits DEF Fits
  <2>3. pc'[p] = IF cmd[p].op = "remove" THEN "store" ELSE "next"
    BY <1>1, <2>1, <2>2 DEF Types
  <2> QED
    BY <2>1, <2>2, <2>3 DEF Current
<1>9. CASE Truncate(p)
  <2>1. /\ cmd' = cmd /\ pc[p] = "store" /\ pc'[p] = "write" /\ locked' = {}
    BY <1>1, <1>9 DEF Truncate, Types
  <2>2. cmd[p].op \in {"lock", "unlock", "remove"}
    BY <2>1 DEF Fits
  <2> QED
    BY <2>1, <2>2 DEF Current
<1>10. CASE Write(p)
  <2>1. cmd' = cmd /\ mine' = mine /\ pc[p] = "write" /\ pc'[p] = "next"
    BY <1>1, <1>10 DEF Write, StoreDone, Types
  <2>2. locked = {} /\ cmd[p].op \in {"lock", "unlock", "remove"}
    BY <2>1 DEF Current, Fits
  <2>3. locked' = mine[p]
    BY <1>10, <2>2 DEF Write
  <2> QED
    BY <2>1, <2>2, <2>3 DEF Current
<1>11. ~ StoreFails(p)
  BY <1>1 DEF StoreFails
<1>12. ASSUME GoesOn(p),
              Ignored(p) \/ Missing(p) \/ AlreadyInstalled(p) \/ LogFails(p) \/ Made(p) \/ MakeFails(p)
                \/ Added(p) \/ AddFails(p) \/ AddLost(p) \/ Removed(p) \/ RemoveFails(p)
       PROVE  \/ cmd[p].op = "remove"
              \/ (mine' = mine /\ (db' = db \/ db' = [db EXCEPT ![Name(p)] = "new"]))
  <2>1. CASE Removed(p) \/ RemoveFails(p)
    <3>1. plan[p] # << >> /\ Type(p) = "REMOVE"
      BY <1>12, <2>1 DEF Removed, RemoveFails, ToRemove, GoesOn
    <3>2. Type(p) = "REMOVE" <=> cmd[p].op = "remove"
      BY <1>1, <3>1, RemoveFits
    <3> QED
      BY <3>1, <3>2
  <2>2. CASE ~ Removed(p) /\ ~ RemoveFails(p)
    BY <1>12, <2>2 DEF Ignored, Missing, AlreadyInstalled, LogFails, Made, MakeFails, Added, AddFails, AddLost
  <2> QED
    BY <2>1, <2>2
<1> QED
  BY <1>2, <1>3, <1>4, <1>5, <1>6, <1>7, <1>8, <1>9, <1>10, <1>11, <1>12, GoingOn DEF Step

\* Going on without an error: the transaction was not given up, and none of
\* the lists counts as one.
LEMMA CleanProceeds ==
  ASSUME Types, NEW p \in Proc, plan[p] # << >>, Names(p) # << >>, cmd' = cmd,
         NEW lists \in SUBSET List, NEW stop \in BOOLEAN, Proceed(p, lists, stop), Clean(p)'
  PROVE  Clean(p) /\ ~ stop /\ lists \intersect Errors = {}
<1>1. /\ report[p] \subseteq report'[p] /\ \A l \in lists : <<l, Name(p)>> \in report'[p]
      /\ failed'[p] <=> (failed[p] \/ stop)
  BY ProceedFact
<1>2. Name(p) \in Pkg
  BY FirstFact
<1>3. ~ failed'[p] /\ \A l \in Errors : \A x \in Pkg : <<l, x>> \notin report'[p]
  BY DEF Clean
<1>4. "test" \notin cmd[p].opts /\ "do" \notin cmd[p].opts
  BY DEF Clean
<1> QED
  BY <1>1, <1>2, <1>3, <1>4 DEF Clean

\* What has become of the package at hand when nothing has gone wrong.
Delivered(p) ==
  \/ db' = db /\ mine' = mine /\ Name(p) \in cmd[p].ignore
  \/ db' = db /\ mine' = mine /\ Type(p) = "INSTALL" /\ db[Name(p)] # "none"
  \/ db' = [db EXCEPT ![Name(p)] = "new"] /\ mine' = mine /\ cmd[p].op # "remove"
  \/ /\ db' = [db EXCEPT ![Name(p)] = "none"] /\ mine' = [mine EXCEPT ![p] = @ \ {Name(p)}]
     /\ cmd[p].op = "remove"

LEMMA Delivery ==
  ASSUME IInv, NEW p \in Proc, Single(p), Fits(p), Current(p), Clean(p)', GoesOn(p), cmd' = cmd,
         \/ Ignored(p) \/ Missing(p) \/ AlreadyInstalled(p) \/ LogFails(p) \/ (Made(p) /\ Has(p, "do"))
         \/ MakeFails(p) \/ Added(p) \/ AddFails(p) \/ AddLost(p) \/ Removed(p) \/ RemoveFails(p)
  PROVE  Delivered(p)
<1> USE DEF disk
<1>1. /\ Types /\ Inv(p) /\ plan[p] # << >> /\ Names(p) # << >> /\ Name(p) \in Pkg
      /\ Type(p) \in {"INSTALL", "UPDATE", "REMOVE"}
  BY FirstFact DEF IInv, GoesOn
<1>2. "lost" \notin Faults
  BY DEF Single
<1>3. ~ Has(p, "test") /\ ~ Has(p, "do")
  BY DEF Clean, Has
<1>4. ASSUME NEW lists \in SUBSET List, NEW stop \in BOOLEAN, Proceed(p, lists, stop)
      PROVE  ~ stop /\ lists \intersect Errors = {}
  BY <1>1, <1>4, CleanProceeds
<1>5. /\ \A l \in Errors : {l} \in SUBSET List
      /\ {"missing", "downloadFailed", "buildFailed", "installFailed", "removeFailed"} \subseteq Errors
      /\ Has(p, "group") \in BOOLEAN
  BY DEF List, Errors, Has
<1>6. \A l \in Errors : \A stop \in BOOLEAN : ~ Proceed(p, {l}, stop)
  BY <1>4, <1>5
<1>7. Type(p) = "REMOVE" <=> cmd[p].op = "remove"
  BY <1>1, RemoveFits
<1>8. ~ Missing(p) /\ ~ AddFails(p) /\ ~ RemoveFails(p) /\ ~ AddLost(p) /\ ~ (Made(p) /\ Has(p, "do"))
  BY <1>2, <1>3, <1>5, <1>6 DEF Missing, AddFails, RemoveFails, AddLost
<1>9. ~ MakeFails(p)
  BY <1>3, <1>5, <1>6 DEF MakeFails
<1>10. ~ LogFails(p)
  <2>1. ~ Proceed(p, {}, TRUE)
    BY <1>4
  <2> QED
    BY <2>1 DEF LogFails
<1>11. CASE Ignored(p)
  BY <1>11 DEF Ignored, Delivered
<1>12. CASE AlreadyInstalled(p)
  <2>1. /\ known[p][Name(p)] # "none" /\ Type(p) = "INSTALL" /\ pc[p] = "next" /\ db' = db /\ mine' = mine
    BY <1>12 DEF AlreadyInstalled, InLoop
  <2>2. cmd[p].op \in {"install", "update", "sysup"}
    <3>1. cmd[p].op \in Op
      BY <1>1, <2>1, CmdFact DEF Inv, Stage
    <3>2. cmd[p].op \notin {"lock", "unlock"}
      BY <1>1, <2>1 DEF Fits
    <3> QED
      BY <1>7, <2>1, <3>1, <3>2 DEF Op
  <2>3. db[Name(p)] # "none"
    BY <1>1, <2>1, <2>2 DEF Current
  <2> QED
    BY <2>1, <2>3 DEF Delivered
<1>13. CASE Added(p)
  <2>1. db' = [db EXCEPT ![Name(p)] = "new"] /\ mine' = mine /\ Type(p) # "REMOVE"
    BY <1>1, <1>3, <1>13 DEF Added, Inv, Stage
  <2> QED
    BY <1>7, <2>1 DEF Delivered
<1>14. CASE Removed(p)
  <2>1. /\ db' = [db EXCEPT ![Name(p)] = "none"] /\ mine' = [mine EXCEPT ![p] = @ \ {Name(p)}]
        /\ Type(p) = "REMOVE"
    BY <1>2, <1>3, <1>14 DEF Removed, ToRemove
  <2> QED
    BY <1>7, <2>1 DEF Delivered
<1> QED
  BY <1>8, <1>9, <1>10, <1>11, <1>12, <1>13, <1>14

\* The next package: what is not ahead of the command any more is done.
LEMMA OnTheWayProceeds ==
  ASSUME IInv, NEW p \in Proc, OnTheWay(p), GoesOn(p), cmd' = cmd, Fits(p), Delivered(p), Clean(p)'
  PROVE  OnTheWay(p)'
<1>1. PICK lists \in SUBSET List, stop \in BOOLEAN : Proceed(p, lists, stop)
  BY DEF GoesOn
<1>2. Types /\ Inv(p) /\ plan[p] # << >> /\ Names(p) # << >> /\ pc[p] \notin {"idle", "open"}
  BY DEF IInv, GoesOn
<1>3. Name(p) \in Pkg /\ Type(p) \in {"INSTALL", "UPDATE", "REMOVE"}
  BY <1>2, FirstFact
<1>4. Clean(p) /\ ~ stop
  BY <1>1, <1>2, CleanProceeds
<1> PICK new : new = plan'[p]
  OBVIOUS
<1>5. \A type : Ahead(plan[p], type) \subseteq
         Ahead(new, type) \union (IF type = Type(p) THEN {Name(p)} ELSE {})
  <2>1. new = IF stop THEN Tail(plan[p])
              ELSE <<[type |-> Type(p), names |-> Tail(Names(p))]>> \o Tail(plan[p])
    BY <1>1, <1>2, ProceedFact
  <2> QED
    BY <1>2, <1>4, <2>1, AheadProceeds
<1>6. db \in [Pkg -> Version] /\ mine \in [Proc -> SUBSET Pkg]
  BY <1>2 DEF Types
<1>7. Type(p) = "REMOVE" <=> cmd[p].op = "remove"
  BY <1>2, RemoveFits
<1>8. cmd[p] \in Command /\ Args(p) \subseteq Pkg /\ Args(p)' = Args(p) /\ Wanted(p)' = Wanted(p)
  BY <1>2, CmdFact DEF Inv, Stage, Args, Wanted, Has
<1>9. Wanted(p) \subseteq Pkg /\ Repo \subseteq Pkg
  BY <1>8, PkgmanAssumption, ClosureFact DEF Wanted
<1>10. cmd[p].op \in Op /\ cmd[p].op \notin {"lock", "unlock"}
  BY <1>2, <1>8, CmdFact DEF Fits
<1>11. CASE cmd[p].op = "install"
  <2>1. ASSUME NEW x \in Wanted(p) \ cmd[p].ignore
        PROVE  db'[x] # "none" \/ x \in Ahead(new, "INSTALL")
    <3>1. db[x] # "none" \/ x \in Ahead(plan[p], "INSTALL")
      BY <1>2, <1>4, <1>11, <2>1 DEF OnTheWay
    <3>2. db[x] # "none" => db'[x] # "none"
      BY <1>6, <1>9, <1>11 DEF Delivered
    <3>3. x = Name(p) => db'[x] # "none" \/ (Type(p) # "INSTALL" /\ db'[x] = db[x])
      BY <1>3, <1>6, <1>11 DEF Delivered
    <3> QED
      BY <1>5, <3>1, <3>2, <3>3
  <2> QED
    BY <1>8, <1>11, <2>1 DEF OnTheWay
<1>12. CASE cmd[p].op = "update"
  <2>1. ASSUME NEW x \in Args(p) \ cmd[p].ignore
        PROVE  db'[x] = "new" \/ x \in Ahead(new, "UPDATE")
    <3>1. db[x] = "new" \/ x \in Ahead(plan[p], "UPDATE")
      BY <1>2, <1>4, <1>12, <2>1 DEF OnTheWay
    <3>2. db[x] = "new" => db'[x] = "new"
      BY <1>6, <1>8, <1>12 DEF Delivered
    <3>3. x = Name(p) => db'[x] = "new" \/ Type(p) # "UPDATE"
      BY <1>3, <1>6, <1>12 DEF Delivered
    <3> QED
      BY <1>5, <3>1, <3>2, <3>3
  <2> QED
    BY <1>8, <1>12, <2>1 DEF OnTheWay
<1>13. CASE cmd[p].op = "remove"
  <2>1. ASSUME NEW x \in Args(p) \ cmd[p].ignore
        PROVE  (db'[x] = "none" /\ x \notin mine'[p]) \/ x \in Ahead(new, "REMOVE")
    <3>1. (db[x] = "none" /\ x \notin mine[p]) \/ x \in Ahead(plan[p], "REMOVE")
      BY <1>2, <1>4, <1>13, <2>1 DEF OnTheWay
    <3>2. db[x] = "none" /\ x \notin mine[p] => db'[x] = "none" /\ x \notin mine'[p]
      BY <1>6, <1>8, <1>13 DEF Delivered
    <3>3. x = Name(p) => db'[x] = "none" /\ x \notin mine'[p]
      BY <1>3, <1>6, <1>7, <1>13 DEF Delivered
    <3> QED
      BY <1>5, <3>1, <3>2, <3>3
  <2> QED
    BY <1>8, <1>13, <2>1 DEF OnTheWay
<1>14. CASE cmd[p].op = "sysup"
  <2>1. ASSUME NEW x \in Repo \ cmd[p].ignore, db'[x] = "old"
        PROVE  (x \in mine'[p] /\ ~ Has(p, "all")) \/ x \in Ahead(new, "UPDATE")
    <3>1. db[x] = "old" /\ mine' = mine
      BY <1>3, <1>6, <1>9, <1>14, <2>1 DEF Delivered
    <3>2. (x \in mine[p] /\ ~ Has(p, "all")) \/ x \in Ahead(plan[p], "UPDATE")
      BY <1>2, <1>4, <1>14, <2>1, <3>1 DEF OnTheWay
    <3>3. x = Name(p) => Type(p) # "UPDATE"
      BY <1>3, <1>6, <1>14, <2>1 DEF Delivered
    <3> QED
      BY <1>5, <3>1, <3>2, <3>3
  <2> QED
    BY <1>8, <1>14, <2>1 DEF OnTheWay, Has
<1> QED
  BY <1>10, <1>11, <1>12, <1>13, <1>14 DEF Op

\* What is on the way does not depend on anything else.
LEMMA OnTheWayStays ==
  ASSUME NEW p \in Proc, OnTheWay(p), pc[p] \notin {"idle", "open"},
         \A type : Ahead(plan'[p], type) = Ahead(plan[p], type),
         UNCHANGED <<db, cmd, mine>>, report'[p] = report[p], failed[p] => failed'[p]
  PROVE  OnTheWay(p)'
<1>1. Clean(p)' => Clean(p)
  BY DEF Clean
<1>2. Args(p)' = Args(p) /\ Wanted(p)' = Wanted(p) /\ (Has(p, "all") <=> Has(p, "all")')
  BY DEF Args, Wanted, Has
<1> QED
  BY <1>1, <1>2 DEF OnTheWay

LEMMA OnTheWayStep ==
  ASSUME IInv, NEW p \in Proc, Single(p), Fits(p), Current(p), OnTheWay(p), Step(p)
  PROVE  OnTheWay(p)'
<1> USE DEF disk
<1>1. Types /\ Inv(p) /\ "lost" \notin Faults /\ "store" \notin Faults
  BY DEF IInv, Single
<1>2. CASE Start(p)
  <2>1. pc'[p] = "open"
    BY <1>1, <1>2 DEF Start, Types
  <2> QED
    BY <2>1 DEF OnTheWay
<1>3. CASE Refuse(p) \/ LockRefused(p) \/ Leave(p) \/ Signal(p)
  <2>1. pc'[p] = "idle"
    BY <1>1, <1>3 DEF Refuse, LockRefused, Leave, Signal, Exit, Types
  <2> QED
    BY <2>1 DEF OnTheWay
<1>4. CASE Open(p)
  <2>1. cmd[p] \in Command /\ cmd[p].op \notin {"lock", "unlock"}
    BY <1>1, <1>4 DEF Open, Inv, Stage
  <2>2. PICK steps \in Plans(p) : plan' = [plan EXCEPT ![p] = steps]
    BY <1>4 DEF Open
  <2>3. plan'[p] = steps /\ UNCHANGED <<db, cmd, mine>>
    BY <1>1, <1>4, <2>2 DEF Types, Open
  <2>4. /\ cmd[p].op = "sysup" => Ahead(steps, "UPDATE") = Greater(p)
        /\ cmd[p].op = "update" => Ahead(steps, "UPDATE") = Args(p)
        /\ cmd[p].op = "remove" => Args(p) \subseteq Ahead(steps, "REMOVE")
        /\ cmd[p].op = "install" =>
              Ahead(steps, "INSTALL") =
                IF Has(p, "deps") THEN {x \in Closure(Args(p)) : ~ IsInstalled(x)} ELSE Args(p)
    BY <2>1, PlansFact
  <2>5. cmd[p].op = "install" =>
          \A x \in Wanted(p) \ cmd[p].ignore : db[x] # "none" \/ x \in Ahead(steps, "INSTALL")
    BY <2>4 DEF Wanted, IsInstalled
  <2>6. cmd[p].op = "sysup" =>
          \A x \in Repo \ cmd[p].ignore : db[x] = "old" =>
            (x \in mine[p] /\ ~ Has(p, "all")) \/ x \in Ahead(steps, "UPDATE")
    BY <2>4 DEF Greater
  <2>7. Args(p)' = Args(p) /\ Wanted(p)' = Wanted(p) /\ (Has(p, "all") <=> Has(p, "all")')
    BY <2>3 DEF Args, Wanted, Has
  <2> QED
    BY <2>1, <2>3, <2>4, <2>5, <2>6, <2>7 DEF OnTheWay
<1>5. CASE Lock(p)
  <2>1. /\ pc'[p] = "store" /\ cmd' = cmd /\ cmd[p].op = "lock" /\ Args(p) \subseteq mine'[p]
    BY <1>1, <1>5 DEF Lock, Types
  <2> QED
    BY <2>1 DEF OnTheWay, Args
<1>6. CASE Unlock(p)
  <2>1. /\ pc'[p] = "store" /\ cmd' = cmd /\ cmd[p].op = "unlock" /\ Args(p) \intersect mine'[p] = {}
    BY <1>1, <1>6 DEF Unlock, Types
  <2> QED
    BY <2>1 DEF OnTheWay, Args
<1>7. CASE logFileCreate(p) \/ (Made(p) /\ ~ Has(p, "do")) \/ Truncate(p)
  <2>1. pc[p] \notin {"idle", "open"} /\ UNCHANGED <<db, cmd, mine, plan, report, failed>>
    BY <1>7 DEF logFileCreate, ToMake, InLoop, Made, Truncate
  <2> QED
    BY <2>1, OnTheWayStays
<1>8. CASE EndTransaction(p)
  <2>1. /\ pc[p] \notin {"idle", "open"} /\ UNCHANGED <<db, cmd, mine, report, failed>>
        /\ plan[p] # << >> /\ Names(p) = << >> /\ plan'[p] \in {plan[p], Tail(plan[p])}
    BY <1>1, <1>8 DEF EndTransaction, TransactionDone, Types
  <2> PICK new : new = plan'[p]
    OBVIOUS
  <2>2. \A type : Ahead(new, type) = Ahead(plan[p], type)
    BY <1>1, <2>1, AheadEnds
  <2> QED
    BY <2>1, <2>2, OnTheWayStays
<1>9. CASE Write(p)
  <2>1. /\ pc[p] \notin {"idle", "open"} /\ UNCHANGED <<db, cmd, mine, report, failed>>
        /\ plan[p] # << >> => Names(p) = << >>
        /\ plan'[p] = IF plan[p] = << >> THEN plan[p] ELSE Tail(plan[p])
    BY <1>1, <1>9 DEF Write, StoreDone, Types, Inv, Stage
  <2> PICK new : new = plan'[p]
    OBVIOUS
  <2>2. \A type : Ahead(new, type) = Ahead(plan[p], type)
    BY <1>1, <2>1, AheadEnds
  <2> QED
    BY <2>1, <2>2, OnTheWayStays
<1>10. ~ StoreFails(p)
  BY <1>1 DEF StoreFails
<1>11. ASSUME GoesOn(p), cmd' = cmd,
              \/ Ignored(p) \/ Missing(p) \/ AlreadyInstalled(p) \/ LogFails(p) \/ (Made(p) /\ Has(p, "do"))
              \/ MakeFails(p) \/ Added(p) \/ AddFails(p) \/ AddLost(p) \/ Removed(p) \/ RemoveFails(p)
       PROVE  OnTheWay(p)'
  <2>1. CASE Clean(p)'
    BY <1>11, <2>1, Delivery, OnTheWayProceeds
  <2>2. CASE ~ Clean(p)'
    BY <2>2 DEF OnTheWay
  <2> QED
    BY <2>1, <2>2
<1> QED
  BY <1>2, <1>3, <1>4, <1>5, <1>6, <1>7, <1>8, <1>9, <1>10, <1>11, GoingOn DEF Step

\* An instance that leaves without an error has done what it was to do.
LEMMA DoneStep ==
  ASSUME IInv, NEW p \in Proc, Single(p), Fits(p), Current(p), OnTheWay(p), Step(p)
  PROVE  Done(p)'
<1> USE DEF disk
<1>1. Types /\ Inv(p)
  BY DEF IInv
<1>2. CASE Leave(p)
  <2>1. /\ pc[p] = "next" /\ plan[p] = << >> /\ UNCHANGED <<db, locked, cmd, report>>
        /\ failed'[p] <=> (failed[p] \/ report[p] \intersect (Errors \X Pkg) # {})
    BY <1>1, <1>2 DEF Leave, Exit, Types
  <2> SUFFICES ASSUME ~ failed'[p], cmd[p].opts \intersect {"test", "do"} = {}
               PROVE  Done(p)'
    BY <2>1 DEF Done
  <2>2. Clean(p)
    <3>1. ~ failed[p] /\ \A l \in Errors : \A x \in Pkg : <<l, x>> \notin report[p]
      BY <2>1
    <3> QED
      BY <3>1 DEF Clean
  <2>3. \A type : Ahead(plan[p], type) = {}
    BY <2>1, EmptyPlan
  <2>4. /\ cmd[p].op = "install" => \A x \in Wanted(p) \ cmd[p].ignore : db[x] # "none"
        /\ cmd[p].op = "update" => \A x \in Args(p) \ cmd[p].ignore : db[x] = "new"
        /\ cmd[p].op = "remove" => \A x \in Args(p) \ cmd[p].ignore : db[x] = "none" /\ x \notin mine[p]
        /\ cmd[p].op = "sysup" =>
             \A x \in Repo \ cmd[p].ignore : db[x] = "old" => x \in mine[p] /\ ~ Has(p, "all")
        /\ cmd[p].op = "lock" => Args(p) \subseteq mine[p]
        /\ cmd[p].op = "unlock" => Args(p) \intersect mine[p] = {}
    BY <2>1, <2>2, <2>3 DEF OnTheWay
  <2>5. cmd[p].op \in {"remove", "sysup", "lock", "unlock"} => mine[p] = locked
    BY <2>1, <2>2 DEF Current, Clean
  <2>6. Args(p)' = Args(p)
    BY <2>1 DEF Args
  <2> QED
    BY <2>1, <2>4, <2>5, <2>6 DEF Done, Wanted, Has, IsInstalled
<1>3. CASE Refuse(p) \/ LockRefused(p) \/ Signal(p)
  <2>1. failed'[p]
    BY <1>1, <1>3 DEF Refuse, LockRefused, Signal, Exit, Types
  <2> QED
    BY <2>1 DEF Done
<1>4. CASE ~ Leave(p) /\ ~ Refuse(p) /\ ~ LockRefused(p) /\ ~ Signal(p)
  <2>1. pc'[p] # "idle"
    <3>1. CASE GoesOn(p)
      BY <1>1, <3>1, ProceedFact DEF GoesOn
    <3>2. CASE ~ GoesOn(p)
      BY <1>1, <1>4, <3>2, GoingOn DEF Step, Start, Open, Lock, Unlock, logFileCreate, ToMake, InLoop,
         Made, EndTransaction, TransactionDone, Truncate, Write, StoreFails, StoreDone, Types
    <3> QED
      BY <3>1, <3>2
  <2> QED
    BY <2>1 DEF Done
<1> QED
  BY <1>2, <1>3, <1>4

Dutiful == \A p \in Proc : Single(p) => Duty(p)

LEMMA DutyKept == IInv /\ Dutiful /\ [Next]_vars => Dutiful'
<1> SUFFICES ASSUME IInv, Dutiful, [Next]_vars, NEW p \in Proc, Single(p)
             PROVE  Duty(p)'
  BY DEF Dutiful, Single
<1>1. Duty(p)
  BY DEF Dutiful
<1>2. CASE Next
  <2>1. PICK q \in Proc : Step(q)
    BY <1>2 DEF Next, Step
  <2>2. q = p
    BY DEF Single
  <2>3. Step(p)
    BY <2>1, <2>2
  <2> QED
    BY <1>1, <2>3, FitsStep, CurrentStep, OnTheWayStep, DoneStep DEF Duty
<1>3. CASE UNCHANGED vars
  BY <1>1, <1>3 DEF vars, Duty, Fits, Current, OnTheWay, Clean, Wanted, Done, Args, Has, IsInstalled
<1> QED
  BY <1>2, <1>3

\* One instance alone, with any database, any locked packages, failing
\* children and signals: when it exits with 0, unless it was only to test or
\* to download, what the command was to do is done.
THEOREM ExitMeans == Spec => []ExitStatus
<1>1. Init => Dutiful
  <2> SUFFICES ASSUME Init, NEW p \in Proc PROVE Duty(p)
    BY DEF Dutiful
  <2>1. pc[p] = "idle" /\ plan[p] = << >> /\ cmd[p].op = "none"
    BY DEF Init, NoCmd
  <2> QED
    BY <2>1 DEF Duty, Fits, Current, OnTheWay, Done
<1>2. Dutiful => ExitStatus
  <2> SUFFICES ASSUME Dutiful, NEW p \in Proc, Proc = {p}, Faults \intersect {"lost", "store"} = {},
                      pc[p] = "idle", ~ failed[p], cmd[p].opts \intersect {"test", "do"} = {}
               PROVE
    /\ cmd[p].op = "install" =>
         IF "deps" \in cmd[p].opts
         THEN \A x \in Closure(Args(p)) \ cmd[p].ignore : IsInstalled(x)
         ELSE \A x \in Args(p) \ cmd[p].ignore : IsInstalled(x)
    /\ cmd[p].op = "update" => \A x \in Args(p) \ cmd[p].ignore : db[x] = "new"
    /\ cmd[p].op = "remove" =>
         \A x \in Args(p) \ cmd[p].ignore : ~ IsInstalled(x) /\ x \notin locked
    /\ cmd[p].op = "sysup" =>
         \A x \in Repo \ cmd[p].ignore :
           db[x] = "old" => x \in locked /\ "all" \notin cmd[p].opts
    /\ cmd[p].op = "lock" => Args(p) \ cmd[p].ignore \subseteq locked
    /\ cmd[p].op = "unlock" => (Args(p) \ cmd[p].ignore) \intersect locked = {}
    BY Zenon DEF ExitStatus
  <2>1. Done(p)
    BY DEF Dutiful, Duty, Single
  <2> QED
    BY <2>1 DEF Done
<1> QED
  BY <1>1, <1>2, Invariant, DutyKept, PTL DEF Spec

===============================================================================
