------------------------------ MODULE DepResolver ------------------------------
(***************************************************************************)
(* The dependency calculation of pkgman: Transaction::calcDeps collects    *)
(* the packages the given ones need, depth first, and DepResolver sorts    *)
(* them so that what is needed comes first.                                *)
(***************************************************************************)
EXTENDS Naturals, Sequences, FiniteSets

CONSTANTS
  Pkg,     \* package names
  Repo,    \* the packages that have sources
  Graphs,  \* the dependencies to consider: what each package's Pkgfile lists
  Args     \* the lists of packages to calculate the dependencies of

ASSUME RepoAssumption ==
  /\ Repo \subseteq Pkg
  /\ Graphs \subseteq [Repo -> Seq(Pkg)]
  /\ Args \subseteq Seq(Pkg)

VARIABLES
  dependencies,  \* the dependencies of every package of the repository
  args,          \* Transaction::m_packages
  calls,         \* the calls of checkDependecies still to be made
  depList,       \* m_depList: a package's index is its place here
  pairs,         \* DepResolver::m_dependencies: <<a, b>>, a is to precede b
  missing,       \* m_missingPackages
  numPreds,      \* how many predecessors an index still waits for
  result,        \* the sorted indices
  elem,          \* the place in result the loop of topSort is at
  succs,         \* the pairs from that element still to be knocked down
  pc

vars == <<dependencies, args, calls, depList, pairs, missing, numPreds, result,
          elem, succs, pc>>

SeqSet(s) == {s[i] : i \in DOMAIN s}

\* The first call for a package the user named has no depender.
NoDepender == 0

Init ==
  /\ dependencies \in Graphs
  /\ args \in Args
  /\ calls = [i \in DOMAIN args |-> <<args[i], NoDepender>>]
  /\ depList = << >>
  /\ pairs = << >>
  /\ missing = {}
  /\ numPreds = << >>
  /\ result = << >>
  /\ elem = 0
  /\ succs = {}
  /\ pc = "check"

-------------------------------------------------------------------------------
(* checkDependecies, one call after the other.                             *)

Index(pkg) ==
  IF pkg \in SeqSet(depList)
  THEN CHOOSE i \in DOMAIN depList : depList[i] = pkg
  ELSE Len(depList) + 1

\* Mutant: only names the user gave are reported.
MissingArgument ==
  /\ pc = "check"
  /\ calls # << >>
  /\ Head(calls)[1] \notin Repo
  /\ missing' = missing \union (SeqSet(args) \intersect {Head(calls)[1]})
  /\ calls' = Tail(calls)
  /\ UNCHANGED <<dependencies, args, depList, pairs, numPreds, result, elem, succs, pc>>

MissingPackage ==
  /\ pc = "check"
  /\ calls # << >>
  /\ Head(calls)[1] \notin Repo
  /\ missing' = missing \union {Head(calls)[1]}
  /\ calls' = Tail(calls)
  /\ UNCHANGED <<dependencies, args, depList, pairs, numPreds, result, elem, succs, pc>>

\* The dependencies of a package are visited when it is seen first.
checkDependecies ==
  LET pkg == Head(calls)[1]
      depends == Head(calls)[2]
      index == Index(pkg)
      needed == dependencies[pkg]
  IN
  /\ pc = "check"
  /\ calls # << >>
  /\ pkg \in Repo
  /\ pairs' = Append(pairs, <<index, IF depends = NoDepender THEN index ELSE depends>>)
  /\ IF index > Len(depList)
     THEN /\ depList' = Append(depList, pkg)
          /\ calls' = [i \in DOMAIN needed |-> <<needed[i], index>>] \o Tail(calls)
     ELSE calls' = Tail(calls) /\ UNCHANGED depList
  /\ UNCHANGED <<dependencies, args, missing, numPreds, result, elem, succs, pc>>

-------------------------------------------------------------------------------
(* topSort.                                                                *)

Nodes == {pairs[i][1] : i \in DOMAIN pairs} \union {pairs[i][2] : i \in DOMAIN pairs}

\* Mutant: a package waits for itself.
IsEdgeOrLoop(i, a, b) == pairs[i] = <<a, b>>

\* The i-th pair says that a precedes b.
IsEdge(i, a, b) == pairs[i] = <<a, b>> /\ a # b

\* Mutant: a dependency that is listed twice counts once.
PredsOnce(b) == Cardinality({a \in Nodes : \E i \in DOMAIN pairs : IsEdge(i, a, b)})

Preds(b) == Cardinality({i \in DOMAIN pairs : \E a \in Nodes : IsEdge(i, a, b)})

\* successors[a]: the pairs that say what a precedes.
Successors(a) == {i \in DOMAIN pairs : \E b \in Nodes : IsEdge(i, a, b)}

\* calcDeps has no package with sources to start from.
NotFound ==
  /\ pc = "check"
  /\ calls = << >>
  /\ pairs = << >>
  /\ pc' = "notfound"
  /\ UNCHANGED <<dependencies, args, calls, depList, pairs, missing, numPreds, result,
                 elem, succs>>

Count ==
  /\ pc = "check"
  /\ calls = << >>
  /\ pairs # << >>
  /\ numPreds' = [b \in Nodes |-> Preds(b)]
  /\ pc' = "start"
  /\ UNCHANGED <<dependencies, args, calls, depList, pairs, missing, result, elem, succs>>

\* Everything without a predecessor, in the order of the map.
Start ==
  LET free == {n \in DOMAIN numPreds : numPreds[n] = 0} IN
  /\ pc = "start"
  /\ result' \in {r \in [1..Cardinality(free) -> free] :
                    \A j, k \in DOMAIN r : j < k => r[j] < r[k]}
  /\ pc' = "loop"
  /\ UNCHANGED <<dependencies, args, calls, depList, pairs, missing, numPreds, elem, succs>>

Visit ==
  /\ pc = "loop"
  /\ succs = {}
  /\ elem < Len(result)
  /\ elem' = elem + 1
  /\ numPreds' = [n \in DOMAIN numPreds \ {result[elem']} |-> numPreds[n]]
  /\ succs' = Successors(result[elem'])
  /\ UNCHANGED <<dependencies, args, calls, depList, pairs, missing, result, pc>>

\* The successors come in the order the pairs were added.
KnockDown ==
  /\ pc = "loop"
  /\ \E i \in succs :
       LET succ == pairs[i][2] IN
       /\ \A j \in succs : i <= j
       /\ succs' = succs \ {i}
       /\ numPreds' = [numPreds EXCEPT ![succ] = @ - 1]
       /\ result' = IF numPreds'[succ] = 0 THEN Append(result, succ) ELSE result
  /\ UNCHANGED <<dependencies, args, calls, depList, pairs, missing, elem, pc>>

\* Mutant: topSort goes on until every index has found its place.
ReturnSorted ==
  /\ pc = "loop"
  /\ DOMAIN numPreds = {}
  /\ pc' = "sorted"
  /\ UNCHANGED <<dependencies, args, calls, depList, pairs, missing, numPreds, result,
                 elem, succs>>

\* Mutant: what has found no place is not looked for.
ReturnUnchecked ==
  /\ pc = "loop"
  /\ succs = {}
  /\ elem = Len(result)
  /\ pc' = "sorted"
  /\ UNCHANGED <<dependencies, args, calls, depList, pairs, missing, numPreds, result,
                 elem, succs>>

\* topSort returns whether every index has found its place.
Return ==
  /\ pc = "loop"
  /\ succs = {}
  /\ elem = Len(result)
  /\ pc' = IF DOMAIN numPreds = {} THEN "sorted" ELSE "cyclic"
  /\ UNCHANGED <<dependencies, args, calls, depList, pairs, missing, numPreds, result,
                 elem, succs>>

Next ==
  MissingPackage \/ checkDependecies \/ NotFound \/ Count \/ Start \/ Visit \/ KnockDown \/ Return

Spec == Init /\ [][Next]_vars /\ WF_vars(Next)

-------------------------------------------------------------------------------
(* Properties.                                                             *)

\* Transaction::deps, the names in the sorted order.
deps == [k \in DOMAIN result |-> depList[result[k]]]

Needs(pkg) == SeqSet(dependencies[pkg]) \intersect Repo

\* S holds the given packages and all they need.
Closed(S) ==
  /\ SeqSet(args) \intersect Repo \subseteq S
  /\ \A pkg \in S : Needs(pkg) \subseteq S

\* The types; every index that waits or is placed belongs to a package.
TypeOK ==
  /\ depList \in Seq(Repo)
  /\ pairs \in Seq((1..Len(depList)) \X (1..Len(depList)))
  /\ missing \subseteq Pkg \ Repo
  /\ DOMAIN numPreds \subseteq 1..Len(depList)
  /\ \A n \in DOMAIN numPreds : numPreds[n] \in Nat
  /\ result \in Seq(1..Len(depList))
  /\ elem \in 0..Len(result)

\* The assertion in topSort: what is taken from the result waits for nothing.
Ready ==
  pc = "loop" /\ succs = {} /\ elem < Len(result) =>
    result[elem + 1] \in DOMAIN numPreds /\ numPreds[result[elem + 1]] = 0

\* The list holds the given packages and all they need, directly or not, and
\* nothing else; each of them once, and after all it needs itself.
Sorted ==
  pc = "sorted" =>
    /\ Closed(SeqSet(deps))
    /\ \A S \in SUBSET Repo : Closed(S) => SeqSet(deps) \subseteq S
    /\ \A i, j \in DOMAIN deps :
         deps[j] \in Needs(deps[i]) => j < i \/ deps[j] = deps[i]
    /\ \A i, j \in DOMAIN deps : deps[i] = deps[j] => i = j

\* Cyclic dependencies are only reported where there are some: packages each
\* of which needs another one of them.
Cyclic ==
  pc = "cyclic" =>
    \E S \in SUBSET SeqSet(depList) \ {{}} :
      \A pkg \in S : (Needs(pkg) \ {pkg}) \intersect S # {}

\* The missing packages are the ones without sources that the listed ones need.
Missing ==
  pc \in {"sorted", "cyclic"} =>
    missing = (SeqSet(args) \union UNION {SeqSet(dependencies[pkg]) : pkg \in SeqSet(depList)})
              \ Repo

\* The calculation ends, whatever cycles the dependencies have.
Terminates == <>(pc \in {"sorted", "cyclic", "notfound"})
===============================================================================
