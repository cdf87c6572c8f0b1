-------------------------- MODULE DepResolver_proofs --------------------------
(***************************************************************************)
(* For every repository, every graph of dependencies and every list of     *)
(* packages: the sorted list holds what is needed and nothing else, each   *)
(* package after its dependencies; cycles are reported only where there    *)
(* are some, and the missing packages are exactly those that are needed.   *)
(***************************************************************************)
EXTENDS DepResolver, FiniteSetTheorems, TLAPS

Indices == 1..Len(depList)

Types ==
  /\ dependencies \in [Repo -> Seq(Pkg)]
  /\ args \in Seq(Pkg)
  /\ calls \in Seq(Pkg \X (0..Len(depList)))
  /\ depList \in Seq(Repo)
  /\ pairs \in Seq(Indices \X Indices)
  /\ missing \subseteq Pkg
  /\ result \in Seq(Indices)
  /\ elem \in 0..Len(result)
  /\ succs \subseteq DOMAIN pairs
  /\ pc \in {"check", "notfound", "start", "loop", "sorted", "cyclic"}

-------------------------------------------------------------------------------
(* What holds of the list, the pairs and the missing packages.             *)

\* A package is listed once, and every listed one is in some pair.
ListedOnce ==
  /\ \A i, j \in Indices : depList[i] = depList[j] => i = j
  /\ \A i \in Indices : \E k \in DOMAIN pairs : pairs[k][1] = i

\* x is a name the user gave, or one that depender d lists.
Wanted(x, d) ==
  x \in IF d = NoDepender THEN SeqSet(args) ELSE SeqSet(dependencies[depList[d]])

\* There are only calls for what is wanted.
Called ==
  /\ calls # << >> => pc = "check"
  /\ \A x \in Pkg, d \in 0..Len(depList) : <<x, d>> \in SeqSet(calls) => Wanted(x, d)

\* A name that is called for with depender d is dealt with: reported missing,
\* or paired with d, or its call is still to come.
Dealt(x, d) ==
  \/ <<x, d>> \in SeqSet(calls)
  \/ x \in missing \ Repo
  \/ x \in Repo /\ \E k \in DOMAIN pairs :
       /\ depList[pairs[k][1]] = x
       /\ d # NoDepender => pairs[k][2] = d

\* No name is forgotten.
Covered ==
  \A d \in 0..Len(depList) : \A x \in Pkg : Wanted(x, d) => Dealt(x, d)

\* A pair stands for a dependency, what is missing is needed, and no package
\* is listed that is not.
Grounded ==
  /\ \A k \in DOMAIN pairs :
       pairs[k][1] = pairs[k][2]
       \/ Wanted(depList[pairs[k][1]], pairs[k][2])
  /\ missing \subseteq {x \in Pkg \ Repo : \E d \in 0..Len(depList) : Wanted(x, d)}
  /\ \A S \in SUBSET Repo : Closed(S) => SeqSet(depList) \subseteq S

-------------------------------------------------------------------------------
(* What holds of the sort.                                                 *)

\* The pairs b waits for: what precedes it is not visited, or is being visited
\* and the pair still to be knocked down.
Waiting(b) ==
  {i \in DOMAIN pairs : /\ pairs[i][2] = b
                        /\ pairs[i][1] # b
                        /\ pairs[i][1] \in DOMAIN numPreds \/ i \in succs}

Visited == {result[k] : k \in 1..elem}

\* Before topSort there is nothing; it counts every pair.
Counted ==
  /\ pc \in {"check", "notfound"} => numPreds = << >>
  /\ pc \in {"check", "notfound", "start"} => result = << >> /\ elem = 0 /\ succs = {}
  /\ pc \in {"start", "loop", "sorted", "cyclic"} =>
       /\ DOMAIN numPreds = Indices \ Visited
       /\ \A b \in DOMAIN numPreds : numPreds[b] = Cardinality(Waiting(b))

\* The result holds each index once, those that wait for nothing, and each
\* after what is to precede it.
Placed ==
  pc \in {"loop", "sorted", "cyclic"} =>
    /\ \A j, k \in DOMAIN result : result[j] = result[k] => j = k
    /\ \A b \in Indices : b \in SeqSet(result) <=> Waiting(b) = {}
    /\ \A k \in DOMAIN result : \A i \in DOMAIN pairs :
         pairs[i][2] = result[k] /\ pairs[i][1] # result[k] =>
           \E m \in 1..elem : m < k /\ result[m] = pairs[i][1]

\* The pairs to be knocked down start at the element visited last.
Visiting ==
  \A i \in succs : pc = "loop" /\ elem > 0 /\ pairs[i][1] = result[elem] /\ pairs[i][2] # result[elem]

Ended ==
  pc \in {"sorted", "cyclic"} => elem = Len(result) /\ (pc = "sorted" <=> DOMAIN numPreds = {})

IInv == Types /\ ListedOnce /\ Called /\ Covered /\ Grounded /\ Counted /\ Placed /\ Visiting /\ Ended

-------------------------------------------------------------------------------
(* Facts about sequences and the operators of the model.                   *)

LEMMA TailSet ==
  ASSUME NEW S, NEW s \in Seq(S), s # << >>
  PROVE  SeqSet(s) = {Head(s)} \union SeqSet(Tail(s))
<1>1. Head(s) \in SeqSet(s)
  BY DEF SeqSet
<1>2. ASSUME NEW x \in SeqSet(s), x # Head(s)  PROVE x \in SeqSet(Tail(s))
  <2>1. PICK i \in DOMAIN s : s[i] = x
    BY <1>2 DEF SeqSet
  <2>2. i - 1 \in DOMAIN Tail(s) /\ Tail(s)[i - 1] = x
    BY <1>2, <2>1
  <2> QED
    BY <2>2 DEF SeqSet
<1>3. ASSUME NEW x \in SeqSet(Tail(s))  PROVE x \in SeqSet(s)
  <2>1. PICK i \in DOMAIN Tail(s) : Tail(s)[i] = x
    BY <1>3 DEF SeqSet
  <2>2. i + 1 \in DOMAIN s /\ s[i + 1] = x
    BY <2>1
  <2> QED
    BY <2>2 DEF SeqSet
<1> QED
  BY <1>1, <1>2, <1>3

LEMMA ConcatSet ==
  ASSUME NEW S, NEW s \in Seq(S), NEW t \in Seq(S)
  PROVE  SeqSet(s \o t) = SeqSet(s) \union SeqSet(t)
<1>1. ASSUME NEW i \in DOMAIN s  PROVE i \in DOMAIN (s \o t) /\ (s \o t)[i] = s[i]
  OBVIOUS
<1>2. ASSUME NEW i \in DOMAIN t
      PROVE  i + Len(s) \in DOMAIN (s \o t) /\ (s \o t)[i + Len(s)] = t[i]
  OBVIOUS
<1>3. ASSUME NEW i \in DOMAIN (s \o t)
      PROVE  (s \o t)[i] \in SeqSet(s) \union SeqSet(t)
  <2>1. CASE i \in DOMAIN s
    BY <1>1, <2>1 DEF SeqSet
  <2>2. CASE i \notin DOMAIN s
    <3>1. i - Len(s) \in DOMAIN t /\ (s \o t)[i] = t[i - Len(s)]
      BY <2>2
    <3> QED
      BY <3>1 DEF SeqSet
  <2> QED
    BY <2>1, <2>2
<1>4. SeqSet(s \o t) \subseteq SeqSet(s) \union SeqSet(t)
  BY <1>3 DEF SeqSet
<1>5. SeqSet(s) \subseteq SeqSet(s \o t)
  BY <1>1 DEF SeqSet
<1>6. SeqSet(t) \subseteq SeqSet(s \o t)
  BY <1>2 DEF SeqSet
<1> QED
  BY <1>4, <1>5, <1>6

LEMMA AppendSet ==
  ASSUME NEW S, NEW s \in Seq(S), NEW x \in S
  PROVE  /\ Append(s, x) \in Seq(S)
         /\ Len(Append(s, x)) = Len(s) + 1
         /\ \A i \in 1..Len(s) : Append(s, x)[i] = s[i]
         /\ Append(s, x)[Len(s) + 1] = x
         /\ SeqSet(Append(s, x)) = SeqSet(s) \union {x}
<1>1. /\ Append(s, x) \in Seq(S)
      /\ Len(Append(s, x)) = Len(s) + 1
      /\ \A i \in 1..Len(s) : Append(s, x)[i] = s[i]
      /\ Append(s, x)[Len(s) + 1] = x
  OBVIOUS
<1>2. DOMAIN Append(s, x) = DOMAIN s \union {Len(s) + 1}
  BY <1>1
<1> QED
  BY <1>1, <1>2 DEF SeqSet

\* The calls for what a new package lists.
LEMMA CallsFor ==
  ASSUME NEW s \in Seq(Pkg), NEW n \in Nat, NEW index \in 0..n
  PROVE  LET new == [i \in DOMAIN s |-> <<s[i], index>>] IN
         /\ new \in Seq(Pkg \X (0..n))
         /\ SeqSet(new) = {<<x, index>> : x \in SeqSet(s)}
<1> DEFINE new == [i \in DOMAIN s |-> <<s[i], index>>]
<1>1. new \in Seq(Pkg \X (0..n))
  OBVIOUS
<1>2. DOMAIN new = DOMAIN s /\ \A i \in DOMAIN s : new[i] = <<s[i], index>>
  OBVIOUS
<1> HIDE DEF new
<1>3. ASSUME NEW c \in SeqSet(new)  PROVE c \in {<<x, index>> : x \in SeqSet(s)}
  BY <1>2, <1>3, Zenon DEF SeqSet
<1>4. ASSUME NEW x \in SeqSet(s)  PROVE <<x, index>> \in SeqSet(new)
  <2>1. PICK i \in DOMAIN s : s[i] = x
    BY <1>4, Zenon DEF SeqSet
  <2> QED
    BY <1>2, <2>1, Zenon DEF SeqSet
<1>5. SeqSet(new) = {<<x, index>> : x \in SeqSet(s)}
  BY <1>3, <1>4, Zenon
<1> QED
  BY <1>1, <1>5, Zenon DEF new

LEMMA IndexFact ==
  ASSUME Types, NEW pkg \in Repo
  PROVE  \/ Index(pkg) \in Indices /\ depList[Index(pkg)] = pkg
         \/ Index(pkg) = Len(depList) + 1 /\ pkg \notin SeqSet(depList)
<1>1. CASE pkg \in SeqSet(depList)
  <2>1. \E i \in DOMAIN depList : depList[i] = pkg
    BY <1>1 DEF SeqSet
  <2>2. Index(pkg) = CHOOSE i \in DOMAIN depList : depList[i] = pkg
    BY <1>1 DEF Index
  <2> QED
    BY <2>1, <2>2 DEF Types, Indices
<1>2. CASE pkg \notin SeqSet(depList)
  BY <1>2 DEF Index
<1> QED
  BY <1>1, <1>2

LEMMA NodesFact ==
  ASSUME Types, ListedOnce
  PROVE  Nodes = Indices
<1>1. \A i \in DOMAIN pairs : pairs[i][1] \in Indices /\ pairs[i][2] \in Indices
  BY DEF Types
<1> QED
  BY <1>1 DEF Nodes, ListedOnce

LEMMA EdgeFact ==
  ASSUME Types, NEW i \in DOMAIN pairs, NEW a, NEW b
  PROVE  IsEdge(i, a, b) <=> pairs[i][1] = a /\ pairs[i][2] = b /\ a # b
BY DEF Types, IsEdge

LEMMA WaitingFinite ==
  ASSUME Types, NEW b
  PROVE  IsFiniteSet(Waiting(b)) /\ Cardinality(Waiting(b)) \in Nat
<1>1. IsFiniteSet(1..Len(pairs))
  BY FS_Interval DEF Types
<1>2. Waiting(b) \in SUBSET (1..Len(pairs))
  BY DEF Types, Waiting
<1>3. IsFiniteSet(Waiting(b))
  BY <1>1, <1>2, FS_Subset
<1> QED
  BY <1>3, FS_CardinalityType

-------------------------------------------------------------------------------
(* The initial states and the steps of checkDependecies.                   *)

LEMMA InitInv == Init => IInv
<1> SUFFICES ASSUME Init  PROVE IInv
  OBVIOUS
<1>1. dependencies \in [Repo -> Seq(Pkg)] /\ args \in Seq(Pkg)
  BY RepoAssumption DEF Init
<1>2. depList = << >> /\ pairs = << >> /\ Indices = {} /\ missing = {} /\ DOMAIN pairs = {}
  BY DEF Init, Indices
<1>3. Types
  <2>1. calls \in Seq(Pkg \X (0..Len(depList)))
    BY <1>1 DEF Init, NoDepender
  <2> QED
    BY <1>1, <1>2, <2>1 DEF Init, Types
<1>4. ListedOnce
  BY <1>2 DEF ListedOnce
<1>5. Called
  BY <1>1 DEF Init, Called, Wanted, SeqSet, NoDepender
<1>6. Covered
  <2>1. \A i \in DOMAIN args : i \in DOMAIN calls /\ calls[i] = <<args[i], NoDepender>>
    BY DEF Init
  <2>2. ASSUME NEW x \in SeqSet(args)  PROVE <<x, NoDepender>> \in SeqSet(calls)
    <3>1. PICK i \in DOMAIN args : args[i] = x
      BY DEF SeqSet
    <3> QED
      BY <2>1, <3>1 DEF SeqSet
  <2>3. 0..Len(depList) = {NoDepender}
    BY <1>2 DEF NoDepender
  <2> QED
    BY <2>2, <2>3 DEF Covered, Wanted, Dealt
<1>7. Grounded
  BY <1>2 DEF Grounded, SeqSet
<1> QED
  BY <1>2, <1>3, <1>4, <1>5, <1>6, <1>7 DEF Init, IInv, Counted, Placed, Visiting, Ended

LEMMA MissingPackageStep == IInv /\ MissingPackage => IInv'
<1> SUFFICES ASSUME IInv, MissingPackage  PROVE IInv'
  OBVIOUS
<1> DEFINE name == Head(calls)[1]
           d == Head(calls)[2]
<1>1. Types /\ ListedOnce /\ Called /\ Covered /\ Grounded
  BY DEF IInv
<1>2. /\ pc = "check" /\ calls # << >> /\ name \notin Repo
      /\ missing' = missing \union {name}
      /\ calls' = Tail(calls)
      /\ UNCHANGED <<dependencies, args, depList, pairs, numPreds, result, elem, succs, pc>>
  BY DEF MissingPackage
<1>3. /\ Head(calls) = <<name, d>> /\ name \in Pkg /\ d \in 0..Len(depList)
      /\ calls' \in Seq(Pkg \X (0..Len(depList)))
  BY <1>1, <1>2 DEF Types
<1>4. SeqSet(calls) = {<<name, d>>} \union SeqSet(calls')
  BY <1>1, <1>2, <1>3, TailSet DEF Types
<1> HIDE DEF name, d
<1>5. Wanted(name, d)
  BY <1>1, <1>3, <1>4 DEF Called
<1>6. UNCHANGED <<Indices, Visited, Len(depList)>> /\ \A b : UNCHANGED Waiting(b)
  BY <1>2 DEF Indices, Visited, Waiting
<1>7. \A x, e : UNCHANGED Wanted(x, e)
  BY <1>2 DEF Wanted, SeqSet
<1>8. Types'
  BY <1>1, <1>2, <1>3, <1>6 DEF Types
<1>9. Called'
  BY <1>1, <1>2, <1>4, <1>7 DEF Called
<1>10. Covered'
  <2>1. ASSUME NEW x, NEW e, Dealt(x, e)  PROVE Dealt(x, e)'
    BY <1>2, <1>4, <2>1 DEF Dealt
  <2> QED
    BY <1>1, <1>2, <1>6, <1>7, <2>1 DEF Covered
<1>11. Grounded'
  BY <1>1, <1>2, <1>3, <1>5, <1>6, <1>7 DEF Grounded, SeqSet, Closed, Needs
<1> QED
  BY <1>1, <1>2, <1>6, <1>8, <1>9, <1>10, <1>11
     DEF IInv, ListedOnce, Counted, Placed, Visiting, Ended

\* What a call of checkDependecies adds.
LEMMA CallFacts ==
  ASSUME IInv, checkDependecies,
         NEW pkg, pkg = Head(calls)[1],
         NEW d, d = Head(calls)[2],
         NEW index, index = Index(pkg)
  PROVE  /\ pkg \in Repo /\ d \in 0..Len(depList) /\ Wanted(pkg, d)
         /\ depList' \in Seq(Repo) /\ index \in 1..Len(depList') /\ depList'[index] = pkg
         /\ \A i \in Indices : depList'[i] = depList[i]
         /\ \/ Len(depList') = Len(depList) /\ calls' = Tail(calls)
            \/ /\ Len(depList') = Len(depList) + 1
               /\ index = Len(depList) + 1 /\ pkg \notin SeqSet(depList)
               /\ SeqSet(calls') = SeqSet(Tail(calls))
                                      \union {<<x, index>> : x \in SeqSet(dependencies[pkg])}
         /\ calls' \in Seq(Pkg \X (0..Len(depList')))
         /\ SeqSet(calls) = {<<pkg, d>>} \union SeqSet(Tail(calls))
         /\ pairs' = Append(pairs, <<index, IF d = NoDepender THEN index ELSE d>>)
<1> DEFINE needed == dependencies[pkg]
           rest == Tail(calls)
<1>1. Types /\ Called
  BY DEF IInv
<1>2. /\ pc = "check" /\ calls # << >> /\ pkg \in Repo
      /\ pairs' = Append(pairs, <<index, IF d = NoDepender THEN index ELSE d>>)
      /\ IF index > Len(depList)
         THEN /\ depList' = Append(depList, pkg)
              /\ calls' = [i \in DOMAIN needed |-> <<needed[i], index>>] \o rest
         ELSE calls' = rest /\ UNCHANGED depList
  BY DEF checkDependecies
<1>3. d \in 0..Len(depList) /\ rest \in Seq(Pkg \X (0..Len(depList))) /\ Head(calls) = <<pkg, d>>
  BY <1>1, <1>2 DEF Types
<1>4. SeqSet(calls) = {<<pkg, d>>} \union SeqSet(rest)
  BY <1>1, <1>2, <1>3, TailSet DEF Types
<1>5. Wanted(pkg, d)
  BY <1>1, <1>2, <1>3, <1>4, RepoAssumption DEF Called
<1>6. \/ index \in Indices /\ depList[index] = pkg
      \/ index = Len(depList) + 1 /\ pkg \notin SeqSet(depList)
  BY <1>1, <1>2, IndexFact
<1> HIDE DEF rest
<1>7. CASE index \in Indices /\ depList[index] = pkg
  <2>1. calls' = rest /\ UNCHANGED depList
    BY <1>1, <1>2, <1>7 DEF Types, Indices
  <2> QED
    BY <1>1, <1>2, <1>3, <1>4, <1>5, <1>7, <2>1 DEF Types, Indices, rest
<1>8. CASE index = Len(depList) + 1 /\ pkg \notin SeqSet(depList)
  <2> DEFINE first == [i \in DOMAIN needed |-> <<needed[i], index>>]
  <2>1. index > Len(depList) /\ index \in Nat
    BY <1>1, <1>8 DEF Types
  <2>2. depList' = Append(depList, pkg) /\ calls' = first \o rest
    BY <1>2, <2>1
  <2>3. /\ depList' \in Seq(Repo) /\ Len(depList') = Len(depList) + 1
        /\ \A i \in 1..Len(depList) : depList'[i] = depList[i]
        /\ depList'[Len(depList) + 1] = pkg
    BY <1>1, <1>2, <2>2, AppendSet DEF Types
  <2>4. needed \in Seq(Pkg)
    BY <1>1, <1>2 DEF Types
  <2>5. /\ first \in Seq(Pkg \X (0..Len(depList')))
        /\ SeqSet(first) = {<<x, index>> : x \in SeqSet(needed)}
    <3>1. Len(depList') \in Nat /\ index \in 0..Len(depList')
      BY <1>1, <1>8, <2>3 DEF Types
    <3> QED
      BY <2>4, <3>1, CallsFor, Zenon
  <2>6. rest \in Seq(Pkg \X (0..Len(depList')))
    BY <1>1, <1>3, <2>3 DEF Types
  <2> HIDE DEF first, needed
  <2>8. SeqSet(calls') = SeqSet(rest) \union {<<x, index>> : x \in SeqSet(needed)}
    BY <2>2, <2>5, <2>6, ConcatSet
  <2>9. calls' \in Seq(Pkg \X (0..Len(depList')))
    BY <2>2, <2>5, <2>6
  <2>10. index \in 1..Len(depList') /\ depList'[index] = pkg
    BY <1>1, <1>8, <2>3 DEF Types
  <2> QED
    BY <1>2, <1>3, <1>4, <1>5, <1>8, <2>3, <2>8, <2>9, <2>10 DEF Indices, needed, rest
<1> QED
  BY <1>6, <1>7, <1>8

LEMMA checkDependeciesStep == IInv /\ checkDependecies => IInv'
<1> SUFFICES ASSUME IInv, checkDependecies  PROVE IInv'
  OBVIOUS
<1>1. PICK pkg, d, index : pkg = Head(calls)[1] /\ d = Head(calls)[2] /\ index = Index(pkg)
  OBVIOUS
<1> DEFINE to == IF d = NoDepender THEN index ELSE d
           last == Len(pairs) + 1
           new == index = Len(depList) + 1
<1>2. Types /\ ListedOnce /\ Called /\ Covered /\ Grounded
  BY DEF IInv
<1>3. /\ pkg \in Repo /\ d \in 0..Len(depList) /\ Wanted(pkg, d)
      /\ depList' \in Seq(Repo) /\ index \in 1..Len(depList') /\ depList'[index] = pkg
      /\ \A i \in Indices : depList'[i] = depList[i]
      /\ \/ Len(depList') = Len(depList) /\ calls' = Tail(calls)
         \/ /\ Len(depList') = Len(depList) + 1
            /\ new /\ pkg \notin SeqSet(depList)
            /\ SeqSet(calls') = SeqSet(Tail(calls))
                                  \union {<<x, index>> : x \in SeqSet(dependencies[pkg])}
      /\ calls' \in Seq(Pkg \X (0..Len(depList')))
      /\ SeqSet(calls) = {<<pkg, d>>} \union SeqSet(Tail(calls))
      /\ pairs' = Append(pairs, <<index, to>>)
  BY <1>1, CallFacts
<1>4. /\ pc = "check"
      /\ UNCHANGED <<dependencies, args, missing, numPreds, result, elem, succs, pc>>
  BY DEF checkDependecies
<1>5. /\ Len(depList) \in Nat /\ Len(depList') \in Nat /\ Len(depList) <= Len(depList')
      /\ \A i \in Indices : i \in Indices' /\ i \in 0..Len(depList)
      /\ \A i \in Indices' : i \in Indices \/ i = index
      /\ \A e \in 0..Len(depList') : e \in 0..Len(depList) \/ (e = index /\ new)
      /\ index \in Indices' /\ index # 0
  <2>1. Len(depList) \in Nat /\ Len(depList') \in Nat
    BY <1>2, <1>3 DEF Types
  <2>2. Len(depList') = Len(depList) \/ (Len(depList') = Len(depList) + 1 /\ index = Len(depList) + 1)
    BY <1>3
  <2> QED
    BY <1>3, <2>1, <2>2 DEF Indices
<1>6. to \in Indices'
  <2>1. d = NoDepender \/ d \in Indices
    BY <1>3, <1>5 DEF NoDepender, Indices
  <2> QED
    BY <1>5, <2>1
<1>7. /\ pairs' \in Seq(Indices' \X Indices')
      /\ DOMAIN pairs' = DOMAIN pairs \union {last} /\ last \notin DOMAIN pairs
      /\ pairs'[last] = <<index, to>>
      /\ \A k \in DOMAIN pairs : pairs'[k] = pairs[k] /\ pairs[k] \in Indices \X Indices
  <2>1. pairs \in Seq(Indices \X Indices)
    BY <1>2 DEF Types
  <2>2. pairs \in Seq(Indices' \X Indices')
    BY <1>5, <2>1
  <2> HIDE DEF to
  <2>3. <<index, to>> \in Indices' \X Indices' /\ pairs' = Append(pairs, <<index, to>>)
    BY <1>3, <1>5, <1>6
  <2>4. /\ pairs' \in Seq(Indices' \X Indices') /\ Len(pairs') = Len(pairs) + 1
        /\ \A i \in 1..Len(pairs) : pairs'[i] = pairs[i]
        /\ pairs'[Len(pairs) + 1] = <<index, to>>
    BY <2>2, <2>3, AppendSet
  <2>5. /\ DOMAIN pairs = 1..Len(pairs) /\ Len(pairs) \in Nat
        /\ \A k \in DOMAIN pairs : pairs[k] \in Indices \X Indices
    BY <2>1
  <2>6. DOMAIN pairs' = 1..Len(pairs')
    BY <2>4
  <2> QED
    BY <2>4, <2>5, <2>6
<1> HIDE DEF to, last, new
<1>8. \A x, e : e \in 0..Len(depList) => (Wanted(x, e) <=> Wanted(x, e)')
  <2>1. UNCHANGED <<dependencies, args>> /\ \A e \in 1..Len(depList) : depList'[e] = depList[e]
    BY <1>3, <1>4 DEF Indices
  <2>2. \A e \in 0..Len(depList) : e = 0 \/ e \in 1..Len(depList)
    BY <1>5
  <2> QED
    BY <2>1, <2>2, Zenon DEF Wanted, SeqSet, NoDepender
<1>9. Types'
  <2>1. result' \in Seq(Indices') /\ elem' \in 0..Len(result')
    <3>1. result \in Seq(Indices) /\ elem \in 0..Len(result)
      BY <1>2 DEF Types
    <3> QED
      BY <1>4, <1>5, <3>1
  <2>2. succs' \subseteq DOMAIN pairs' /\ missing' \subseteq Pkg
    BY <1>2, <1>4, <1>7 DEF Types
  <2>3. dependencies' \in [Repo -> Seq(Pkg)] /\ args' \in Seq(Pkg)
    BY <1>2, <1>4 DEF Types
  <2> QED
    BY <1>3, <1>4, <1>7, <2>1, <2>2, <2>3 DEF Types
<1>10. ListedOnce'
  <2>1. \A i \in Indices' : \E k \in DOMAIN pairs' : pairs'[k][1] = i
    BY <1>2, <1>5, <1>7 DEF ListedOnce
  <2>2. ASSUME NEW i \in Indices', NEW j \in Indices', depList'[i] = depList'[j]  PROVE i = j
    <3>1. CASE i \in Indices /\ j \in Indices
      BY <1>2, <1>3, <2>2, <3>1 DEF ListedOnce
    <3>2. CASE pkg \notin SeqSet(depList)
      <4>1. \A k \in Indices : depList'[k] # pkg
        <5>1. depList \in Seq(Repo)
          BY <1>2 DEF Types
        <5>2. \A k \in Indices : k \in DOMAIN depList
          BY <5>1 DEF Indices
        <5> QED
          BY <1>3, <3>2, <5>2 DEF SeqSet
      <4> QED
        BY <1>2, <1>3, <1>5, <2>2, <3>1, <4>1
    <3> QED
      BY <1>3, <1>5, <3>1, <3>2 DEF Indices
  <2> QED
    BY <2>1, <2>2 DEF ListedOnce
<1>11. Called'
  <2>1. ASSUME NEW x \in Pkg, NEW e \in 0..Len(depList'), <<x, e>> \in SeqSet(calls')
        PROVE  Wanted(x, e)'
    <3>1. CASE <<x, e>> \in SeqSet(Tail(calls))
      <4>1. <<x, e>> \in SeqSet(calls)
        BY <1>3, <3>1
      <4>2. e \in 0..Len(depList)
        <5>1. calls \in Seq(Pkg \X (0..Len(depList)))
          BY <1>2 DEF Types
        <5>2. PICK k \in DOMAIN calls : calls[k] = <<x, e>>
          BY <4>1 DEF SeqSet
        <5>3. calls[k] \in Pkg \X (0..Len(depList))
          BY <5>1
        <5> QED
          BY <5>2, <5>3
      <4> QED
        BY <1>2, <1>8, <4>1, <4>2 DEF Called
    <3>2. CASE e = index /\ x \in SeqSet(dependencies[pkg])
      <4>1. e # NoDepender /\ depList'[e] = pkg /\ dependencies'[pkg] = dependencies[pkg]
        BY <1>3, <1>4, <3>2 DEF NoDepender
      <4> QED
        BY <3>2, <4>1 DEF Wanted, SeqSet
    <3>3. \/ SeqSet(calls') = SeqSet(Tail(calls))
          \/ SeqSet(calls') = SeqSet(Tail(calls))
                                 \union {<<y, index>> : y \in SeqSet(dependencies[pkg])}
      BY <1>3
    <3> QED
      BY <2>1, <3>1, <3>2, <3>3
  <2> QED
    BY <1>4, <2>1 DEF Called
<1>12. Covered'
  <2>1. ASSUME NEW x \in Pkg, NEW e \in 0..Len(depList), Dealt(x, e)  PROVE Dealt(x, e)'
    <3>1. CASE <<x, e>> \in SeqSet(calls)
      <4>1. CASE x = pkg /\ e = d
        <5>1. depList'[pairs'[last][1]] = x /\ (e # NoDepender => pairs'[last][2] = e)
          BY <1>3, <1>7, <4>1 DEF to
        <5> QED
          BY <1>3, <1>7, <4>1, <5>1 DEF Dealt
      <4>2. CASE <<x, e>> \in SeqSet(Tail(calls))
        BY <1>3, <4>2 DEF Dealt
      <4> QED
        BY <1>3, <3>1, <4>1, <4>2
    <3>2. CASE x \in missing \ Repo
      BY <1>4, <3>2 DEF Dealt
    <3>3. CASE x \in Repo /\ \E k \in DOMAIN pairs :
                 depList[pairs[k][1]] = x /\ (e # NoDepender => pairs[k][2] = e)
      <4>1. PICK k \in DOMAIN pairs :
                 depList[pairs[k][1]] = x /\ (e # NoDepender => pairs[k][2] = e)
        BY <3>3
      <4>2. k \in DOMAIN pairs' /\ depList'[pairs'[k][1]] = x /\ (e # NoDepender => pairs'[k][2] = e)
        BY <1>3, <1>7, <4>1
      <4> QED
        BY <3>3, <4>2 DEF Dealt
    <3> QED
      BY <2>1, <3>1, <3>2, <3>3 DEF Dealt
  <2>2. ASSUME NEW x \in Pkg, NEW e \in 0..Len(depList'), Wanted(x, e)'  PROVE Dealt(x, e)'
    <3>1. CASE e \in 0..Len(depList)
      BY <1>2, <1>8, <2>1, <2>2, <3>1 DEF Covered
    <3>2. CASE e \notin 0..Len(depList)
      <4>1. e = index /\ e # NoDepender /\ depList'[e] = pkg
        BY <1>3, <1>5, <3>2 DEF new, NoDepender
      <4>2. x \in SeqSet(dependencies[pkg])
        BY <1>4, <2>2, <4>1 DEF Wanted, SeqSet
      <4>3. <<x, index>> \in SeqSet(calls')
        BY <1>3, <3>2, <4>2
      <4> QED
        BY <4>1, <4>3 DEF Dealt
    <3> QED
      BY <3>1, <3>2
  <2> QED
    BY <2>2 DEF Covered
<1>13. Grounded'
  <2>1. ASSUME NEW k \in DOMAIN pairs'
        PROVE  pairs'[k][1] = pairs'[k][2] \/ Wanted(depList[pairs[k][1]], pairs[k][2])'
    <3>1. CASE k \in DOMAIN pairs
      <4>1. pairs[k][1] = pairs[k][2] \/ Wanted(depList[pairs[k][1]], pairs[k][2])
        BY <1>2, <3>1 DEF Grounded
      <4>2. /\ pairs'[k] = pairs[k] /\ depList'[pairs[k][1]] = depList[pairs[k][1]]
            /\ pairs[k][2] \in 0..Len(depList)
        <5>1. pairs[k][1] \in Indices /\ pairs[k][2] \in Indices
          BY <1>7, <3>1
        <5> QED
          BY <1>3, <1>5, <1>7, <3>1, <5>1
      <4> QED
        BY <1>8, <4>1, <4>2
    <3>2. CASE k = last
      <4>1. pairs'[k][1] = index /\ pairs'[k][2] = to /\ depList'[index] = pkg
        BY <1>3, <1>7, <3>2
      <4>2. d = NoDepender \/ to = d
        BY DEF to
      <4> QED
        BY <1>3, <1>8, <4>1, <4>2 DEF to
    <3> QED
      BY <1>7, <3>1, <3>2
  <2>2. missing' \subseteq {x \in Pkg \ Repo : \E e \in 0..Len(depList') : Wanted(x, e)'}
    <3>1. \A e \in 0..Len(depList) : e \in 0..Len(depList')
      BY <1>5
    <3> QED
      BY <1>2, <1>4, <1>8, <3>1 DEF Grounded
  <2>3. ASSUME NEW S \in SUBSET Repo, Closed(S)'  PROVE SeqSet(depList') \subseteq S
    <3>1. Closed(S)
      BY <1>4, <2>3 DEF Closed, Needs, SeqSet
    <3>2. SeqSet(depList) \subseteq S
      BY <1>2, <3>1 DEF Grounded
    <3>3. pkg \in S
      <4>1. CASE d = NoDepender
        BY <1>3, <3>1, <4>1 DEF Wanted, Closed
      <4>2. CASE d # NoDepender
        <5>1. depList[d] \in S
          <6>1. depList \in Seq(Repo) /\ d \in DOMAIN depList
            BY <1>2, <1>3, <4>2 DEF Types, NoDepender
          <6> QED
            BY <3>2, <6>1 DEF SeqSet
        <5>2. pkg \in Needs(depList[d])
          BY <1>3, <4>2 DEF Wanted, Needs, NoDepender
        <5> QED
          BY <3>1, <5>1, <5>2 DEF Closed
      <4> QED
        BY <4>1, <4>2
    <3>4. \A i \in DOMAIN depList' : depList'[i] = pkg \/ depList'[i] \in SeqSet(depList)
      <4>1. depList \in Seq(Repo) /\ depList' \in Seq(Repo)
        BY <1>2, <1>3 DEF Types
      <4>2. \A i \in DOMAIN depList' : i \in Indices'
        BY <4>1 DEF Indices
      <4>3. \A i \in Indices : i \in DOMAIN depList
        BY <4>1 DEF Indices
      <4> QED
        BY <1>3, <1>5, <4>2, <4>3 DEF SeqSet
    <3> QED
      BY <3>2, <3>3, <3>4 DEF SeqSet
  <2> QED
    BY <2>1, <2>2, <2>3 DEF Grounded
<1>14. Counted' /\ Placed' /\ Visiting' /\ Ended'
  BY <1>4 DEF IInv, Counted, Placed, Visiting, Ended
<1> QED
  BY <1>9, <1>10, <1>11, <1>12, <1>13, <1>14 DEF IInv

-------------------------------------------------------------------------------
(* The steps of topSort, which leave the list and the pairs as they are.   *)

LEMMA SortFrame ==
  ASSUME IInv, calls = << >>,
         UNCHANGED <<dependencies, args, calls, depList, pairs, missing>>
  PROVE  /\ UNCHANGED Indices
         /\ ListedOnce' /\ Called' /\ Covered' /\ Grounded'
<1>1. UNCHANGED Indices
  BY DEF Indices
<1>2. \A x, d : UNCHANGED Wanted(x, d)
  BY DEF Wanted, SeqSet
<1>3. \A x, d : UNCHANGED Dealt(x, d)
  BY DEF Dealt, SeqSet
<1>4. ListedOnce /\ Covered /\ Grounded
  BY DEF IInv
<1>5. Called'
  BY DEF Called, SeqSet
<1> QED
  BY <1>1, <1>2, <1>3, <1>4, <1>5 DEF ListedOnce, Covered, Grounded, Closed, Needs, SeqSet

LEMMA NotFoundStep == IInv /\ NotFound => IInv'
<1> SUFFICES ASSUME IInv, NotFound  PROVE IInv'
  OBVIOUS
<1>1. ListedOnce' /\ Called' /\ Covered' /\ Grounded' /\ UNCHANGED Indices
  BY SortFrame DEF NotFound
<1>2. Types'
  BY <1>1 DEF IInv, Types, NotFound
<1> QED
  BY <1>1, <1>2 DEF IInv, NotFound, Counted, Placed, Visiting, Ended

LEMMA CountStep == IInv /\ Count => IInv'
<1> SUFFICES ASSUME IInv, Count  PROVE IInv'
  OBVIOUS
<1>1. ListedOnce' /\ Called' /\ Covered' /\ Grounded' /\ UNCHANGED Indices
  BY SortFrame DEF Count
<1>2. Types'
  BY <1>1 DEF IInv, Types, Count
<1>3. Nodes = Indices
  BY NodesFact DEF IInv
<1>4. result = << >> /\ elem = 0 /\ succs = {}
  BY DEF IInv, Counted, Count
<1>5. ASSUME NEW b \in Indices
      PROVE  Waiting(b)' = {i \in DOMAIN pairs : \E a \in Nodes : IsEdge(i, a, b)}
  <2>1. DOMAIN numPreds' = Indices
    BY <1>3 DEF Count
  <2>2. \A i \in DOMAIN pairs : pairs[i][1] \in Indices
    BY DEF IInv, Types
  <2>3. \A i \in DOMAIN pairs : i \in Waiting(b)' <=> pairs[i][2] = b /\ pairs[i][1] # b
    BY <2>1, <2>2 DEF Count, Waiting
  <2>4. \A i \in DOMAIN pairs :
          (\E a \in Nodes : IsEdge(i, a, b)) <=> pairs[i][2] = b /\ pairs[i][1] # b
    BY <1>3, <2>2, EdgeFact DEF IInv
  <2>5. Waiting(b)' \subseteq DOMAIN pairs
    BY DEF Count, Waiting
  <2> QED
    BY <2>3, <2>4, <2>5
<1>6. /\ DOMAIN numPreds' = Indices /\ Visited' = {}
      /\ \A b \in Indices : numPreds'[b] = Cardinality(Waiting(b)')
  BY <1>3, <1>4, <1>5 DEF Count, Preds, Visited
<1>7. Counted'
  BY <1>1, <1>4, <1>6 DEF Counted, Count
<1> QED
  BY <1>1, <1>2, <1>4, <1>7 DEF IInv, Count, Placed, Visiting, Ended

LEMMA StartStep == IInv /\ Start => IInv'
<1> SUFFICES ASSUME IInv, Start  PROVE IInv'
  OBVIOUS
<1> DEFINE free == {n \in DOMAIN numPreds : numPreds[n] = 0}
<1>1. Types /\ pc = "start" /\ calls = << >> /\ elem = 0 /\ succs = {}
  BY DEF IInv, Counted, Called, Start
<1>2. ListedOnce' /\ Called' /\ Covered' /\ Grounded' /\ UNCHANGED Indices
  BY <1>1, SortFrame DEF Start
<1>3. /\ Visited = {} /\ DOMAIN numPreds = Indices
      /\ \A b \in Indices : numPreds[b] = Cardinality(Waiting(b))
  BY <1>1 DEF IInv, Counted, Visited
<1>4. free \subseteq Indices /\ IsFiniteSet(free) /\ Cardinality(free) \in Nat
  <2>1. Len(depList) \in Nat
    BY <1>1 DEF Types
  <2>2. IsFiniteSet(Indices)
    BY <2>1, FS_Interval DEF Indices
  <2> QED
    BY <1>3, <2>2, FS_Subset, FS_CardinalityType
<1> DEFINE n == Cardinality(free)
<1>5. /\ result' \in [1..n -> free]
      /\ \A j, k \in 1..n : j < k => result'[j] < result'[k]
  BY DEF Start
<1> HIDE DEF free
<1>6. /\ result' \in Seq(Indices) /\ Len(result') = n /\ DOMAIN result' = 1..n
      /\ \A k \in 1..n : result'[k] \in free /\ result'[k] \in Nat
  <2> HIDE DEF n
  <2>1. n \in Nat /\ \A i \in free : i \in Indices /\ i \in Nat
    BY <1>4 DEF Indices, n
  <2> QED
    BY <1>5, <2>1
<1>7. \A j, k \in 1..n : result'[j] = result'[k] => j = k
  <2>1. \A j, k \in 1..n : j < k \/ k < j \/ j = k
    BY <1>4
  <2> QED
    BY <1>5, <1>6, <2>1
<1>8. ASSUME NEW b \in free  PROVE \E k \in 1..n : result'[k] = b
  <2>1. result' \in Injection(1..n, free)
    BY <1>5, <1>6, <1>7 DEF Injection, IsInjective
  <2>2. IsFiniteSet(1..n) /\ Cardinality(1..n) = n
    BY <1>4, FS_Interval
  <2>3. result' \in Surjection(1..n, free)
    BY <1>4, <2>1, <2>2, FS_Injection
  <2> QED
    BY <2>3 DEF Surjection
<1>9. \A b : UNCHANGED Waiting(b)
  BY DEF Start, Waiting
<1>10. \A b \in Indices : Waiting(b) = {} <=> b \in free
  <2>1. ASSUME NEW b \in Indices  PROVE Waiting(b) = {} <=> b \in free
    BY <1>1, <1>3, WaitingFinite, FS_EmptySet DEF free
  <2> QED
    BY <2>1
<1>11. Types'
  BY <1>1, <1>2, <1>4, <1>6 DEF Types, Start
<1>12. Visited' = {}
  BY <1>1 DEF Visited, Start
<1>13. Counted'
  BY <1>1, <1>2, <1>3, <1>9, <1>12 DEF Counted, Start
<1>14. Placed'
  <2>1. SeqSet(result') = free
    BY <1>6, <1>8 DEF SeqSet
  <2>2. ASSUME NEW k \in DOMAIN result', NEW i \in DOMAIN pairs', pairs'[i][2] = result'[k]
        PROVE  pairs'[i][1] = result'[k]
    <3>1. result'[k] \in Indices /\ Waiting(result'[k]) = {}
      BY <1>4, <1>6, <1>10
    <3>2. pairs[i][1] \in DOMAIN numPreds /\ pairs' = pairs
      BY <1>1, <1>3, <2>2 DEF Types, Start
    <3> QED
      BY <2>2, <3>1, <3>2 DEF Waiting
  <2> QED
    BY <1>2, <1>6, <1>7, <1>9, <1>10, <2>1, <2>2 DEF Placed
<1> QED
  BY <1>1, <1>2, <1>11, <1>13, <1>14 DEF IInv, Start, Visiting, Ended

LEMMA VisitStep == IInv /\ Visit => IInv'
<1> SUFFICES ASSUME IInv, Visit  PROVE IInv'
  OBVIOUS
<1> DEFINE a == result[elem + 1]
<1>1. /\ Types /\ pc = "loop" /\ calls = << >> /\ succs = {}
      /\ elem < Len(result) /\ elem' = elem + 1
      /\ numPreds' = [m \in DOMAIN numPreds \ {a} |-> numPreds[m]]
      /\ succs' = Successors(a)
      /\ UNCHANGED <<dependencies, args, calls, depList, pairs, missing, result, pc>>
  BY DEF IInv, Called, Visit
<1>2. ListedOnce' /\ Called' /\ Covered' /\ Grounded' /\ UNCHANGED Indices
  BY <1>1, SortFrame
<1>3. /\ elem \in Nat /\ elem + 1 \in DOMAIN result /\ a \in Indices
      /\ \A i \in DOMAIN pairs : pairs[i][1] \in Indices /\ pairs[i][2] \in Indices
  BY <1>1 DEF Types
<1>4. Nodes = Indices
  BY NodesFact DEF IInv
<1>5. \A i \in DOMAIN pairs : i \in succs' <=> pairs[i][1] = a /\ pairs[i][2] # a
  BY <1>1, <1>3, <1>4, EdgeFact DEF Successors
<1>6. succs' \subseteq DOMAIN pairs
  BY <1>1 DEF Successors
<1> HIDE DEF a
<1>7. DOMAIN numPreds = Indices \ Visited /\ \A b \in DOMAIN numPreds : numPreds[b] = Cardinality(Waiting(b))
  BY <1>1 DEF IInv, Counted
<1>8. a \notin Visited
  BY <1>1, <1>3 DEF IInv, Placed, Visited, Types, a
<1>9. Visited' = Visited \union {a}
  <2>1. 1..elem' = 1..elem \union {elem + 1}
    BY <1>1, <1>3
  <2> QED
    BY <1>1, <2>1 DEF Visited, a
<1>10. \A b : UNCHANGED Waiting(b)
  <2>1. DOMAIN numPreds' = DOMAIN numPreds \ {a}
    BY <1>1 DEF a
  <2>2. a \in DOMAIN numPreds
    BY <1>3, <1>7, <1>8
  <2>3. ASSUME NEW b, NEW i \in DOMAIN pairs, pairs[i][2] = b, pairs[i][1] # b
        PROVE  (pairs[i][1] \in DOMAIN numPreds \/ i \in succs)
                 <=> (pairs[i][1] \in DOMAIN numPreds' \/ i \in succs')
    BY <1>1, <1>5, <2>1, <2>2, <2>3
  <2> QED
    BY <1>1, <2>3 DEF Waiting
<1>11. Types'
  <2>1. elem' \in 0..Len(result') /\ result' \in Seq(Indices')
    BY <1>1, <1>2, <1>3 DEF Types
  <2> QED
    BY <1>1, <1>2, <1>6, <2>1 DEF Types
<1>12. Counted'
  <2>1. DOMAIN numPreds' = DOMAIN numPreds \ {a} /\ \A b \in DOMAIN numPreds' : numPreds'[b] = numPreds[b]
    BY <1>1 DEF a
  <2> QED
    BY <1>1, <1>2, <1>7, <1>9, <1>10, <2>1 DEF Counted
<1>13. Placed'
  <2>1. ASSUME NEW k \in DOMAIN result, NEW i \in DOMAIN pairs,
               pairs[i][2] = result[k], pairs[i][1] # result[k]
        PROVE  \E m \in 1..elem' : m < k /\ result[m] = pairs[i][1]
    <3>1. PICK m \in 1..elem : m < k /\ result[m] = pairs[i][1]
      BY <1>1, <2>1 DEF IInv, Placed
    <3>2. m \in 1..elem'
      BY <1>1, <1>3
    <3> QED
      BY <3>1, <3>2
  <2>2. UNCHANGED SeqSet(result)
    BY <1>1 DEF SeqSet
  <2> QED
    BY <1>1, <1>2, <1>10, <2>1, <2>2 DEF IInv, Placed
<1>14. Visiting'
  BY <1>1, <1>3, <1>5, <1>6 DEF Visiting, a
<1> QED
  BY <1>1, <1>2, <1>11, <1>12, <1>13, <1>14 DEF IInv, Ended

LEMMA KnockDownStep == IInv /\ KnockDown => IInv'
<1> SUFFICES ASSUME IInv, KnockDown  PROVE IInv'
  OBVIOUS
<1>1. PICK i \in succs :
        /\ succs' = succs \ {i}
        /\ numPreds' = [numPreds EXCEPT ![pairs[i][2]] = @ - 1]
        /\ result' = IF numPreds'[pairs[i][2]] = 0 THEN Append(result, pairs[i][2]) ELSE result
  BY DEF KnockDown
<1> PICK b : b = pairs[i][2]
  OBVIOUS
<1>2. /\ Types /\ pc = "loop" /\ calls = << >>
      /\ UNCHANGED <<dependencies, args, calls, depList, pairs, missing, elem, pc>>
  BY DEF IInv, Called, KnockDown
<1>3. ListedOnce' /\ Called' /\ Covered' /\ Grounded' /\ UNCHANGED Indices
  BY <1>2, SortFrame
<1>4. /\ elem \in 1..Len(result) /\ elem \in Nat
      /\ pairs[i][1] = result[elem] /\ b # result[elem] /\ i \in DOMAIN pairs /\ b \in Indices
      /\ \A k \in DOMAIN pairs : pairs[k][1] \in Indices /\ pairs[k][2] \in Indices
  BY <1>2 DEF IInv, Types, Visiting
<1>5. /\ DOMAIN numPreds = Indices \ Visited
      /\ \A c \in DOMAIN numPreds : numPreds[c] = Cardinality(Waiting(c))
      /\ \A j, k \in DOMAIN result : result[j] = result[k] => j = k
      /\ \A c \in Indices : c \in SeqSet(result) <=> Waiting(c) = {}
  BY <1>2 DEF IInv, Counted, Placed
<1>6. i \in Waiting(b) /\ b \notin SeqSet(result)
  BY <1>1, <1>4, <1>5 DEF Waiting
<1>7. b \in DOMAIN numPreds
  <2>1. \A k \in 1..elem : k \in DOMAIN result
    BY <1>2, <1>4 DEF Types
  <2> QED
    BY <1>4, <1>5, <1>6, <2>1 DEF Visited, SeqSet
<1>8. DOMAIN numPreds' = DOMAIN numPreds
  BY <1>1
<1>9. \A c : Waiting(c)' = IF c = b THEN Waiting(c) \ {i} ELSE Waiting(c)
  <2>1. pairs[i][1] \in Visited
    BY <1>4 DEF Visited
  <2>2. pairs[i][1] \notin DOMAIN numPreds
    BY <1>5, <2>1
  <2>3. ASSUME NEW c, NEW k \in DOMAIN pairs
        PROVE  k \in Waiting(c)' <=> k \in Waiting(c) /\ k # i
    BY <1>1, <1>2, <1>8, <2>2 DEF Waiting
  <2>4. \A c : c # b => i \notin Waiting(c)
    BY DEF Waiting
  <2>5. \A c : Waiting(c)' \subseteq DOMAIN pairs /\ Waiting(c) \subseteq DOMAIN pairs
    BY <1>2 DEF Waiting
  <2> QED
    BY <2>3, <2>4, <2>5
<1>10. /\ IsFiniteSet(Waiting(b)) /\ IsFiniteSet(Waiting(b)') /\ Cardinality(Waiting(b)) \in Nat
       /\ Cardinality(Waiting(b)') = Cardinality(Waiting(b)) - 1
  <2>1. IsFiniteSet(Waiting(b)) /\ Cardinality(Waiting(b)) \in Nat
    BY <1>2, WaitingFinite
  <2>2. Waiting(b)' = Waiting(b) \ {i}
    BY <1>9
  <2> QED
    BY <1>6, <2>1, <2>2, FS_RemoveElement
<1>11. numPreds'[b] = Cardinality(Waiting(b)')
  BY <1>1, <1>5, <1>7, <1>10
<1>12. numPreds'[b] = 0 <=> Waiting(b)' = {}
  BY <1>10, <1>11, FS_EmptySet
<1>13. /\ result' \in Seq(Indices) /\ Len(result) <= Len(result')
       /\ \A k \in DOMAIN result : k \in DOMAIN result' /\ result'[k] = result[k]
       /\ \/ Waiting(b)' # {} /\ result' = result
          \/ /\ Waiting(b)' = {} /\ SeqSet(result') = SeqSet(result) \union {b}
             /\ Len(result') = Len(result) + 1 /\ result'[Len(result')] = b
             /\ \A k \in DOMAIN result' : k \in DOMAIN result \/ k = Len(result')
  <2>1. result \in Seq(Indices)
    BY <1>2 DEF Types
  <2>2. CASE Waiting(b)' # {}
    BY <1>1, <1>12, <2>1, <2>2
  <2>3. CASE Waiting(b)' = {}
    <3>1. result' = Append(result, b)
      BY <1>1, <1>12, <2>3
    <3>2. /\ result' \in Seq(Indices) /\ Len(result') = Len(result) + 1
          /\ \A k \in 1..Len(result) : result'[k] = result[k]
          /\ result'[Len(result) + 1] = b
          /\ SeqSet(result') = SeqSet(result) \union {b}
      BY <1>4, <2>1, <3>1, AppendSet
    <3>3. DOMAIN result = 1..Len(result) /\ DOMAIN result' = 1..Len(result') /\ Len(result) \in Nat
      BY <2>1, <3>2
    <3> QED
      BY <2>3, <3>2, <3>3
  <2> QED
    BY <2>2, <2>3
<1>14. \A k \in 1..elem : k \in DOMAIN result /\ k \in DOMAIN result' /\ result'[k] = result[k]
  <2>1. \A k \in 1..elem : k \in DOMAIN result
    BY <1>2, <1>4 DEF Types
  <2> QED
    BY <1>13, <2>1
<1>15. Types'
  <2>1. elem' \in 0..Len(result')
    BY <1>2, <1>4, <1>13 DEF Types
  <2>2. succs' \subseteq DOMAIN pairs'
    BY <1>1, <1>2 DEF Types
  <2> QED
    BY <1>2, <1>3, <1>13, <2>1, <2>2 DEF Types
<1>16. Counted'
  <2>1. Visited' = Visited
    BY <1>2, <1>14 DEF Visited
  <2>2. \A c \in DOMAIN numPreds' : c # b => numPreds'[c] = numPreds[c]
    BY <1>1, <1>8
  <2>3. \A c \in DOMAIN numPreds' : numPreds'[c] = Cardinality(Waiting(c)')
    BY <1>5, <1>8, <1>9, <1>11, <2>2
  <2> QED
    BY <1>2, <1>3, <1>5, <1>8, <2>1, <2>3 DEF Counted
<1>17. Placed'
  <2>1. \A j, k \in DOMAIN result' : result'[j] = result'[k] => j = k
    <3>1. \A k \in DOMAIN result : result[k] # b
      BY <1>6 DEF SeqSet
    <3> QED
      BY <1>5, <1>13, <3>1
  <2>2. \A c \in Indices : c \in SeqSet(result') <=> Waiting(c)' = {}
    <3>1. ASSUME NEW c \in Indices, c # b  PROVE c \in SeqSet(result') <=> Waiting(c)' = {}
      BY <1>5, <1>9, <1>13, <3>1
    <3>2. b \in SeqSet(result') <=> Waiting(b)' = {}
      BY <1>6, <1>13
    <3> QED
      BY <3>1, <3>2
  <2>3. ASSUME NEW k \in DOMAIN result', NEW j \in DOMAIN pairs,
               pairs[j][2] = result'[k], pairs[j][1] # result'[k]
        PROVE  \E m \in 1..elem : m < k /\ result'[m] = pairs[j][1]
    <3>1. CASE k \in DOMAIN result
      <4>1. PICK m \in 1..elem : m < k /\ result[m] = pairs[j][1]
        BY <1>2, <1>13, <2>3, <3>1 DEF IInv, Placed
      <4> QED
        BY <1>14, <4>1
    <3>2. CASE k \notin DOMAIN result
      <4>1. k = Len(result') /\ k = Len(result) + 1 /\ result'[k] = b /\ Waiting(b)' = {}
        BY <1>13, <3>2
      <4>2. pairs[j][1] \notin DOMAIN numPreds
        BY <1>2, <1>8, <2>3, <4>1 DEF Waiting
      <4>3. pairs[j][1] \in Visited
        BY <1>4, <1>5, <4>2
      <4>4. PICK m \in 1..elem : result[m] = pairs[j][1]
        BY <4>3 DEF Visited
      <4>5. m < k
        BY <1>2, <1>4, <4>1 DEF Types
      <4> QED
        BY <1>14, <4>4, <4>5
    <3> QED
      BY <3>1, <3>2
  <2> QED
    BY <1>2, <1>3, <2>1, <2>2, <2>3 DEF Placed
<1>18. Visiting'
  <2>1. result'[elem] = result[elem]
    BY <1>4, <1>14
  <2> QED
    BY <1>1, <1>2, <2>1 DEF IInv, Visiting
<1> QED
  BY <1>2, <1>3, <1>15, <1>16, <1>17, <1>18 DEF IInv, Ended

LEMMA ReturnStep == IInv /\ Return => IInv'
<1> SUFFICES ASSUME IInv, Return  PROVE IInv'
  OBVIOUS
<1>1. calls = << >>
  BY DEF IInv, Called, Return
<1>2. ListedOnce' /\ Called' /\ Covered' /\ Grounded' /\ UNCHANGED Indices
  BY <1>1, SortFrame DEF Return
<1>3. UNCHANGED <<Visited, SeqSet(result)>> /\ \A b : UNCHANGED Waiting(b)
  BY DEF Return, Visited, SeqSet, Waiting
<1>4. Types'
  BY <1>2 DEF IInv, Types, Return
<1>5. Counted' /\ Placed'
  BY <1>2, <1>3 DEF IInv, Return, Counted, Placed
<1> QED
  BY <1>2, <1>4, <1>5 DEF IInv, Return, Visiting, Ended

-------------------------------------------------------------------------------
(* The theorems.                                                           *)

THEOREM Invariant == Spec => []IInv
<1>1. IInv /\ UNCHANGED vars => IInv'
  <2> SUFFICES ASSUME IInv, UNCHANGED vars  PROVE IInv'
    OBVIOUS
  <2>1. UNCHANGED <<Indices, Visited>> /\ \A b : UNCHANGED Waiting(b)
    BY DEF vars, Indices, Visited, Waiting
  <2>2. \A x, d : UNCHANGED Wanted(x, d)
    BY DEF vars, Wanted, SeqSet
  <2>3. \A x, d : UNCHANGED Dealt(x, d)
    BY DEF vars, Dealt, SeqSet
  <2>4. \A S : UNCHANGED Closed(S)
    BY DEF vars, Closed, Needs, SeqSet
  <2>5. Types' /\ ListedOnce'
    BY <2>1 DEF vars, IInv, Types, ListedOnce
  <2>6. Called' /\ Covered'
    BY <2>2, <2>3 DEF vars, IInv, Called, Covered, SeqSet
  <2>7. Grounded'
    BY <2>2, <2>4 DEF vars, IInv, Grounded, SeqSet
  <2>8. Counted' /\ Placed' /\ Visiting' /\ Ended'
    BY <2>1 DEF vars, IInv, Counted, Placed, Visiting, Ended, SeqSet
  <2> QED
    BY <2>5, <2>6, <2>7, <2>8 DEF IInv
<1>2. IInv /\ [Next]_vars => IInv'
  BY <1>1, MissingPackageStep, checkDependeciesStep, NotFoundStep, CountStep, StartStep,
     VisitStep, KnockDownStep, ReturnStep DEF Next
<1> QED
  BY <1>2, InitInv, PTL DEF Spec

\* The types hold in every state: every index that waits or is placed is the
\* place of a listed package, and no count of predecessors falls below zero.
THEOREM TypesHold == Spec => []TypeOK
<1>1. IInv => TypeOK
  <2> SUFFICES ASSUME IInv  PROVE TypeOK
    OBVIOUS
  <2>1. Types /\ missing \subseteq Pkg \ Repo
    BY DEF IInv, Grounded
  <2>2. CASE pc \in {"check", "notfound"}
    <3>1. numPreds = << >> /\ DOMAIN numPreds = {}
      BY <2>2 DEF IInv, Counted
    <3> QED
      BY <2>1, <3>1 DEF TypeOK, Types, Indices
  <2>3. CASE pc \in {"start", "loop", "sorted", "cyclic"}
    <3>1. DOMAIN numPreds \subseteq Indices /\ \A n \in DOMAIN numPreds : numPreds[n] \in Nat
      BY <2>1, <2>3, WaitingFinite DEF IInv, Counted
    <3> QED
      BY <2>1, <3>1 DEF TypeOK, Types, Indices
  <2> QED
    BY <2>1, <2>2, <2>3 DEF Types
<1> QED
  BY <1>1, Invariant, PTL

\* The assertion in topSort never fails: the element taken from the result is
\* still counted and waits for nothing.
THEOREM AssertionHolds == Spec => []Ready
<1>1. IInv => Ready
  <2> SUFFICES ASSUME IInv, pc = "loop", succs = {}, elem < Len(result)
               PROVE  result[elem + 1] \in DOMAIN numPreds /\ numPreds[result[elem + 1]] = 0
    BY DEF Ready
  <2> DEFINE b == result[elem + 1]
  <2>1. Types /\ elem + 1 \in DOMAIN result /\ elem \in Nat /\ b \in Indices
    BY DEF IInv, Types
  <2>2. b \notin Visited
    BY <2>1 DEF IInv, Placed, Visited, Types
  <2>3. Waiting(b) = {}
    BY <2>1 DEF IInv, Placed, SeqSet
  <2> HIDE DEF b
  <2>4. b \in DOMAIN numPreds /\ numPreds[b] = Cardinality(Waiting(b))
    BY <2>1, <2>2 DEF IInv, Counted
  <2> QED
    BY <2>3, <2>4, FS_EmptySet DEF b
<1> QED
  BY <1>1, Invariant, PTL

\* Once every index is placed the result is a numbering of the whole list.
LEMMA AllPlaced ==
  ASSUME IInv, pc = "sorted"
  PROVE  /\ SeqSet(result) = Indices
         /\ SeqSet(deps) = SeqSet(depList)
         /\ DOMAIN deps = DOMAIN result /\ \A k \in DOMAIN result : deps[k] = depList[result[k]]
<1>1. Types /\ elem = Len(result) /\ DOMAIN numPreds = {}
  BY DEF IInv, Ended
<1>2. Indices = Visited
  <2>1. Visited \subseteq Indices
    BY <1>1 DEF Types, Visited
  <2> QED
    BY <1>1, <2>1 DEF IInv, Counted
<1>3. SeqSet(result) = Indices
  <2>1. DOMAIN result = 1..elem
    BY <1>1 DEF Types
  <2> QED
    BY <1>2, <2>1 DEF Visited, SeqSet
<1>4. DOMAIN depList = Indices
  BY <1>1 DEF Types, Indices
<1>5. DOMAIN deps = DOMAIN result /\ \A k \in DOMAIN result : deps[k] = depList[result[k]]
  BY DEF deps
<1>6. SeqSet(deps) = {depList[result[k]] : k \in DOMAIN result}
  BY <1>5 DEF SeqSet
<1> QED
  BY <1>3, <1>4, <1>5, <1>6 DEF SeqSet

\* What a listed package needs is listed, and there is a pair that says so.
LEMMA NeededListed ==
  ASSUME IInv, calls = << >>, NEW d \in 0..Len(depList), NEW x \in Repo, Wanted(x, d)
  PROVE  \E k \in DOMAIN pairs : /\ pairs[k][1] \in Indices /\ depList[pairs[k][1]] = x
                                 /\ d # NoDepender => pairs[k][2] = d
<1>1. Dealt(x, d) /\ Types
  BY RepoAssumption DEF IInv, Covered
<1>2. SeqSet(calls) = {}
  BY DEF SeqSet
<1>3. \A k \in DOMAIN pairs : pairs[k][1] \in Indices
  BY <1>1 DEF Types
<1> QED
  BY <1>1, <1>2, <1>3 DEF Dealt

LEMMA ListClosed ==
  ASSUME IInv, calls = << >>
  PROVE  Closed(SeqSet(depList))
<1>1. Types
  BY DEF IInv
<1>2. \A i \in Indices : i \in DOMAIN depList /\ i \in 0..Len(depList) /\ i # NoDepender
  BY <1>1 DEF Types, Indices, NoDepender
<1>3. ASSUME NEW x \in SeqSet(args), x \in Repo  PROVE x \in SeqSet(depList)
  <2>1. NoDepender \in 0..Len(depList) /\ Wanted(x, NoDepender)
    BY <1>1, <1>3 DEF Types, Wanted, NoDepender
  <2> QED
    BY <1>2, <1>3, <2>1, NeededListed DEF SeqSet
<1>4. ASSUME NEW pkg \in SeqSet(depList), NEW x \in Needs(pkg)  PROVE x \in SeqSet(depList)
  <2>1. PICK d \in Indices : depList[d] = pkg
    BY <1>1 DEF SeqSet, Types, Indices
  <2>2. Wanted(x, d) /\ x \in Repo
    BY <1>2, <1>4, <2>1 DEF Wanted, Needs
  <2> QED
    BY <1>2, <2>2, NeededListed DEF SeqSet
<1> QED
  BY <1>3, <1>4 DEF Closed

\* The sorted list is the least closure of the given packages under their
\* dependencies, and its order puts each of them after what it needs.
THEOREM SortIsRight == Spec => []Sorted
<1>1. IInv => Sorted
  <2> SUFFICES ASSUME IInv, pc = "sorted"
               PROVE  /\ Closed(SeqSet(deps))
                      /\ \A S \in SUBSET Repo : Closed(S) => SeqSet(deps) \subseteq S
                      /\ \A i, j \in DOMAIN deps :
                           deps[j] \in Needs(deps[i]) => j < i \/ deps[j] = deps[i]
                      /\ \A i, j \in DOMAIN deps : deps[i] = deps[j] => i = j
    BY DEF Sorted
  <2>1. /\ Types /\ calls = << >> /\ elem = Len(result)
        /\ SeqSet(result) = Indices /\ SeqSet(deps) = SeqSet(depList)
        /\ DOMAIN deps = DOMAIN result /\ \A k \in DOMAIN result : deps[k] = depList[result[k]]
    BY AllPlaced DEF IInv, Called, Ended
  <2>2. Closed(SeqSet(deps))
    BY <2>1, ListClosed
  <2>3. \A S \in SUBSET Repo : Closed(S) => SeqSet(deps) \subseteq S
    BY <2>1 DEF IInv, Grounded
  <2>4. \A k \in DOMAIN result : result[k] \in Indices
    BY <2>1 DEF SeqSet
  <2>5. /\ \A i, j \in Indices : depList[i] = depList[j] => i = j
        /\ \A j, k \in DOMAIN result : result[j] = result[k] => j = k
    BY DEF IInv, ListedOnce, Placed
  <2>6. \A i, j \in DOMAIN deps : deps[i] = deps[j] => i = j
    BY <2>1, <2>4, <2>5
  <2>7. ASSUME NEW i \in DOMAIN deps, NEW j \in DOMAIN deps,
               deps[j] \in Needs(deps[i]), deps[j] # deps[i]
        PROVE  j < i
    <3> DEFINE d == result[i]
    <3>1. d \in Indices /\ d \in 0..Len(depList) /\ d # NoDepender
      BY <2>1, <2>4 DEF Types, Indices, NoDepender
    <3>2. deps[j] \in Repo /\ Wanted(deps[j], d)
      BY <2>1, <2>7, <3>1 DEF Needs, Wanted
    <3> HIDE DEF d
    <3>3. PICK k \in DOMAIN pairs :
               pairs[k][1] \in Indices /\ depList[pairs[k][1]] = deps[j] /\ pairs[k][2] = d
      BY <2>1, <3>1, <3>2, NeededListed
    <3>4. pairs[k][1] = result[j] /\ pairs[k][2] = result[i] /\ result[j] # result[i]
      BY <2>1, <2>4, <2>5, <2>7, <3>3 DEF d
    <3>5. PICK m \in 1..elem : m < i /\ result[m] = result[j]
      BY <2>1, <3>4 DEF IInv, Placed
    <3>6. m \in DOMAIN result
      BY <2>1 DEF Types
    <3>7. m = j
      BY <2>1, <2>5, <3>5, <3>6
    <3> QED
      BY <3>5, <3>7
  <2> QED
    BY <2>2, <2>3, <2>6, <2>7
<1> QED
  BY <1>1, Invariant, PTL

\* A cyclic dependency is reported only where there is one: the packages that
\* found no place each wait for another of them.
THEOREM CycleIsReal == Spec => []Cyclic
<1>1. IInv => Cyclic
  <2> SUFFICES ASSUME IInv, pc = "cyclic"
               PROVE  \E S \in SUBSET SeqSet(depList) \ {{}} :
                        \A pkg \in S : (Needs(pkg) \ {pkg}) \intersect S # {}
    BY DEF Cyclic
  <2> DEFINE S == {depList[b] : b \in DOMAIN numPreds}
  <2>1. /\ Types /\ elem = Len(result) /\ DOMAIN numPreds # {}
        /\ DOMAIN numPreds = Indices \ Visited
        /\ succs = {}
    BY DEF IInv, Ended, Counted, Visiting
  <2>2. S \subseteq SeqSet(depList) /\ S # {}
    <3>1. \A b \in Indices : b \in DOMAIN depList
      BY <2>1 DEF Types, Indices
    <3> QED
      BY <2>1, <3>1 DEF SeqSet
  <2>3. ASSUME NEW b \in DOMAIN numPreds
        PROVE  (Needs(depList[b]) \ {depList[b]}) \intersect S # {}
    <3>1. b \in Indices /\ b \notin SeqSet(result)
      BY <2>1 DEF Types, Visited, SeqSet
    <3>2. PICK i \in Waiting(b) : TRUE
      BY <3>1 DEF IInv, Placed
    <3> DEFINE a == pairs[i][1]
    <3>3. i \in DOMAIN pairs /\ pairs[i][2] = b /\ a # b /\ a \in DOMAIN numPreds
      BY <2>1, <3>2 DEF Waiting
    <3>4. Wanted(depList[a], b)
      BY <3>3 DEF IInv, Grounded
    <3>5. depList[a] # depList[b]
      BY <2>1, <3>1, <3>3 DEF IInv, ListedOnce
    <3>6. depList[a] \in Repo /\ b # NoDepender
      <4>1. a \in Indices
        BY <2>1, <3>3
      <4> HIDE DEF a
      <4> QED
        BY <2>1, <3>1, <4>1 DEF Types, Indices, NoDepender
    <3>7. depList[a] \in Needs(depList[b])
      BY <3>4, <3>6 DEF Wanted, Needs
    <3> QED
      BY <3>3, <3>5, <3>7
  <2> HIDE DEF S
  <2>4. \A pkg \in S : (Needs(pkg) \ {pkg}) \intersect S # {}
    BY <2>3 DEF S
  <2> QED
    BY <2>2, <2>4
<1> QED
  BY <1>1, Invariant, PTL

\* What is reported missing is what the user or a listed package names and the
\* repository does not have, all of it and nothing else.
THEOREM MissingIsRight == Spec => []Missing
<1>1. IInv => Missing
  <2> SUFFICES ASSUME IInv, pc \in {"sorted", "cyclic"}
               PROVE  missing = (SeqSet(args) \union UNION {SeqSet(dependencies[pkg]) :
                                                            pkg \in SeqSet(depList)}) \ Repo
    BY DEF Missing
  <2> DEFINE W == {x \in Pkg \ Repo : \E d \in 0..Len(depList) : Wanted(x, d)}
             N == (SeqSet(args) \union UNION {SeqSet(dependencies[pkg]) : pkg \in SeqSet(depList)})
                  \ Repo
  <2>1. Types /\ calls = << >>
    BY DEF IInv, Called
  <2>2. missing \subseteq W
    BY DEF IInv, Grounded
  <2>3. ASSUME NEW x \in W  PROVE x \in missing
    <3>1. PICK d \in 0..Len(depList) : Wanted(x, d)
      OBVIOUS
    <3>2. SeqSet(calls) = {} /\ Dealt(x, d)
      BY <2>1, <3>1 DEF IInv, Covered, SeqSet
    <3> QED
      BY <3>2 DEF Dealt
  <2>4. ASSUME NEW x \in W  PROVE x \in N
    <3>1. PICK d \in 0..Len(depList) : Wanted(x, d)
      OBVIOUS
    <3>2. d = NoDepender \/ d \in DOMAIN depList
      BY <2>1 DEF Types, NoDepender
    <3> QED
      BY <3>1, <3>2 DEF Wanted, SeqSet
  <2>5. ASSUME NEW x \in N  PROVE x \in W
    <3>1. CASE x \in SeqSet(args)
      <4>1. x \in Pkg /\ NoDepender \in 0..Len(depList)
        BY <2>1, <3>1 DEF Types, SeqSet, NoDepender
      <4> QED
        BY <3>1, <4>1 DEF Wanted
    <3>2. CASE x \notin SeqSet(args)
      <4>1. PICK d \in DOMAIN depList : x \in SeqSet(dependencies[depList[d]])
        BY <3>2 DEF SeqSet
      <4>2. d \in 0..Len(depList) /\ d # NoDepender /\ depList[d] \in Repo
        BY <2>1 DEF Types, NoDepender
      <4>3. dependencies[depList[d]] \in Seq(Pkg)
        BY <2>1, <4>2 DEF Types
      <4>4. x \in Pkg
        BY <4>1, <4>3 DEF SeqSet
      <4> QED
        BY <4>1, <4>2, <4>4 DEF Wanted
    <3> QED
      BY <3>1, <3>2
  <2> QED
    BY <2>2, <2>3, <2>4, <2>5
<1> QED
  BY <1>1, Invariant, PTL

===============================================================================
