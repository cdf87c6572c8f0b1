---------------------------- MODULE DbCommit_proofs ----------------------------
(***************************************************************************)
(* db_commit is atomic for any number of versions and inodes.              *)
(***************************************************************************)
EXTENDS DbCommit, TLAPS

\* An inode whose contents are whole and on disk.
Safe(i) == Whole(i) /\ i \in synced

\* In every state of the directory a power loss may leave, the database is safe
\* and so is the backup; intactness now rests on it, as each of these states
\* may become the present one.
Recoverable ==
  \A d \in pending :
    /\ Safe(d["db"])
    /\ d["bak"] # None => Safe(d["bak"])

\* The new file is written while no name of the database or of the backup leads
\* to it, and is safe before it gets one.
NewInv ==
  /\ pc \in {"write", "fsync"} =>
       /\ dir["new"] \in Inode
       /\ \A d \in pending : dir["new"] \notin {d["db"], d["bak"]}
  /\ pc = "fsync" => content[dir["new"]] = packages
  /\ pc \in {"unlink_bak", "link", "rename"} =>
       Safe(dir["new"]) /\ content[dir["new"]] = packages
  /\ pc = "rename" => dir["bak"] = dir["db"]

IInv == TypeOK /\ Recoverable /\ NewInv

\* The steps that change a name.
LEMMA RelinkType ==
  ASSUME TypeOK, NEW n \in Name, NEW i \in Inode \union {None},
         Relink([dir EXCEPT ![n] = i])
  PROVE  /\ dir' \in [Name -> Inode \union {None}]
         /\ dir'[n] = i
         /\ \A m \in Name \ {n} : dir'[m] = dir[m]
         /\ pending' = pending \union {dir'}
         /\ dir' \in pending'
         /\ pending' \subseteq [Name -> Inode \union {None}]
BY DEF TypeOK, Relink

LEMMA InitInv == Init => IInv
<1> SUFFICES ASSUME Init PROVE IInv
  OBVIOUS
<1>1. dir \in [Name -> Inode \union {None}] /\ dir["db"] = First /\ dir["bak"] = None
  BY DbAssumption DEF Init, Name
<1>2. TypeOK
  BY <1>1, DbAssumption DEF Init, TypeOK
<1>3. Recoverable
  BY <1>1, DbAssumption DEF Init, Recoverable, Safe, Whole
<1>4. NewInv
  BY DEF Init, NewInv
<1> QED
  BY <1>2, <1>3, <1>4 DEF IInv

LEMMA NextInv == IInv /\ [Next]_vars => IInv'
<1> SUFFICES ASSUME IInv, [Next]_vars PROVE IInv'
  OBVIOUS
<1> USE DEF IInv
<1>1. CASE Begin
  BY <1>1 DEF Begin, TypeOK, Recoverable, NewInv, Safe, Whole
<1>2. CASE unlink_new
  <2>1. /\ Relink([dir EXCEPT !["new"] = None]) /\ "new" \in Name
        /\ UNCHANGED <<content, synced, packages>> /\ pc' = "creat"
    BY <1>2 DEF unlink_new, Step, Name
  <2>2. /\ dir' \in [Name -> Inode \union {None}] /\ pending' = pending \union {dir'}
        /\ pending' \subseteq [Name -> Inode \union {None}]
        /\ dir'["db"] = dir["db"] /\ dir'["bak"] = dir["bak"]
    BY <2>1, RelinkType DEF Name
  <2> QED
    BY <2>1, <2>2 DEF TypeOK, Recoverable, NewInv, Safe, Whole
<1>3. CASE creat
  <2>1. PICK i \in Inode \ Used :
           /\ Relink([dir EXCEPT !["new"] = i])
           /\ content' = [content EXCEPT ![i] = Torn]
           /\ synced' = synced \ {i}
    BY <1>3 DEF creat
  <2>2. "new" \in Name /\ pc' = "write" /\ UNCHANGED packages
    BY <1>3 DEF creat, Step, Name
  <2>3. /\ dir' \in [Name -> Inode \union {None}] /\ pending' = pending \union {dir'}
        /\ pending' \subseteq [Name -> Inode \union {None}]
        /\ dir'["db"] = dir["db"] /\ dir'["bak"] = dir["bak"] /\ dir'["new"] = i
    BY <2>1, <2>2, RelinkType DEF Name
  <2>4. \A d \in pending : i \notin {d["db"], d["bak"]}
    BY <2>1 DEF Used, Name
  <2>5. dir \in pending
    BY DEF TypeOK
  <2>6. TypeOK'
    BY <2>1, <2>2, <2>3 DEF TypeOK
  <2>7. Recoverable'
    BY <2>1, <2>3, <2>4, <2>5 DEF TypeOK, Recoverable, Safe, Whole
  <2>8. NewInv'
    BY <2>1, <2>2, <2>3, <2>4, <2>5 DEF NewInv
  <2> QED
    BY <2>6, <2>7, <2>8
<1>4. CASE write
  <2>1. /\ pc = "write" /\ pc' = "fsync" /\ UNCHANGED <<packages, dir, synced, pending>>
        /\ content' = [content EXCEPT ![dir["new"]] = packages]
    BY <1>4 DEF write, Step
  <2>2. TypeOK'
    BY <2>1 DEF TypeOK
  <2>3. Recoverable'
    BY <2>1 DEF TypeOK, Recoverable, NewInv, Safe, Whole
  <2>4. NewInv'
    BY <2>1 DEF TypeOK, NewInv
  <2> QED
    BY <2>2, <2>3, <2>4
<1>5. CASE fsync
  <2>1. /\ pc = "fsync" /\ pc' = "unlink_bak" /\ synced' = synced \union {dir["new"]}
        /\ UNCHANGED <<packages, dir, content, pending>>
    BY <1>5 DEF fsync, Step
  <2>2. TypeOK' /\ Recoverable'
    BY <2>1 DEF TypeOK, Recoverable, NewInv, Safe, Whole
  <2>3. NewInv'
    BY <2>1 DEF TypeOK, NewInv, Safe, Whole
  <2> QED
    BY <2>2, <2>3
<1>6. CASE unlink_bak
  <2>1. /\ Relink([dir EXCEPT !["bak"] = None]) /\ "bak" \in Name
        /\ UNCHANGED <<content, synced, packages>> /\ pc = "unlink_bak" /\ pc' = "link"
    BY <1>6 DEF unlink_bak, Step, Name
  <2>2. /\ dir' \in [Name -> Inode \union {None}] /\ pending' = pending \union {dir'}
        /\ pending' \subseteq [Name -> Inode \union {None}]
        /\ dir'["db"] = dir["db"] /\ dir'["bak"] = None /\ dir'["new"] = dir["new"]
    BY <2>1, RelinkType DEF Name
  <2>3. TypeOK' /\ Recoverable'
    BY <2>1, <2>2 DEF TypeOK, Recoverable, Safe, Whole
  <2>4. NewInv'
    BY <2>1, <2>2 DEF NewInv, Safe, Whole
  <2> QED
    BY <2>3, <2>4
<1>7. CASE link
  <2>1. /\ Relink([dir EXCEPT !["bak"] = dir["db"]]) /\ "bak" \in Name
        /\ UNCHANGED <<content, synced, packages>> /\ pc = "link" /\ pc' = "rename"
        /\ dir["db"] \in Inode \union {None} /\ dir \in pending
    BY <1>7 DEF link, Step, Name, TypeOK
  <2>2. /\ dir' \in [Name -> Inode \union {None}] /\ pending' = pending \union {dir'}
        /\ pending' \subseteq [Name -> Inode \union {None}]
        /\ dir'["db"] = dir["db"] /\ dir'["bak"] = dir["db"] /\ dir'["new"] = dir["new"]
    BY <2>1, RelinkType DEF Name
  <2>3. TypeOK' /\ Recoverable'
    BY <2>1, <2>2 DEF TypeOK, Recoverable, Safe, Whole
  <2>4. NewInv'
    BY <2>1, <2>2 DEF NewInv, Safe, Whole
  <2> QED
    BY <2>3, <2>4
<1>8. CASE rename
  <2>1. /\ dir' = [dir EXCEPT !["db"] = dir["new"], !["new"] = None]
        /\ pending' = pending \union {dir'}
        /\ UNCHANGED <<content, synced, packages>> /\ pc = "rename" /\ pc' = "idle"
    BY <1>8 DEF rename, Step, Relink
  <2>2. /\ dir' \in [Name -> Inode \union {None}]
        /\ dir'["db"] = dir["new"] /\ dir'["bak"] = dir["bak"]
    BY <2>1 DEF TypeOK, Name
  <2>3. TypeOK'
    BY <2>1, <2>2 DEF TypeOK
  <2>4. Recoverable'
    BY <2>1, <2>2 DEF TypeOK, Recoverable, NewInv, Safe, Whole
  <2>5. NewInv'
    BY <2>1 DEF NewInv
  <2> QED
    BY <2>3, <2>4, <2>5
<1>9. CASE Stop
  BY <1>9 DEF Stop, TypeOK, Recoverable, NewInv, Safe, Whole
<1>10. CASE Flush
  BY <1>10 DEF Flush, TypeOK, Recoverable, NewInv, Safe, Whole
<1>11. CASE Loss
  <2>1. PICK lost \in SUBSET (Inode \ synced) :
           content' = [i \in Inode |-> IF i \in lost THEN Torn ELSE content[i]]
    BY <1>11 DEF Loss
  <2>2. dir' \in pending /\ pending' = {dir'} /\ synced' = Inode
    BY <1>11 DEF Loss
  <2>3. pc' = "idle" /\ UNCHANGED packages
    BY <1>11 DEF Loss
  <2>4. \A i \in synced : i \in Inode => content'[i] = content[i]
    BY <2>1
  <2>5. TypeOK'
    BY <2>1, <2>2, <2>3 DEF TypeOK
  <2>6. Recoverable'
    BY <2>2, <2>4 DEF TypeOK, Recoverable, Safe, Whole
  <2>7. NewInv'
    BY <2>3 DEF NewInv
  <2> QED
    BY <2>5, <2>6, <2>7
<1>12. CASE UNCHANGED vars
  BY <1>12 DEF vars, TypeOK, Recoverable, NewInv, Safe, Whole
<1> QED
  BY <1>1, <1>2, <1>3, <1>4, <1>5, <1>6, <1>7, <1>8, <1>9, <1>10, <1>11, <1>12 DEF Next

LEMMA Invariance == Spec => []IInv
  BY InitInv, NextInv, PTL DEF Spec

\* The types hold whatever fails: the names lead to inodes there are, and what
\* may come back after a power loss is among the states of the directory.
THEOREM DbTypes == Spec => []TypeOK
<1>1. IInv => TypeOK
  BY DEF IInv
<1> QED
  BY <1>1, Invariance, PTL

\* Whatever fails, is killed or is lost, the database file is there and whole,
\* and so is the backup unless there is none.
THEOREM DbIntact == Spec => []Intact
<1>1. IInv => Intact
  BY DEF IInv, TypeOK, Recoverable, Safe, Intact
<1> QED
  BY <1>1, Invariance, PTL

\* The steps that write an inode write none that a pending state of the
\* directory calls the database or its backup.
LEMMA FrozenStep ==
  ASSUME IInv, [Next]_vars, NEW d \in pending, NEW n \in {"db", "bak"}, d[n] # None
  PROVE  content'[d[n]] = content[d[n]]
<1>1. Safe(d[n]) /\ d[n] \in Inode
  BY DEF IInv, Recoverable, Safe, Whole
<1>2. CASE creat
  <2>1. PICK i \in Inode \ Used : content' = [content EXCEPT ![i] = Torn]
    BY <1>2 DEF creat
  <2>2. d[n] \in Used
    BY DEF Used, Name
  <2> QED
    BY <1>1, <2>1, <2>2 DEF IInv, TypeOK
<1>3. CASE write
  BY <1>1, <1>3 DEF write, Step, IInv, TypeOK, NewInv
<1>4. CASE Loss
  BY <1>1, <1>4 DEF Loss, Safe
<1>5. CASE UNCHANGED content
  BY <1>5
<1> QED
  BY <1>2, <1>3, <1>4, <1>5
     DEF Next, vars, Begin, unlink_new, fsync, unlink_bak, link, rename, Stop, Flush

\* What was once moved into place is never written again: a reader that has
\* opened the database or its backup reads one version to the end.
THEOREM DbFrozen == Spec => Frozen
<1>1. IInv /\ [Next]_vars =>
        [\A d \in pending : \A n \in {"db", "bak"} :
           d[n] # None => content'[d[n]] = content[d[n]]]_vars
  BY FrozenStep
<1> QED
  BY <1>1, Invariance, PTL DEF Spec, Frozen

\* The backup is the version that was replaced.
THEOREM DbBackup == Spec => Backup
<1>1. IInv /\ [Next]_vars => [rename => content'[dir'["bak"]] = content[dir["db"]]]_vars
  BY DEF IInv, TypeOK, NewInv, rename, Step, Relink, Name
<1> QED
  BY <1>1, Invariance, PTL DEF Spec, Backup

\* db_commit implements the atomic store: the versions a power loss may leave
\* are what the pending states of the directory call the database.
THEOREM Refinement == Spec => StoreSpec
<1> DEFINE v == content[dir["db"]]
           s == {content[d["db"]] : d \in pending}
<1>1. Init => Store!Init
  <2> SUFFICES ASSUME Init PROVE v = Initial /\ s = {Initial}
    BY DEF Store!Init
  <2>1. dir["db"] = First
    BY DEF Init, Name
  <2> QED
    BY <2>1, DbAssumption DEF Init
<1>2. IInv /\ [Next]_vars => [Store!Next]_<<v, s>>
  <2> SUFFICES ASSUME IInv, [Next]_vars PROVE [Store!Next]_<<v, s>>
    OBVIOUS
  <2> USE DEF IInv
  <2>1. \A d \in pending : d["db"] \in Inode /\ d["db"] \in synced
    BY DEF Recoverable, Safe, Whole
  <2>2. dir \in pending
    BY DEF TypeOK
  <2>3. \A d \in pending : content'[d["db"]] = content[d["db"]]
    BY <2>1, FrozenStep, DbAssumption
  <2>4. CASE dir'["db"] = dir["db"] /\ pending' \in {pending, pending \union {dir'}}
    BY <2>2, <2>3, <2>4
  <2>5. CASE rename
    <3>1. /\ dir'["db"] = dir["new"] /\ pending' = pending \union {dir'}
          /\ content' = content /\ content[dir["new"]] = packages
      BY <2>5 DEF rename, Step, Relink, TypeOK, NewInv, Name
    <3>2. v' = packages /\ s' = s \union {packages} /\ packages \in Value
      BY <3>1 DEF TypeOK
    <3> QED
      BY <3>2 DEF Store!Next, Store!Commit
  <2>6. CASE Flush
    <3>1. v' = v /\ s' = {v}
      BY <2>6 DEF Flush
    <3> QED
      BY <3>1 DEF Store!Next, Store!Flush
  <2>7. CASE Loss
    <3>1. dir' \in pending /\ pending' = {dir'}
      BY <2>7 DEF Loss
    <3>2. v' \in s /\ s' = {v'}
      BY <2>3, <3>1
    <3> QED
      BY <3>2 DEF Store!Next, Store!Loss
  <2>8. CASE unlink_new \/ creat \/ unlink_bak \/ link
    <3>1. pending' = pending \union {dir'} /\ dir'["db"] = dir["db"]
      BY <2>8 DEF unlink_new, creat, unlink_bak, link, Relink, TypeOK, Name
    <3> QED
      BY <2>4, <3>1
  <2>9. CASE Begin \/ write \/ fsync \/ Stop \/ UNCHANGED vars
    <3>1. pending' = pending /\ dir' = dir
      BY <2>9 DEF Begin, write, fsync, Stop, vars
    <3> QED
      BY <2>4, <3>1
  <2> QED
    BY <2>5, <2>6, <2>7, <2>8, <2>9 DEF Next
<1> QED
  BY <1>1, <1>2, Invariance, PTL DEF Spec, StoreSpec, Store!Spec
===============================================================================
