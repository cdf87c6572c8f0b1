---------------------------- MODULE RejMergeChecks ----------------------------
(***************************************************************************)
(* What rejmerge does to files, for every pair of an installed and a       *)
(* rejected file and all answers.  Every ASSUME states one fact and is     *)
(* evaluated when a module that extends this one is model-checked.         *)
(***************************************************************************)
EXTENDS Integers, Sequences, FiniteSets, TLC

CONSTANTS NoFile, Root

Rej == INSTANCE RejMerge

AFile(kind, data, mode, owner) == [kind |-> kind, data |-> data, mode |-> mode, owner |-> owner]

SomeFiles ==
  {AFile("regular", data, mode, owner) : data \in {"old", "new"}, mode \in {"644", "600"}, owner \in {Root, "www"}}
  \union {AFile("link", "old", "777", Root), AFile("directory", "old", "755", Root)}
Dangling == AFile("dangling", "old", "777", Root)

Sessions ==
  {[inst |-> i, rej |-> r, tmp |-> NoFile] :
     i \in SomeFiles \union {Dangling, NoFile}, r \in {f \in SomeFiles : f.kind # "directory"}}

Answers ==
  [permissions : {"keep", "upgrade", "skip"}, content : {"keep", "upgrade", "merge", "skip"},
   merged : {"install", "skip"}, edited : {"merged"}]

\* The menu for files that are not both regular has no merge.
Asked(s, a) ==
  a.content = "merge" => Rej!Exists(s.inst) /\ Rej!Regular(s.inst) /\ Rej!Regular(s.rej)

\* A rejected file goes if there is no installed one, if they are equal, or if the
\* answers say so, and stays otherwise.
ASSUME GoesWhenDecided ==
  \A s \in Sessions, a \in Answers : Asked(s, a) =>
    LET both == Rej!Exists(s.inst) /\ Rej!Regular(s.inst) /\ Rej!Regular(s.rej)
        decided == \/ ~ Rej!Exists(s.inst)
                   \/ both /\ s.inst.data = s.rej.data
                   \/ a.content \in {"keep", "upgrade"}
                   \/ a.content = "merge" /\ a.merged = "install"
    IN  (Rej!Session(s, a).rej = NoFile) = decided

\* Keeping and skipping leave the installed file's contents, and its permissions
\* unless these were to be upgraded.
ASSUME KeepsInstalled ==
  \A s \in Sessions, a \in Answers :
    Rej!Exists(s.inst) /\ a.content \in {"keep", "skip"} =>
      LET after == Rej!Session(s, a).inst IN
      /\ after.kind = s.inst.kind /\ after.data = s.inst.data
      /\ a.permissions # "upgrade" => after = s.inst

\* The permissions the user kept or upgraded are those of what is installed in
\* the end, whatever was chosen for regular files, but for a merged one's owner.
ASSUME Permissions ==
  \A s \in Sessions, a \in Answers :
    Rej!Exists(s.inst) /\ Rej!Regular(s.inst) /\ Rej!Regular(s.rej) =>
      LET after == Rej!Session(s, a).inst
          merged == s.inst.data # s.rej.data /\ a.content = "merge" /\ a.merged = "install"
          ref == IF a.permissions = "upgrade" THEN s.rej ELSE s.inst
      IN  ~ (a.permissions = "skip" /\ a.content = "upgrade") =>
            after.mode = ref.mode /\ (after.owner = IF merged THEN Root ELSE ref.owner)

\* Permissions that were skipped are forgotten with the rejected file when the
\* contents are equal: nothing is left to ask about.
ASSUME SkippedPermissions ==
  \A s \in Sessions, a \in Answers :
    Rej!Exists(s.inst) /\ Rej!Regular(s.inst) /\ Rej!Regular(s.rej) /\ s.inst.data = s.rej.data
      => Rej!Session(s, a).rej = NoFile

\* An interruption leaves the installed contents whole, and the rejected contents
\* or what was chosen instead of them; a second run with the same answers comes
\* to the same contents, for files that are not in the way of a directory.
ASSUME Resumable ==
  \A s \in Sessions, a \in Answers :
    LET full == Rej!Session(s, a)
        Whole(n) == Rej!Interrupted(s, a, n)
        resumed(n) == Rej!Session([Whole(n) EXCEPT !.tmp = NoFile], a)
    IN  Asked(s, a) /\ Rej!Exists(s.inst) /\ s.inst.kind # "directory" =>
          \A n \in 0..Len(Rej!Commands(s, a)) :
            /\ Whole(n).inst.data \in {s.inst.data, full.inst.data}
            /\ Whole(n).rej = NoFile => Whole(n).inst.data = full.inst.data
            /\ Whole(n).rej # NoFile => resumed(n).inst.data = full.inst.data

\* The one command that is not atomic: the merged file comes from /tmp.  If the
\* copy is cut short, what was installed is lost and what was rejected is not;
\* but if nothing was copied the next run removes that, too, without asking.
ASSUME TornMerge ==
  \A s \in Sessions, copied \in BOOLEAN :
    Rej!Exists(s.inst) /\ Rej!Regular(s.inst) /\ Rej!Regular(s.rej) /\ s.inst.data # s.rej.data =>
      LET a == [permissions |-> "skip", content |-> "merge", merged |-> "install", edited |-> "merged"]
          cmds == Rej!Commands(s, a)
          at == CHOOSE n \in DOMAIN cmds : cmds[n] = "mv tmp inst"
          torn == Rej!TornMove(Rej!Interrupted(s, a, at - 1), copied)
          skipped == Rej!Session(torn, [a EXCEPT !.content = "skip"])
      IN  /\ torn.rej = s.rej
          /\ copied => torn.inst.data = "torn" /\ skipped.rej = s.rej
          /\ ~ copied => skipped.inst = NoFile /\ skipped.rej = NoFile

\* Without asking: a rejected file is removed when the installed one is a link
\* that leads nowhere.  And mv puts a file into the directory that is in its
\* place.
ASSUME Unasked ==
  \A s \in Sessions, a \in Answers :
    /\ s.inst = Dangling => Rej!Session(s, a).rej = NoFile /\ ~ Rej!Found(s)
    /\ s.inst # NoFile /\ s.inst.kind = "directory" /\ a.content = "upgrade"
         => Rej!Session(s, a).inst.kind = "directory"

\* pkgadd replaces the rejected file between the question and the answer: what is
\* installed, or dropped, is the file nobody has seen.
ASSUME Unseen ==
  \A s \in Sessions, a \in Answers :
    LET newer == AFile("regular", "newer", "644", Root)
        cmds == Rej!Commands(s, a)
        after == Rej!Run([Rej!Shown(s, a) EXCEPT !.rej = newer], cmds)
    IN  Asked(s, a) /\ Rej!Exists(s.inst) /\ Rej!Regular(s.inst) /\ Rej!Regular(s.rej) /\ s.inst.data # s.rej.data
          => /\ a.content = "upgrade" => after.inst.data = "newer"
             /\ a.content = "keep" \/ (a.content = "merge" /\ a.merged = "install") => after.rej = NoFile

\* If nothing is skipped, nothing is left, neither files nor directories, and the
\* next run finds nothing; what is skipped is found again.
ASSUME EmptiesArea ==
  \A s1, s2 \in {s \in Sessions : s.inst # NoFile /\ s.inst.mode # "600" /\ s.rej.owner = Root}, c1, c2 \in {"keep", "skip"} :
    LET a(c) == [permissions |-> "keep", content |-> c, merged |-> "skip", edited |-> "merged"]
        near == <<"etc", "conf">>
        far == <<"etc", "dir", "conf">>
        result == Rej!main(near :> s1 @@ far :> s2, near :> a(c1) @@ far :> a(c2))
        left == {p \in {near, far} : result.files[p].rej # NoFile}
    IN  /\ result.dirs = (IF left = {} THEN {} ELSE {<<"etc">>}) \union (IF far \in left THEN {<<"etc", "dir">>} ELSE {})
        /\ c1 = "keep" /\ c2 = "keep" => left = {}
        /\ \A p \in left : Rej!Found(result.files[p])

\* --root needs a value, and only root finds anything to do.
ASSUME StartsFor ==
  \A o \in {"none", "--root", "--help", "--version", "unknown"}, v \in {"", "/mnt"}, d, r \in BOOLEAN :
    LET start == Rej!Start([option |-> o, value |-> v, rejected |-> d, root |-> r])
    IN  /\ (start = Rej!Goes) = (o \in {"none", "--root"} /\ (o = "--root" => v # "") /\ d /\ r)
        /\ (start = 0) = (o \in {"--help", "--version"})
===============================================================================
