------------------------------- MODULE RejMerge -------------------------------
(***************************************************************************)
(* rejmerge: what the answers of its user do to the files pkgadd has       *)
(* rejected.  A session s is about one of them: inst and rej are the       *)
(* installed and the rejected file, tmp is $TMPFILE.  A file is a record   *)
(* of its kind, data, mode and owner, or NoFile.  A choice comes to a list *)
(* of commands; a signal is seen when a command has ended, so that an      *)
(* interrupted session has done the first of them.                         *)
(***************************************************************************)
EXTENDS Integers, Sequences, SequencesExt

CONSTANTS NoFile, Root  \* Root: the user that runs it, as the owner of a file

\* test -e looks behind a symbolic link, test -f too.
Exists(f) == f # NoFile /\ f.kind # "dangling"
Regular(f) == f.kind = "regular"

NewTmp(data) == [kind |-> "regular", data |-> data, mode |-> "600", owner |-> Root]

\* chown and chmod change what a link points to, which is not in s.
WithOwner(f, ref) == IF f.kind = "link" THEN f ELSE [f EXCEPT !.owner = ref.owner]
WithMode(f, ref) == IF f.kind = "link" THEN f ELSE [f EXCEPT !.mode = ref.mode]

\* What mv makes of its target: a directory gets the file in it.
Moved(f, target) == IF target.kind = "directory" THEN [target EXCEPT !.data = <<@, f.data>>] ELSE f

\* One command.
Do(s, cmd) ==
  CASE cmd = "rm rej" -> [s EXCEPT !.rej = NoFile]
    [] cmd = "mv rej inst" -> [s EXCEPT !.inst = Moved(s.rej, s.inst), !.rej = NoFile]
    [] cmd = "chown rej" -> [s EXCEPT !.rej = WithOwner(@, s.inst)]
    [] cmd = "chmod rej" -> [s EXCEPT !.rej = WithMode(@, s.inst)]
    [] cmd = "chown inst" -> [s EXCEPT !.inst = WithOwner(@, s.rej)]
    [] cmd = "chmod inst" -> [s EXCEPT !.inst = WithMode(@, s.rej)]
    [] cmd = "chmod tmp" -> [s EXCEPT !.tmp.mode = s.inst.mode]
    [] cmd = "mv tmp inst" -> [s EXCEPT !.inst = s.tmp, !.tmp = NoFile]
    [] cmd = "clear tmp" -> [s EXCEPT !.tmp = NewTmp("none")]

\* The menus.  Other keys, Diff and View only show the question again.
permissions_menu(answer) ==
  CASE answer = "keep" -> <<"chown rej", "chmod rej">>
    [] answer = "upgrade" -> <<"chown inst", "chmod inst">>
    [] answer = "skip" -> << >>

\* The owner of what is installed is not restored.
merge_menu(answer) ==
  (IF answer = "install" THEN <<"chmod tmp", "mv tmp inst", "rm rej">> ELSE << >>) \o <<"clear tmp">>

file_menu(answer) ==
  CASE answer = "keep" -> <<"rm rej">>
    [] answer = "upgrade" -> <<"mv rej inst">>
    [] answer = "skip" -> << >>

diff_menu(answers) ==
  (IF answers.content = "merge" THEN merge_menu(answers.merged) ELSE file_menu(answers.content))
  \o <<"clear tmp">>

SamePermissions(s) == s.inst.mode = s.rej.mode /\ s.inst.owner = s.rej.owner

\* The commands for a rejected file, from what is found when it is looked at.
\* answers: permissions, content, merged, and what the editor made of the merge.
Commands(s, answers) ==
  LET asked == IF SamePermissions(s) THEN << >> ELSE permissions_menu(answers.permissions)
  IN
  CASE ~ Exists(s.inst) -> <<"rm rej">>
    [] Exists(s.inst) /\ ~ (Regular(s.inst) /\ Regular(s.rej)) -> asked \o file_menu(answers.content)
    [] Exists(s.inst) /\ Regular(s.inst) /\ Regular(s.rej) ->
         asked \o (IF s.inst.data = s.rej.data THEN <<"rm rej">> ELSE diff_menu(answers))

\* REJECTED_FILES_FOUND.
Found(s) ==
  Exists(s.inst) /\ ~ (SamePermissions(s) /\ Regular(s.inst) /\ Regular(s.rej) /\ s.inst.data = s.rej.data)

\* rejmerge_merge and $EDITOR: the merged file is written before it is asked for.
Shown(s, answers) == [s EXCEPT !.tmp = NewTmp(IF answers.content = "merge" THEN answers.edited ELSE "diff")]

Run(s, commands) == FoldLeft(Do, s, commands)

\* A session that is interrupted after n commands, and one that is not.
Interrupted(s, answers, n) == Run(Shown(s, answers), SubSeq(Commands(s, answers), 1, n))
Session(s, answers) == Interrupted(s, answers, Len(Commands(s, answers)))

\* mv from /tmp to another file system removes the target and copies: a signal that
\* reaches it, as one from the terminal does, leaves what has been copied.
TornMove(s, copied) == [s EXCEPT !.inst = IF copied THEN [s.tmp EXCEPT !.data = "torn"] ELSE NoFile]

\* main: every file that was found when it started, then the empty directories.
\* files: the session of every rejected file, by its path.
main(files, answers) ==
  LET after == [p \in DOMAIN files |-> Session(files[p], answers[p])]
  IN  [files |-> after,
       dirs |-> UNION {{SubSeq(p, 1, k) : k \in 1..(Len(p) - 1)} :
                         p \in {q \in DOMAIN files : after[q].rej # NoFile}},
       nothing |-> \A p \in DOMAIN files : ~ Found(files[p])]

\* parse_options and the checks behind it: the exit status, or Goes.
Goes == -1
Start(cmd) ==
  CASE cmd.option \in {"--version", "--help"} -> 0
    [] cmd.option = "--root" /\ cmd.value = "" -> 1
    [] cmd.option = "unknown" -> 1
    [] OTHER -> IF ~ cmd.rejected \/ ~ cmd.root THEN 1 ELSE Goes
===============================================================================
