----------------------------- MODULE Pkgmk_proofs -----------------------------
(***************************************************************************)
(* For all contents, listings, command lines and faults: no failed build   *)
(* passes for a good one, nothing is packed from sources whose checksum is *)
(* wrong, and only a run that was killed leaves its work directory.        *)
(***************************************************************************)
EXTENDS Pkgmk, TLAPS

\* What NothingToDo lets pass for up to date.
Passes == target # None /\ (Good \/ target.state \in {"cut", "forced"})

\* Outside of bsdtar a package that is newer than its sources passes; the one
\* just packed is whole and current; a build ends well only with one that
\* passes.
Sound ==
  /\ age = "newer" /\ pc # "pack" => Passes
  /\ pc = "pack" => target.recipe = "this"
  /\ pc = "check" => Good
  /\ pc = "idle" /\ code = 0 /\ cmd.mode = "build" /\ ~ Has("cm") => Passes

\* From the check of the checksums on, the sources agree with them.
Checked ==
  /\ pc \in {"unpack", "build", "pack", "check"} /\ ~ Has("im") => md5sum = source
  /\ pc \in {"pack", "check"} => target.source = source

IInv == TypeOK /\ Sound /\ Checked /\ CleanWork

LEMMA InitInv == Init => IInv
BY DEF Init, IInv, TypeOK, Sound, Checked, CleanWork, Passes, Good, NoRun, Killed

LEMMA TypeStep ==
  ASSUME TypeOK, [Next]_vars
  PROVE  TypeOK'
<1> USE PkgmkAssumption
<1>1. CASE Start
  BY <1>1 DEF TypeOK, files, Start, Go
<1>2. CASE Inform
  BY <1>2 DEF TypeOK, files, Inform, Exit
<1>3. CASE clean
  BY <1>3 DEF TypeOK, clean, Exit
<1>4. CASE update_footprint
  BY <1>4 DEF TypeOK, Package, update_footprint, Exit
<1>5. CASE UpToDate
  BY <1>5 DEF TypeOK, files, UpToDate, Exit
<1>6. CASE ToDownload
  BY <1>6 DEF TypeOK, files, ToDownload, Go
<1>7. CASE download_file
  BY <1>7 DEF TypeOK, download_file
<1>8. CASE DownloadFails
  BY <1>8 DEF TypeOK, DownloadFails, Exit
<1>9. CASE Downloaded
  BY <1>9 DEF TypeOK, Downloaded, Exit, Go
<1>10. CASE check_md5sum
  BY <1>10 DEF TypeOK, check_md5sum, Exit, Go
<1>11. CASE IgnoreMd5sum
  BY <1>11 DEF TypeOK, files, IgnoreMd5sum, Go
<1>12. CASE unpack_source
  BY <1>12 DEF TypeOK, files, unpack_source, Go
<1>13. CASE UnpackFails
  BY <1>13 DEF TypeOK, files, UnpackFails, Exit
<1>14. CASE Extracted
  BY <1>14 DEF TypeOK, files, Extracted, Exit
<1>15. CASE Pack
  BY <1>15 DEF TypeOK, Package, Pack, Go
<1>16. CASE Packed
  BY <1>16 DEF TypeOK, Package, Packed, Go
<1>17. CASE BuildFails
  BY <1>17 DEF TypeOK, files, BuildFails, Exit
<1>18. CASE PackFails
  BY <1>18 DEF TypeOK, PackFails, Fail, Exit
<1>19. CASE check_footprint
  BY <1>19 DEF TypeOK, Package, check_footprint, Exit
<1>20. CASE interrupted
  BY <1>20 DEF TypeOK, Package, interrupted, Cut, Exit
<1>21. CASE Kill
  BY <1>21 DEF TypeOK, Package, Kill, Cut
<1>22. CASE Edit
  BY <1>22 DEF TypeOK, Package, Edit
<1>23. CASE UNCHANGED vars
  BY <1>23 DEF TypeOK, vars
<1> QED
  BY <1>1, <1>2, <1>3, <1>4, <1>5, <1>6, <1>7, <1>8, <1>9, <1>10, <1>11, <1>12, <1>13, <1>14, <1>15, <1>16, <1>17, <1>18, <1>19, <1>20, <1>21, <1>22, <1>23 DEF Next

LEMMA SoundStep ==
  ASSUME TypeOK, Sound, [Next]_vars
  PROVE  Sound'
<1> USE PkgmkAssumption
<1>1. CASE Start
  BY <1>1 DEF TypeOK, Sound, Passes, Good, files, Start, Go
<1>2. CASE Inform
  BY <1>2 DEF TypeOK, Sound, Passes, Good, files, Inform, Exit
<1>3. CASE clean
  BY <1>3 DEF TypeOK, Sound, clean, Exit
<1>4. CASE update_footprint
  BY <1>4 DEF TypeOK, Sound, Passes, Package, update_footprint, Exit
<1>5. CASE UpToDate
  BY <1>5 DEF TypeOK, Sound, Passes, Good, files, UpToDate, Exit, build_needed
<1>6. CASE ToDownload
  BY <1>6 DEF TypeOK, Sound, Passes, Good, files, ToDownload, Go
<1>7. CASE download_file
  BY <1>7 DEF TypeOK, Sound, Passes, Good, download_file
<1>8. CASE DownloadFails
  BY <1>8 DEF TypeOK, Sound, Passes, Good, DownloadFails, Exit
<1>9. CASE Downloaded
  BY <1>9 DEF TypeOK, Sound, Passes, Good, Downloaded, Exit, Go
<1>10. CASE check_md5sum
  BY <1>10 DEF TypeOK, Sound, Passes, Good, Has, check_md5sum, Exit, Go
<1>11. CASE IgnoreMd5sum
  BY <1>11 DEF TypeOK, Sound, Passes, Good, files, IgnoreMd5sum, Go
<1>12. CASE unpack_source
  BY <1>12 DEF TypeOK, Sound, Passes, Good, files, unpack_source, Go
<1>13. CASE UnpackFails
  BY <1>13 DEF TypeOK, Sound, Passes, Good, files, UnpackFails, Exit
<1>14. CASE Extracted
  BY <1>14 DEF TypeOK, Sound, Passes, Good, files, Extracted, Exit
<1>15. CASE Pack
  BY <1>15 DEF TypeOK, Sound, Pack, Go
<1>16. CASE Packed
  BY <1>16 DEF TypeOK, Sound, Passes, Good, Package, Packed, Go
<1>17. CASE BuildFails
  BY <1>17 DEF TypeOK, Sound, Passes, Good, files, BuildFails, Exit
<1>18. CASE PackFails
  BY <1>18 DEF TypeOK, Sound, PackFails, Fail, Exit
<1>19. CASE check_footprint
  BY <1>19 DEF TypeOK, Sound, Passes, Good, check_footprint, Exit
<1>20. CASE interrupted
  BY <1>20 DEF TypeOK, Sound, Passes, Good, Package, interrupted, Cut, Exit
<1>21. CASE Kill
  BY <1>21 DEF TypeOK, Sound, Passes, Good, Package, Killed, Kill, Cut
<1>22. CASE Edit
  BY <1>22 DEF TypeOK, Sound, Passes, Good, NoRun, Edit
<1>23. CASE UNCHANGED vars
  BY <1>23 DEF TypeOK, Sound, Passes, Good, Has, vars
<1> QED
  BY <1>1, <1>2, <1>3, <1>4, <1>5, <1>6, <1>7, <1>8, <1>9, <1>10, <1>11, <1>12, <1>13, <1>14, <1>15, <1>16, <1>17, <1>18, <1>19, <1>20, <1>21, <1>22, <1>23 DEF Next

LEMMA CheckedStep ==
  ASSUME TypeOK, Checked, [Next]_vars
  PROVE  Checked'
<1> USE PkgmkAssumption
<1>1. CASE Start
  BY <1>1 DEF TypeOK, Checked, Start, Go
<1>2. CASE Inform
  BY <1>2 DEF TypeOK, Checked, Inform, Exit
<1>3. CASE clean
  BY <1>3 DEF TypeOK, Checked, clean, Exit
<1>4. CASE update_footprint
  BY <1>4 DEF TypeOK, Checked, update_footprint, Exit
<1>5. CASE UpToDate
  BY <1>5 DEF TypeOK, Checked, UpToDate, Exit
<1>6. CASE ToDownload
  BY <1>6 DEF TypeOK, Checked, ToDownload, Go
<1>7. CASE download_file
  BY <1>7 DEF TypeOK, Checked, download_file
<1>8. CASE DownloadFails
  BY <1>8 DEF TypeOK, Checked, DownloadFails, Exit
<1>9. CASE Downloaded
  BY <1>9 DEF TypeOK, Checked, Downloaded, Exit, Go
<1>10. CASE check_md5sum
  BY <1>10 DEF TypeOK, Checked, check_md5sum, Exit, Go, Mismatch
<1>11. CASE IgnoreMd5sum
  BY <1>11 DEF TypeOK, Checked, Has, IgnoreMd5sum, Go
<1>12. CASE unpack_source
  BY <1>12 DEF TypeOK, Checked, files, Has, unpack_source, Go
<1>13. CASE UnpackFails
  BY <1>13 DEF TypeOK, Checked, UnpackFails, Exit
<1>14. CASE Extracted
  BY <1>14 DEF TypeOK, Checked, Extracted, Exit
<1>15. CASE Pack
  BY <1>15 DEF TypeOK, Checked, Has, Pack, Go
<1>16. CASE Packed
  BY <1>16 DEF TypeOK, Checked, Has, Packed, Go
<1>17. CASE BuildFails
  BY <1>17 DEF TypeOK, Checked, BuildFails, Exit
<1>18. CASE PackFails
  BY <1>18 DEF TypeOK, Checked, PackFails, Fail, Exit
<1>19. CASE check_footprint
  BY <1>19 DEF TypeOK, Checked, check_footprint, Exit
<1>20. CASE interrupted
  BY <1>20 DEF TypeOK, Checked, interrupted, Cut, Exit
<1>21. CASE Kill
  BY <1>21 DEF TypeOK, Checked, Kill, Cut
<1>22. CASE Edit
  BY <1>22 DEF TypeOK, Checked, Edit
<1>23. CASE UNCHANGED vars
  BY <1>23 DEF TypeOK, Checked, Has, vars
<1> QED
  BY <1>1, <1>2, <1>3, <1>4, <1>5, <1>6, <1>7, <1>8, <1>9, <1>10, <1>11, <1>12, <1>13, <1>14, <1>15, <1>16, <1>17, <1>18, <1>19, <1>20, <1>21, <1>22, <1>23 DEF Next

LEMMA CleanStep ==
  ASSUME TypeOK, CleanWork, [Next]_vars
  PROVE  CleanWork'
<1>1. CASE Start
  BY <1>1 DEF TypeOK, CleanWork, Start, Go
<1>2. CASE Inform
  BY <1>2 DEF TypeOK, CleanWork, Has, Inform, Exit
<1>3. CASE clean
  BY <1>3 DEF TypeOK, CleanWork, Has, clean, Exit
<1>4. CASE update_footprint
  BY <1>4 DEF TypeOK, CleanWork, Has, update_footprint, Exit
<1>5. CASE UpToDate
  BY <1>5 DEF TypeOK, CleanWork, Has, UpToDate, Exit
<1>6. CASE ToDownload
  BY <1>6 DEF TypeOK, CleanWork, ToDownload, Go
<1>7. CASE download_file
  BY <1>7 DEF TypeOK, CleanWork, download_file
<1>8. CASE DownloadFails
  BY <1>8 DEF TypeOK, CleanWork, Has, DownloadFails, Exit
<1>9. CASE Downloaded
  BY <1>9 DEF TypeOK, CleanWork, Has, Downloaded, Exit, Go
<1>10. CASE check_md5sum
  BY <1>10 DEF TypeOK, CleanWork, Has, check_md5sum, Exit, Go
<1>11. CASE IgnoreMd5sum
  BY <1>11 DEF TypeOK, CleanWork, IgnoreMd5sum, Go
<1>12. CASE unpack_source
  BY <1>12 DEF TypeOK, CleanWork, unpack_source, Go
<1>13. CASE UnpackFails
  BY <1>13 DEF TypeOK, CleanWork, Has, UnpackFails, Exit
<1>14. CASE Extracted
  BY <1>14 DEF TypeOK, CleanWork, Has, Extracted, Exit
<1>15. CASE Pack
  BY <1>15 DEF TypeOK, CleanWork, Pack, Go
<1>16. CASE Packed
  BY <1>16 DEF TypeOK, CleanWork, Packed, Go
<1>17. CASE BuildFails
  BY <1>17 DEF TypeOK, CleanWork, Has, BuildFails, Exit
<1>18. CASE PackFails
  BY <1>18 DEF TypeOK, CleanWork, Has, PackFails, Fail, Exit
<1>19. CASE check_footprint
  BY <1>19 DEF TypeOK, CleanWork, Has, check_footprint, Exit
<1>20. CASE interrupted
  BY <1>20 DEF TypeOK, CleanWork, Has, interrupted, Cut, Exit
<1>21. CASE Kill
  BY <1>21 DEF TypeOK, CleanWork, Killed, Kill, Cut
<1>22. CASE Edit
  BY <1>22 DEF TypeOK, CleanWork, NoRun, Edit
<1>23. CASE UNCHANGED vars
  BY <1>23 DEF TypeOK, CleanWork, Has, vars
<1> QED
  BY <1>1, <1>2, <1>3, <1>4, <1>5, <1>6, <1>7, <1>8, <1>9, <1>10, <1>11, <1>12, <1>13, <1>14, <1>15, <1>16, <1>17, <1>18, <1>19, <1>20, <1>21, <1>22, <1>23 DEF Next

LEMMA NextInv == IInv /\ [Next]_vars => IInv'
BY TypeStep, SoundStep, CheckedStep, CleanStep DEF IInv

LEMMA Invariance == Spec => []IInv
BY InitInv, NextInv, PTL DEF Spec

\* Every file and the state of the run hold what pkgmk can put there; a run that
\* builds has its sources.
THEOREM TypeCorrect == Spec => []TypeOK
<1>1. IInv => TypeOK
  BY DEF IInv
<1> QED
  BY <1>1, Invariance, PTL

\* No failed build is taken for up to date, by pkgmk's own look at the times or
\* by its exit status.
THEOREM FailureShows == Spec => []NothingToDo
<1>1. IInv => NothingToDo
  BY DEF IInv, Sound, Passes, NothingToDo
<1> QED
  BY <1>1, Invariance, PTL

\* Packages are made of sources that agree with the checksums.
THEOREM SourcesVerified == Spec => []Verified
<1>1. IInv => Verified
  BY DEF IInv, Checked, Verified
<1> QED
  BY <1>1, Invariance, PTL

\* The work directory goes at every exit that runs the trap.
THEOREM WorkCleaned == Spec => []CleanWork
<1>1. IInv => CleanWork
  BY DEF IInv
<1> QED
  BY <1>1, Invariance, PTL
===============================================================================
