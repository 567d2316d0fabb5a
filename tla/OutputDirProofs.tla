-------------------------- MODULE OutputDirProofs --------------------------
(***************************************************************************)
(* Theorems about OutputDir, for any files, any sequence of revisions and  *)
(* any number of mishaps.                                                  *)
(***************************************************************************)
EXTENDS OutputDir, TLAPS

\* No run has begun: the directory may hold anything but a file that was cut short.
LEMMA InitInvariant == Init => IInv
<1> SUFFICES ASSUME Init PROVE IInv
  OBVIOUS
<1>1. 1 \in 1 .. Len(Revisions) /\ Revisions[1] \in Files
  BY RevisionsAssumption
<1> QED
  BY <1>1, FilesAssumption, BoundAssumption DEF Init, IInv, TypeOK, DealtWith, Names, Generated

\* What people and new revisions do in between is covered by touched.
LEMMA OthersKeepInvariant ==
    ASSUME IInv, EditSchema \/ \E n \in Names : EditFile(n)
    PROVE  IInv'
<1> USE DEF IInv, TypeOK, DealtWith
<1>1. CASE EditSchema
  <2>1. revision' \in 1 .. Len(Revisions)
    BY <1>1, RevisionsAssumption DEF EditSchema
  <2> QED BY <1>1, <2>1 DEF EditSchema, HasHeader
<1>2. CASE \E n \in Names : EditFile(n)
  <2> PICK n \in Names : EditFile(n)
    BY <1>2
  <2> USE DEF EditFile
  <2>1. mishaps' \in 0 .. MaxMishaps
    BY BoundAssumption
  <2>2. \A m \in Names \ {n} : dir'[m] = dir[m]
    OBVIOUS
  <2>3. TypeOK'
    BY <2>1, FilesAssumption DEF Names, Generated
  <2>4. DealtWith'
    BY <2>2 DEF HasHeader, Wanted, Names
  <2> QED BY <2>3, <2>4
<1> QED BY <1>1, <1>2

\* A run looks at each wanted file, and then at what is left of others.
LEMMA RunKeepsInvariant ==
    ASSUME IInv, Start \/ Step \/ Stop
    PROVE  IInv'
<1> USE DEF IInv, TypeOK, DealtWith
<1>1. CASE Start
  <2>1. Revisions[revision] \in Files
    BY RevisionsAssumption
  <2> QED BY <1>1, <2>1 DEF Start, Wanted, Names
<1>2. ASSUME NEW n \in Names, Skip(n) PROVE IInv'
  BY <1>2 DEF Skip
<1>3. ASSUME NEW n \in Names, Truncate(n) PROVE IInv'
  <2>1. TypeOK'
    BY <1>3, FilesAssumption DEF Truncate
  <2>2. DealtWith'
    BY <1>3 DEF Truncate
  <2> QED BY <2>1, <2>2
<1>4. ASSUME NEW n \in Names, Write(n) PROVE IInv'
  <2>1. n \in Wanted(files) /\ files[n] \in Texts
    BY <1>4 DEF Write, Wanted, Files
  <2>2. TypeOK'
    BY <1>4, <2>1, FilesAssumption DEF Write, Generated
  <2>3. DealtWith'
    BY <1>4, <2>1 DEF Write
  <2> QED BY <2>2, <2>3
<1>5. ASSUME NEW n \in Names, Remove(n) PROVE IInv'
  <2>1. n \notin Wanted(files)
    BY <1>5 DEF Remove
  <2>2. TypeOK'
    BY <1>5, FilesAssumption DEF Remove
  <2>3. \A m \in Names \ {n} : dir'[m] = dir[m] /\ (m \in todo' <=> m \in todo)
    BY <1>5 DEF Remove
  <2>4. ~HasHeader(n)' /\ n \notin todo'
    BY <1>5, FilesAssumption DEF Remove, HasHeader
  <2>5. DealtWith'
    BY <1>5, <2>1, <2>3, <2>4 DEF Remove, HasHeader, Wanted, Names
  <2> QED BY <2>2, <2>5
<1>6. ASSUME NEW n \in Names, RemoveFails(n) PROVE IInv'
  BY <1>6 DEF RemoveFails
<1>7. CASE List
  <2>1. TypeOK'
    BY <1>7 DEF List, Stale
  <2>2. DealtWith'
    BY <1>7 DEF List, Stale, HasHeader, Names, Wanted
  <2> QED BY <2>1, <2>2
<1>8. CASE Finish
  BY <1>8 DEF Finish
<1>9. CASE Stop
  <2>1. mishaps' \in 0 .. MaxMishaps
    BY <1>9, BoundAssumption DEF Stop
  <2>2. dir' \in [Names -> Generated \cup {Absent, Hand, Headless}]
    BY <1>9 DEF Stop, Generated
  <2> QED BY <1>9, <2>1, <2>2 DEF Stop
<1> QED BY <1>1, <1>2, <1>3, <1>4, <1>5, <1>6, <1>7, <1>8, <1>9 DEF Step

\* Between the steps of a run everything that it has dealt with is as it should
\* be, unless somebody has edited it (gen/bean/output.go:29-49).
THEOREM OutputInvariance == Spec => []IInv
<1>1. IInv /\ [Next]_vars => IInv'
  <2> SUFFICES ASSUME IInv, [Next]_vars PROVE IInv'
    OBVIOUS
  <2>1. CASE UNCHANGED vars
    BY <2>1 DEF vars, IInv, TypeOK, DealtWith, HasHeader
  <2>2. CASE Next
    BY <2>2, OthersKeepInvariant, RunKeepsInvariant DEF Next
  <2> QED BY <2>1, <2>2
<1> QED BY InitInvariant, <1>1, PTL DEF Spec

\* A run that ends without an error has repaired the directory, whatever stopped
\* runs and people have left (gen/bean/output.go:22-24).
THEOREM RunsRepair == Spec => RunRepairs
<1> DEFINE Repaired == \A n \in Names \ touched :
              IF n \in Wanted(files) THEN dir[n] = files[n] ELSE ~HasHeader(n)
<1>1. IInv => (Finish => Repaired)
  BY DEF IInv, DealtWith, Finish
<1>2. IInv => [Finish => Repaired]_vars
  BY <1>1
<1>3. [][Finish => Repaired]_vars <=> RunRepairs
  BY DEF RunRepairs
<1> QED BY OutputInvariance, <1>2, <1>3, PTL

\* A file that somebody has written, under a name that the revision does not
\* want, survives every run, also those that are stopped (gen/bean/output.go:24).
THEOREM HandWrittenFilesAreKept == Spec => HandWrittenIsKept
<1> DEFINE Kept == \A n \in Names \ touched :
              dir[n] = Hand /\ n \notin Wanted(files) /\ (Start \/ Step \/ Stop) => dir'[n] = Hand
<1>1. ASSUME IInv PROVE Kept
  <2> SUFFICES ASSUME NEW n \in Names \ touched, dir[n] = Hand, n \notin Wanted(files),
                      Start \/ Step \/ Stop
               PROVE  dir'[n] = Hand
    OBVIOUS
  <2> USE <1>1, FilesAssumption DEF IInv, TypeOK, DealtWith
  <2>1. pc = "remove" => n \notin todo
    BY DEF HasHeader
  <2>2. pc \in {"write", "body"} => n \notin todo
    OBVIOUS
  <2>3. CASE Start
    BY <2>3 DEF Start
  <2>4. CASE Step
    BY <2>1, <2>2, <2>4
    DEF Step, Skip, Truncate, Write, Remove, RemoveFails, List, Finish
  <2>5. CASE Stop
    BY <2>2, <2>5 DEF Stop
  <2> QED BY <2>3, <2>4, <2>5
<1>2. IInv => [Kept]_vars
  BY <1>1
<1>3. [][Kept]_vars <=> HandWrittenIsKept
  BY DEF HandWrittenIsKept
<1> QED BY OutputInvariance, <1>2, <1>3, PTL
=============================================================================
