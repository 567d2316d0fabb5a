----------------------------- MODULE OutputDir -----------------------------
(***************************************************************************)
(* genbeans and its output directory: a run writes the files of a revision *)
(* of pdb.xml one by one, then removes generated files that are no longer  *)
(* needed.  It may be stopped at any point, in the middle of a file        *)
(* included, and people edit the directory meanwhile.                      *)
(***************************************************************************)
EXTENDS Naturals, Sequences

CONSTANTS
    GenNames,   \* names of generated files, <table>.pdb.go
    OtherNames, \* names of other .go files
    Texts,      \* what genbeans generates; its first line is the header
    Revisions,  \* what it generates for each revision of pdb.xml, a sequence
    MaxMishaps, \* bound on edits by people and on stopped runs
    Absent,     \* no file
    Hand,       \* a file that somebody has written
    Headed,     \* another file whose first line is the header: an old one, or
                \* one that was changed or cut further down
    Headless    \* a generated file that was cut before the end of its first line

Names == GenNames \cup OtherNames
Generated == Texts \cup {Headed}
Files == [GenNames -> Texts \cup {Absent}]

ASSUME RevisionsAssumption == Revisions \in Seq(Files) /\ Len(Revisions) > 0
ASSUME BoundAssumption == MaxMishaps \in Nat
ASSUME FilesAssumption ==
    /\ GenNames \cap OtherNames = {}
    /\ Generated \cap {Absent, Hand, Headless} = {}
    /\ Headed \notin Texts /\ Absent # Hand /\ Absent # Headless /\ Hand # Headless

VARIABLES
    revision, \* the current revision of pdb.xml
    dir,      \* the directory
    pc,       \* where genbeans is
    files,    \* what this run generates
    todo,     \* names that the loop at pc has still to look at
    touched,  \* ghost: names that somebody has edited since the run began
    mishaps

vars == <<revision, dir, pc, files, todo, touched, mishaps>>

Wanted(f) == {n \in GenNames : f[n] # Absent}

Init ==
    /\ revision = 1
    /\ dir \in [Names -> {Absent, Hand, Headed}]
    /\ pc = "idle"
    /\ files = Revisions[1]
    /\ todo = {}
    /\ touched = {}
    /\ mishaps = 0

-----------------------------------------------------------------------------
(* What happens around genbeans *)

EditSchema ==
    /\ revision < Len(Revisions)
    /\ revision' = revision + 1
    /\ UNCHANGED <<dir, pc, files, todo, touched, mishaps>>

\* Somebody writes a file of his own, under a name of genbeans, too, changes a
\* generated one, or removes a file; but not while os.WriteFile writes.
EditFile(n) ==
    /\ mishaps < MaxMishaps /\ mishaps' = mishaps + 1
    /\ pc # "body"
    /\ \/ dir' = [dir EXCEPT ![n] = Hand]
       \/ dir[n] \in Generated /\ dir' = [dir EXCEPT ![n] = Headed]
       \/ dir[n] # Absent /\ dir' = [dir EXCEPT ![n] = Absent]
    /\ touched' = touched \cup {n}
    /\ UNCHANGED <<revision, pc, files, todo>>

-----------------------------------------------------------------------------
(* genbeans *)

\* generateAll has found no error.
Start ==
    /\ pc = "idle" /\ pc' = "write"
    /\ files' = Revisions[revision]
    /\ todo' = Wanted(Revisions[revision])
    /\ touched' = {}
    /\ UNCHANGED <<revision, dir, mishaps>>

\* Mutant of Skip: a file that exists is not compared.
SkipExisting(n) ==
    /\ pc = "write" /\ n \in todo /\ dir[n] # Absent
    /\ todo' = todo \ {n}
    /\ UNCHANGED <<revision, dir, pc, files, touched, mishaps>>

\* The file is as it should be.
Skip(n) ==
    /\ pc = "write" /\ n \in todo /\ dir[n] = files[n]
    /\ todo' = todo \ {n}
    /\ UNCHANGED <<revision, dir, pc, files, touched, mishaps>>

\* Mutant of Truncate: files are written whether or not they have changed.
TruncateAlways(n) ==
    /\ pc = "write" /\ n \in todo
    /\ pc' = "body"
    /\ dir' = [dir EXCEPT ![n] = Headless]
    /\ UNCHANGED <<revision, files, todo, touched, mishaps>>

\* os.WriteFile truncates the file,
Truncate(n) ==
    /\ pc = "write" /\ n \in todo /\ dir[n] # files[n]
    /\ pc' = "body"
    /\ dir' = [dir EXCEPT ![n] = Headless]
    /\ UNCHANGED <<revision, files, todo, touched, mishaps>>

\* and writes it.
Write(n) ==
    /\ pc = "body" /\ n \in todo /\ dir[n] = Headless
    /\ pc' = "write"
    /\ dir' = [dir EXCEPT ![n] = files[n]]
    /\ todo' = todo \ {n}
    /\ UNCHANGED <<revision, files, touched, mishaps>>

\* isGenerated
HasHeader(n) == dir[n] \in Generated

\* Mutant of Stale: the header is not looked at.
StaleByName == {n \in Names : dir[n] # Absent /\ n \notin Wanted(files)}

\* staleFiles
Stale == {n \in Names : HasHeader(n) /\ n \notin Wanted(files)}

List ==
    /\ pc = "write" /\ todo = {} /\ pc' = "remove"
    /\ todo' = Stale
    /\ UNCHANGED <<revision, dir, files, touched, mishaps>>

Remove(n) ==
    /\ pc = "remove" /\ n \in todo /\ dir[n] # Absent
    /\ dir' = [dir EXCEPT ![n] = Absent]
    /\ todo' = todo \ {n}
    /\ UNCHANGED <<revision, pc, files, touched, mishaps>>

Finish ==
    /\ pc = "remove" /\ todo = {} /\ pc' = "idle"
    /\ UNCHANGED <<revision, dir, files, todo, touched, mishaps>>

\* The file is gone when it is to be removed: the run ends with an error.
RemoveFails(n) ==
    /\ pc = "remove" /\ n \in todo /\ dir[n] = Absent
    /\ pc' = "idle" /\ todo' = {}
    /\ UNCHANGED <<revision, dir, files, touched, mishaps>>

\* The run is killed, or a file cannot be read, written or removed.
Stop ==
    /\ mishaps < MaxMishaps /\ mishaps' = mishaps + 1
    /\ pc # "idle" /\ pc' = "idle" /\ todo' = {}
    /\ \/ UNCHANGED dir
       \/ pc = "body" /\ \E n \in todo : dir[n] = Headless /\ dir' = [dir EXCEPT ![n] = Headed]
    /\ UNCHANGED <<revision, files, touched>>

Step ==
    \/ \E n \in Names : Skip(n) \/ Truncate(n) \/ Write(n) \/ Remove(n) \/ RemoveFails(n)
    \/ List \/ Finish

Next == EditSchema \/ (\E n \in Names : EditFile(n)) \/ Start \/ Step \/ Stop

Spec == Init /\ [][Next]_vars

\* Fairness: genbeans is run again and again, and a run goes on unless it is
\* stopped.
FairSpec == Spec /\ WF_vars(Start) /\ WF_vars(Step)

-----------------------------------------------------------------------------
(* Properties *)

TypeOK ==
    /\ revision \in 1 .. Len(Revisions)
    /\ dir \in [Names -> Generated \cup {Absent, Hand, Headless}]
    /\ pc \in {"idle", "write", "body", "remove"}
    /\ files \in Files
    /\ todo \in SUBSET Names
    /\ touched \in SUBSET Names
    /\ mishaps \in 0 .. MaxMishaps

\* What a run has dealt with stays as it should be unless somebody edits it:
\* the file being written is the only one of this run in disorder, what is on
\* the list to be removed has the header and is not wanted, and everything else
\* that is not wanted has no header (gen/bean/output.go:29-49).
DealtWith ==
    /\ pc \in {"write", "body"} =>
          /\ todo \subseteq Wanted(files)
          /\ \A n \in Wanted(files) \ (todo \cup touched) : dir[n] = files[n]
    /\ pc = "remove" =>
          /\ todo \cap Wanted(files) = {}
          /\ \A n \in Wanted(files) \ touched : dir[n] = files[n]
          /\ \A n \in Names \ (Wanted(files) \cup touched) : HasHeader(n) <=> n \in todo

IInv == TypeOK /\ DealtWith

\* genbeans never changes or removes a file that somebody has written, unless he
\* does so while it runs, or the revision has a file of that name: what is there
\* is overwritten, whatever its first line (gen/bean/output.go:24, 29-36).
HandWrittenIsKept ==
    [][\A n \in Names \ touched :
          dir[n] = Hand /\ n \notin Wanted(files) /\ (Start \/ Step \/ Stop) => dir'[n] = Hand]_vars

\* genbeans never changes or removes a file that somebody has written, whatever
\* its name (gen/bean/main.go:6, gen/bean/output.go:24, docs/design.md:270).
HandWrittenIsLeftAlone ==
    [][\A n \in Names \ touched : dir[n] = Hand /\ (Start \/ Step \/ Stop) => dir'[n] = Hand]_vars

\* A run that ends without an error has repaired what stopped runs and people
\* have left: every file of the revision is complete, and no other file has
\* the header (gen/bean/output.go:22-24).
RunRepairs ==
    [][Finish => \A n \in Names \ touched :
          IF n \in Wanted(files) THEN dir[n] = files[n] ELSE ~HasHeader(n)]_vars

\* After a run without an error nothing that genbeans has made is left but what
\* the revision wants (docs/design.md:270).
NothingIsLeftOver ==
    [][Finish => \A n \in Names \ touched :
          n \notin Wanted(files) => dir[n] \in {Absent, Hand}]_vars

\* When nobody edits any more the directory comes to rest, with the files of the
\* last revision: later runs write nothing (gen/bean/output.go:22).
DirectoryComesToRest ==
    <>[](\A n \in Names :
            IF n \in Wanted(Revisions[revision]) THEN dir[n] = Revisions[revision][n]
                                                 ELSE ~HasHeader(n))
=============================================================================
