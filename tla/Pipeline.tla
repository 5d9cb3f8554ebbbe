------------------------------ MODULE Pipeline ------------------------------
(***************************************************************************)
(* main and EmittedObject: from a program to its execution, by runs of the *)
(* compiler that share one directory.  A run writes obj.o in place, has it *)
(* linked to obj.so and loads that.  A run may be killed anywhere, the     *)
(* disk may fail, and the next run works with the files that are left.     *)
(***************************************************************************)
EXTENDS Integers, Sequences, FiniteSets

CONSTANTS
  Runs,      \* the runs, each of a program of its own
  Pieces,    \* how many writes the object of each takes
  None,      \* no run
  MaxAtOnce, \* bound: runs at the same time
  MaxFaults  \* bound: runs that meet a failure of the disk

ASSUME PipelineAssumption ==
  /\ Pieces \in [Runs -> Nat \ {0}] /\ None \notin Runs
  /\ MaxAtOnce \in Nat /\ MaxFaults \in Nat

VARIABLES
  object,    \* obj.o, empty if there is none
  library,   \* obj.so: the number of the file it names, 0 if there is none
  files,     \* what is in each file that was ever named obj.so
  run,       \* where each run is, and what it has in hand
  disturbed  \* the runs whose files another one changed while they were at them

vars == <<object, library, files, run, disturbed>>

\* Code on disk: which run each piece is of, and to whose sections the header, the first
\* piece, points.  Nothing behind the pieces that the header tells of is read.
Code(pieces, table) == [pieces |-> pieces, table |-> table]
Empty == Code(<<>>, None)
IsWhole(code, r) ==
  /\ code.table = r /\ Len(code.pieces) >= Pieces[r]
  /\ \A i \in 1 .. Pieces[r] : code.pieces[i] = r
Whole(code) == \E r \in Runs : IsWhole(code, r)

Emitting == {"writing", "patching", "emitted", "linking", "copying"}
Loading  == {"linked", "loading"}
Ended    == {"rejected", "failed", "done", "killed"}

\* A run with nothing in hand.
Run(place, fault) ==
  [at |-> place, written |-> 0, failed |-> FALSE, fault |-> fault, read |-> Empty, loaded |-> 0]

At(r, place)   == run[r].at = place
Goes(r, place) == run' = [run EXCEPT ![r].at = place]
Ends(r, place) == run' = [run EXCEPT ![r] = Run(place, run[r].fault)]
Fails(r)       == run' = [run EXCEPT ![r] = Run("failed", TRUE)]
KeepsFiles     == UNCHANGED <<object, library, files>>

\* Reading or writing may fail.
DiskMayFail(r) ==
  run[r].fault \/ Cardinality({q \in Runs : run[q].fault}) < MaxFaults

-----------------------------------------------------------------------------
(* main, up to the EmittedObject: no file but the program's.               *)

\* The program is read, parsed and generated, or the run ends with what is wrong.
Compile(r, place) ==
  /\ At(r, "started") /\ Goes(r, place) /\ KeepsFiles
  /\ Cardinality({q \in Runs : run[q].at \notin {"started"} \cup Ended}) < MaxAtOnce

-----------------------------------------------------------------------------
(* The constructor of EmittedObject.                                       *)

\* obj.o is opened as it is, from its beginning.
OpenObject(r) == At(r, "compiled") /\ Goes(r, "writing") /\ KeepsFiles

\* runPass writes the object from front to back, in the header 0 for the place of the table.
Written(r) == [run EXCEPT ![r].written = @ + 1,
                          ![r].at = IF run[r].written + 1 = Pieces[r] THEN "patching" ELSE @]
WriteObjectBehind(r) ==  \* mutant: obj.o is opened to append
  /\ At(r, "writing") /\ run' = Written(r)
  /\ object' = Code(Append(object.pieces, r), IF object.pieces = <<>> THEN None ELSE object.table)
  /\ UNCHANGED <<library, files>>
WriteObject(r) ==
  LET n == run[r].written + 1
      p == object.pieces
  IN  /\ At(r, "writing") /\ run' = Written(r)
      /\ object' = Code(IF n <= Len(p) THEN [p EXCEPT ![n] = r] ELSE Append(p, r),
                        IF n = 1 THEN None ELSE object.table)
      /\ UNCHANGED <<library, files>>

\* An open that fails, or a write: the disk takes no more, and the stream remembers.
WriteFails(r) ==
  /\ At(r, "writing") /\ DiskMayFail(r)
  /\ run' = [run EXCEPT ![r].failed = TRUE, ![r].fault = TRUE,
                        ![r].at = IF run[r].written = 0 THEN "emitted" ELSE "patching"]
  /\ KeepsFiles

\* Last the place of the table is written over that 0.
PatchHeader(r) ==
  /\ At(r, "patching") /\ Goes(r, "emitted")
  /\ object' = [object EXCEPT !.table = r] /\ UNCHANGED <<library, files>>

OpenLibraryTruncates(r) ==  \* mutant: O_TRUNC, as the linker writes all of it
  /\ At(r, "emitted") /\ Goes(r, "linking") /\ UNCHANGED object
  /\ IF library = 0 THEN files' = Append(files, Empty) /\ library' = Len(files) + 1
     ELSE files' = [files EXCEPT ![library] = Empty] /\ UNCHANGED library
\* obj.so is opened, and made if there is none.
OpenLibrary(r) ==
  /\ At(r, "emitted") /\ Goes(r, "linking") /\ UNCHANGED object
  /\ IF library = 0 THEN files' = Append(files, Empty) /\ library' = Len(files) + 1
     ELSE UNCHANGED <<files, library>>

-----------------------------------------------------------------------------
(* lld: it takes what the header says is there, unlinks the output and     *)
(* renames a file of its own to it.                                        *)

\* Whether there is more of obj.o to read.
More(read) ==
  /\ Len(read.pieces) < Len(object.pieces)
  /\ read.pieces # <<>> => read.table # None /\ Len(read.pieces) < Pieces[read.table]
LinkReads(r) ==
  LET read == run[r].read
      next == Code(Append(read.pieces, object.pieces[Len(read.pieces) + 1]),
                   IF read.pieces = <<>> THEN object.table ELSE read.table)
  IN  /\ \/ At(r, "linking") /\ read.pieces = <<>>
         \/ At(r, "copying")
      /\ More(read)
      /\ run' = [run EXCEPT ![r].read = next] /\ KeepsFiles

\* Some builds of lld leave that to the rename.
LinkUnlinks(r) ==
  /\ At(r, "linking") /\ (run[r].read.pieces # <<>> \/ object.pieces = <<>>)
  /\ Goes(r, "copying") /\ library' \in {0, library} /\ UNCHANGED <<object, files>>

LinkRenames(r) ==
  /\ At(r, "copying") /\ ~More(run[r].read)
  /\ files' = Append(files, run[r].read) /\ library' = Len(files) + 1
  /\ run' = [run EXCEPT ![r] = [Run("linked", run[r].fault) EXCEPT !.failed = run[r].failed]]
  /\ UNCHANGED object

\* Code that is not one object may be refused; the exit code throws std::exception.
LinkFails(r) ==
  /\ run[r].at \in {"linking", "copying"} /\ KeepsFiles
  /\ \/ /\ ~Whole(object) \/ (~More(run[r].read) /\ ~Whole(run[r].read))
        /\ Ends(r, "failed")
     \/ DiskMayFail(r) /\ Fails(r)

-----------------------------------------------------------------------------
(* The rest of main.                                                       *)

CloseObjectQuietly(r) ==  \* mutant: nobody asks the stream for its errors
  At(r, "linked") /\ KeepsFiles /\ Goes(r, "loading")
\* The constructor ends, and its stream with it, which ends the process if a write failed.
CloseObject(r) ==
  /\ At(r, "linked") /\ KeepsFiles
  /\ IF run[r].failed THEN Ends(r, "failed") ELSE Goes(r, "loading")

LoadUnchecked(r) ==  \* mutant: what dlopen returns is not looked at
  /\ At(r, "loading") /\ KeepsFiles
  /\ run' = [run EXCEPT ![r].at = "running", ![r].loaded = library]
\* dlopen, and dlsym for top_required: they fail for no file, an empty one and maybe for one
\* that is not of one run; else its code is run, whose ever it is.
Load(r) ==
  LET code == IF library = 0 THEN Empty ELSE files[library]
  IN  /\ At(r, "loading") /\ KeepsFiles
      /\ \/ code # Empty /\ run' = [run EXCEPT ![r].at = "running", ![r].loaded = library]
         \/ ~Whole(code) /\ Ends(r, "failed")

\* top_required returns, or an exception ends it.
Return(r) == At(r, "running") /\ Ends(r, "done") /\ KeepsFiles

Kill(r) == run[r].at \notin Ended /\ Ends(r, "killed") /\ KeepsFiles

-----------------------------------------------------------------------------
Init ==
  /\ object = Empty /\ library = 0 /\ files = <<>> /\ disturbed = {}
  /\ run = [r \in Runs |-> Run("started", FALSE)]

Step(r) ==
  \/ \E place \in {"compiled", "rejected"} : Compile(r, place)
  \/ OpenObject(r) \/ WriteObject(r) \/ WriteFails(r) \/ PatchHeader(r) \/ OpenLibrary(r)
  \/ LinkReads(r) \/ LinkUnlinks(r) \/ LinkRenames(r) \/ LinkFails(r)
  \/ CloseObject(r) \/ Load(r) \/ Return(r) \/ Kill(r)

\* A run needs obj.o from the first write to the end of the link, and obj.so from there on
\* until it is loaded.
Disturbs(r) ==
  {q \in Runs \ {r} : \/ run[q].at \in Emitting /\ object' # object
                      \/ run[q].at \in Loading /\ library' # library}

Next == \E r \in Runs : Step(r) /\ disturbed' = disturbed \cup Disturbs(r)

Spec == Init /\ [][Next]_vars

-----------------------------------------------------------------------------
(* Properties.                                                             *)

Codes == [pieces : Seq(Runs), table : Runs \cup {None}]
Places == {"started", "compiled", "running"} \cup Emitting \cup Loading \cup Ended

Records == [at : Places, written : Nat, failed : BOOLEAN, fault : BOOLEAN, read : Codes, loaded : Nat]

TypeOK ==
  /\ object \in Codes /\ files \in Seq(Codes)
  /\ library \in 0 .. Len(files)
  /\ disturbed \subseteq Runs
  /\ run \in [Runs -> Records]
  /\ \A r \in Runs : run[r].written <= Pieces[r] /\ run[r].loaded <= Len(files)
  /\ \A r \in Runs : At(r, "running") => run[r].loaded # 0

\* Whatever earlier runs left of obj.o and obj.so, killed half way or with longer objects, a
\* run whose files nobody else changes while it needs them executes the program it compiled,
\* all of it, and only a failing disk keeps it from that.
RunsWhatItCompiled ==
  \A r \in Runs \ disturbed :
    /\ At(r, "running") => IsWhole(files[run[r].loaded], r)
    /\ At(r, "failed") => run[r].fault

\* The code of a program that runs is not changed by the runs that start meanwhile, though
\* they open the file it came from for writing.
LoadedIsFinal ==
  [][\A r \in Runs : At(r, "running") => files'[run[r].loaded] = files[run[r].loaded]]_vars
=============================================================================
