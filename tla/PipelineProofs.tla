--------------------------- MODULE PipelineProofs ---------------------------
(***************************************************************************)
(* Proofs about Pipeline, for any number of runs, objects of any length    *)
(* and any number of failures: a run that nobody disturbs executes what it *)
(* compiled.                                                               *)
(***************************************************************************)
EXTENDS Pipeline, TLAPS

-----------------------------------------------------------------------------
(* The strengthened invariant.                                             *)

\* What a run has in hand at each place.
InHand(r) ==
  /\ run[r].at \in {"started", "compiled"} => run[r].written = 0
  /\ run[r].at \in {"started", "compiled", "writing"} => ~run[r].failed
  /\ run[r].at \in {"started", "compiled", "writing", "patching", "emitted"} => run[r].read = Empty
  /\ At(r, "writing") => run[r].written < Pieces[r]
  /\ At(r, "loading") => ~run[r].failed
  /\ run[r].failed => run[r].fault

\* The first n pieces of obj.o are of the run.
Begun(r, n) ==
  /\ n <= Len(object.pieces)
  /\ \A i \in 1 .. n : object.pieces[i] = r

\* What an undisturbed run knows of the files.
Sound(r) ==
  /\ At(r, "writing") => Begun(r, run[r].written)
  /\ ~run[r].failed =>
       /\ At(r, "patching") => Begun(r, Pieces[r])
       /\ run[r].at \in {"emitted", "linking", "copying"} => IsWhole(object, r)
       /\ run[r].at \in {"linking", "copying"} =>
            /\ Len(run[r].read.pieces) <= Pieces[r]
            /\ \A i \in 1 .. Len(run[r].read.pieces) : run[r].read.pieces[i] = r
            /\ run[r].read.pieces # <<>> => run[r].read.table = r
       /\ run[r].at \in {"linked", "loading"} => library # 0 /\ IsWhole(files[library], r)
  /\ At(r, "running") => IsWhole(files[run[r].loaded], r)
  /\ At(r, "failed") => run[r].fault

IInv ==
  /\ TypeOK
  /\ \A r \in Runs : InHand(r)
  /\ \A r \in Runs \ disturbed : Sound(r)

-----------------------------------------------------------------------------
(* What a step of one run is to the others.                                *)

\* No file that was ever named obj.so is changed or lost.
FilesGrow ==
  /\ Len(files) <= Len(files')
  /\ \A i \in 1 .. Len(files) : files'[i] = files[i]

\* What is shown of a step of r.
Keeps(r) ==
  /\ TypeOK'
  /\ FilesGrow
  /\ \A q \in Runs \ {r} : run'[q] = run[q]
  /\ InHand(r)'
  /\ Sound(r) => Sound(r)'

LEMMA Typed ==
  ASSUME TypeOK, NEW r \in Runs
  PROVE  /\ run[r] \in Records
         /\ run[r].at \in Places /\ run[r].written \in Nat /\ run[r].failed \in BOOLEAN
         /\ run[r].fault \in BOOLEAN /\ run[r].read \in Codes /\ run[r].loaded \in Nat
         /\ run[r].written <= Pieces[r] /\ run[r].loaded <= Len(files)
         /\ Pieces[r] \in Nat /\ Pieces[r] >= 1 /\ r # None
BY PipelineAssumption DEF TypeOK, Records

LEMMA EmptyTyped ==
  /\ Empty \in Codes /\ Empty.pieces = <<>> /\ Len(Empty.pieces) = 0
  /\ \A place \in Places, fault \in BOOLEAN : Run(place, fault) \in Records
<1>1. Empty \in Codes /\ Empty.pieces = <<>> /\ Len(Empty.pieces) = 0
  BY DEF Empty, Code, Codes
<1> QED
  BY <1>1 DEF Run, Records

\* A run that ends has nothing in hand.
LEMMA EndStep ==
  ASSUME IInv, NEW r \in Runs, disturbed' \subseteq Runs, KeepsFiles,
         NEW place \in Ended, NEW fault \in BOOLEAN,
         Sound(r) /\ place = "failed" => fault,
         run' = [run EXCEPT ![r] = Run(place, fault)]
  PROVE  Keeps(r)
<1>1. TypeOK /\ object' = object /\ library' = library /\ files' = files
  BY DEF IInv, KeepsFiles
<1>2. /\ run'[r] = Run(place, fault)
      /\ run'[r].at = place /\ run'[r].written = 0 /\ run'[r].loaded = 0
      /\ ~run'[r].failed /\ run'[r].fault = fault
      /\ \A q \in Runs \ {r} : run'[q] = run[q]
  BY <1>1 DEF TypeOK, Run
<1>3. place \in Places /\ place \notin {"started", "compiled", "running"} \cup Emitting \cup Loading
  BY DEF Places, Ended, Emitting, Loading
<1>4. TypeOK'
  <2>1. run' \in [Runs -> Records]
    BY <1>1, <1>3, EmptyTyped DEF TypeOK
  <2>2. \A q \in Runs : /\ run'[q].written <= Pieces[q] /\ run'[q].loaded <= Len(files')
                        /\ run'[q].at = "running" => run'[q].loaded # 0
    <3> SUFFICES ASSUME NEW q \in Runs
                 PROVE  /\ run'[q].written <= Pieces[q] /\ run'[q].loaded <= Len(files')
                        /\ run'[q].at = "running" => run'[q].loaded # 0
      OBVIOUS
    <3>1. Len(files) \in Nat
      BY <1>1 DEF TypeOK
    <3> QED
      BY <1>1, <1>2, <1>3, <3>1, Typed DEF TypeOK, At
  <2> QED
    BY <1>1, <2>1, <2>2 DEF TypeOK, At
<1>5. FilesGrow
  BY <1>1 DEF FilesGrow, TypeOK
<1>6. InHand(r)'
  BY <1>2, <1>3 DEF InHand, At, Emitting, Loading
<1>7. Sound(r) => Sound(r)'
  BY <1>2, <1>3 DEF Sound, At, Emitting, Loading
<1> QED
  BY <1>2, <1>4, <1>5, <1>6, <1>7 DEF Keeps

\* A step of r that changes no more than r has in hand keeps the types.
LEMMA RunTyped ==
  ASSUME TypeOK, NEW r \in Runs, NEW new \in Records, disturbed' \subseteq Runs,
         object' \in Codes, files' \in Seq(Codes), library' \in 0 .. Len(files'), FilesGrow,
         new.written <= Pieces[r], new.loaded <= Len(files'), new.at = "running" => new.loaded # 0,
         run' = [run EXCEPT ![r] = new]
  PROVE  /\ TypeOK' /\ run'[r] = new
         /\ \A q \in Runs \ {r} : run'[q] = run[q]
<1>1. /\ run' \in [Runs -> Records] /\ run'[r] = new
      /\ \A q \in Runs \ {r} : run'[q] = run[q]
  BY DEF TypeOK
<1>2. \A q \in Runs : /\ run'[q].written <= Pieces[q] /\ run'[q].loaded <= Len(files')
                      /\ run'[q].at = "running" => run'[q].loaded # 0
  <2> SUFFICES ASSUME NEW q \in Runs \ {r}
               PROVE  /\ run'[q].written <= Pieces[q] /\ run'[q].loaded <= Len(files')
                      /\ run'[q].at = "running" => run'[q].loaded # 0
    BY <1>1
  <2>1. Len(files) \in Nat /\ Len(files') \in Nat
    BY DEF TypeOK
  <2> QED
    BY <1>1, <2>1, Typed DEF TypeOK, At, FilesGrow
<1> QED
  BY <1>1, <1>2 DEF TypeOK, At

-----------------------------------------------------------------------------
(* The steps.                                                              *)

\* Steps that change nothing but where r is.
LEMMA MoveStep ==
  ASSUME IInv, NEW r \in Runs, disturbed' \subseteq Runs, KeepsFiles,
         \/ At(r, "started") /\ Goes(r, "compiled")
         \/ At(r, "started") /\ Goes(r, "rejected")
         \/ OpenObject(r)
         \/ At(r, "linked") /\ ~run[r].failed /\ Goes(r, "loading")
  PROVE  Keeps(r)
<1> DEFINE new == [run[r] EXCEPT !.at = run'[r].at]
<1>1. TypeOK /\ InHand(r) /\ object' = object /\ library' = library /\ files' = files
  BY DEF IInv, KeepsFiles
<1>2. FilesGrow
  BY <1>1 DEF FilesGrow, TypeOK
<1>3. /\ \/ run[r].at = "started" /\ run'[r].at \in {"compiled", "rejected"}
         \/ run[r].at = "compiled" /\ run'[r].at = "writing"
         \/ run[r].at = "linked" /\ ~run[r].failed /\ run'[r].at = "loading"
      /\ run' = [run EXCEPT ![r] = new]
  BY <1>1 DEF TypeOK, Records, At, Goes, OpenObject
<1>4. /\ new \in Records /\ new.written = run[r].written /\ new.loaded = run[r].loaded
      /\ new.failed = run[r].failed /\ new.fault = run[r].fault /\ new.read = run[r].read
      /\ new.at = run'[r].at /\ new.at # "running"
  BY <1>1, <1>3, Typed DEF Records, Places, Emitting, Loading, Ended
<1> HIDE DEF new
<1>5. TypeOK' /\ run'[r] = new /\ \A q \in Runs \ {r} : run'[q] = run[q]
  <2>1. new.written <= Pieces[r] /\ new.loaded <= Len(files')
    BY <1>1, <1>4, Typed
  <2> QED
    BY <1>1, <1>2, <1>3, <1>4, <2>1, RunTyped DEF TypeOK
<1>6. InHand(r)'
  BY <1>1, <1>3, <1>4, <1>5, Typed DEF InHand, At
<1>7. Sound(r) => Sound(r)'
  BY <1>1, <1>3, <1>4, <1>5, Typed DEF InHand, Sound, At, Begun, Codes, TypeOK
<1> QED
  BY <1>2, <1>5, <1>6, <1>7 DEF Keeps

\* The piece that is written is the next one of the run, over an older one or behind the last.
LEMMA WriteStep ==
  ASSUME IInv, NEW r \in Runs, disturbed' \subseteq Runs, WriteObject(r)
  PROVE  Keeps(r)
<1> DEFINE n == run[r].written + 1
           p == object.pieces
           new == [run[r] EXCEPT !.written = n, !.at = IF n = Pieces[r] THEN "patching" ELSE @]
<1>1. TypeOK /\ InHand(r) /\ library' = library /\ files' = files /\ run[r].at = "writing"
  BY DEF IInv, WriteObject, At
<1>2. FilesGrow
  BY <1>1 DEF FilesGrow, TypeOK
<1>3. run' = [run EXCEPT ![r] = new]
  BY <1>1 DEF WriteObject, Written, TypeOK, Records
<1>4. object' = [pieces |-> IF n <= Len(p) THEN [p EXCEPT ![n] = r] ELSE Append(p, r),
                 table |-> IF n = 1 THEN None ELSE object.table]
  BY DEF WriteObject, Code
<1>5. run[r].written \in Nat /\ n \in Nat /\ n >= 1 /\ p \in Seq(Runs) /\ object.table \in Runs \cup {None} /\ n <= Pieces[r]
  BY <1>1, Typed DEF TypeOK, Codes, InHand, At
<1>6. object' \in Codes
  <2>1. Append(p, r) \in Seq(Runs)
    BY <1>5
  <2>2. n <= Len(p) => [p EXCEPT ![n] = r] \in Seq(Runs)
    BY <1>5
  <2> QED
    BY <1>4, <1>5, <2>1, <2>2 DEF Codes
<1>7. /\ new \in Records /\ new.written = n /\ new.loaded = run[r].loaded
      /\ new.failed = run[r].failed /\ new.fault = run[r].fault /\ new.read = run[r].read
      /\ new.at = IF n = Pieces[r] THEN "patching" ELSE "writing"
  BY <1>1, <1>5, Typed DEF Records, Places, Emitting
<1> HIDE DEF new
<1>8. TypeOK' /\ run'[r] = new /\ \A q \in Runs \ {r} : run'[q] = run[q]
  <2>1. new.written <= Pieces[r] /\ new.loaded <= Len(files') /\ new.at # "running"
    BY <1>1, <1>5, <1>7, Typed
  <2> QED
    BY <1>1, <1>2, <1>3, <1>6, <1>7, <2>1, RunTyped DEF TypeOK
<1>9. InHand(r)'
  BY <1>1, <1>5, <1>7, <1>8, Typed DEF InHand, At
<1>10. Sound(r) => Sound(r)'
  <2> SUFFICES ASSUME Sound(r) PROVE Sound(r)'
    OBVIOUS
  <2>1. Begun(r, run[r].written)
    BY <1>1 DEF Sound, At
  <2>2. n <= Len(object'.pieces) /\ \A i \in 1 .. n : object'.pieces[i] = r
    <3>1. Len(p) \in Nat /\ Len(p) >= n - 1 /\ \A i \in 1 .. n - 1 : p[i] = r
      BY <1>5, <2>1 DEF Begun
    <3>2. object'.pieces = IF n <= Len(p) THEN [p EXCEPT ![n] = r] ELSE Append(p, r)
      BY <1>4
    <3>3. CASE n <= Len(p)
      <4>1. Len([p EXCEPT ![n] = r]) = Len(p)
        BY <1>5, <3>1, <3>3
      <4> QED
        BY <1>5, <3>1, <3>2, <3>3, <4>1
    <3>4. CASE n > Len(p)
      <4>1. object'.pieces = Append(p, r) /\ Len(p) = n - 1
        BY <1>5, <3>1, <3>2, <3>4
      <4> QED
        BY <1>5, <3>1, <4>1
    <3> QED
      BY <1>5, <3>1, <3>3, <3>4
  <2> QED
    BY <1>5, <1>7, <1>8, <2>2 DEF Sound, At, Begun
<1> QED
  BY <1>2, <1>8, <1>9, <1>10 DEF Keeps

\* From a failure on nothing is said of the run but that it met one.
LEMMA WriteFailsStep ==
  ASSUME IInv, NEW r \in Runs, disturbed' \subseteq Runs, WriteFails(r)
  PROVE  Keeps(r)
<1> DEFINE new == [run[r] EXCEPT !.failed = TRUE, !.fault = TRUE,
                                 !.at = IF run[r].written = 0 THEN "emitted" ELSE "patching"]
<1>1. TypeOK /\ InHand(r) /\ object' = object /\ library' = library /\ files' = files /\ run[r].at = "writing"
  BY DEF IInv, WriteFails, KeepsFiles, At
<1>2. FilesGrow
  BY <1>1 DEF FilesGrow, TypeOK
<1>3. run' = [run EXCEPT ![r] = new]
  BY <1>1 DEF WriteFails, TypeOK, Records
<1>4. /\ new \in Records /\ new.written = run[r].written /\ new.loaded = run[r].loaded
      /\ new.failed /\ new.fault /\ new.read = run[r].read
      /\ new.at \in {"emitted", "patching"}
  BY <1>1, Typed DEF Records, Places, Emitting
<1> HIDE DEF new
<1>5. TypeOK' /\ run'[r] = new /\ \A q \in Runs \ {r} : run'[q] = run[q]
  <2>1. new.written <= Pieces[r] /\ new.loaded <= Len(files') /\ new.at # "running"
    BY <1>1, <1>4, Typed
  <2> QED
    BY <1>1, <1>2, <1>3, <1>4, <2>1, RunTyped DEF TypeOK
<1>6. InHand(r)'
  BY <1>1, <1>4, <1>5 DEF InHand, At
<1>7. Sound(r)'
  BY <1>4, <1>5 DEF Sound, At
<1> QED
  BY <1>2, <1>5, <1>6, <1>7 DEF Keeps

LEMMA PatchStep ==
  ASSUME IInv, NEW r \in Runs, disturbed' \subseteq Runs, PatchHeader(r)
  PROVE  Keeps(r)
<1> DEFINE new == [run[r] EXCEPT !.at = "emitted"]
<1>1. TypeOK /\ InHand(r) /\ library' = library /\ files' = files /\ run[r].at = "patching"
  BY DEF IInv, PatchHeader, At
<1>2. FilesGrow
  BY <1>1 DEF FilesGrow, TypeOK
<1>3. run' = [run EXCEPT ![r] = new] /\ object' = [object EXCEPT !.table = r]
  BY <1>1 DEF PatchHeader, Goes, TypeOK, Records
<1>4. object' \in Codes /\ object'.pieces = object.pieces /\ object'.table = r
  BY <1>1, <1>3 DEF TypeOK, Codes
<1>5. /\ new \in Records /\ new.written = run[r].written /\ new.loaded = run[r].loaded
      /\ new.failed = run[r].failed /\ new.fault = run[r].fault /\ new.read = run[r].read
      /\ new.at = "emitted"
  BY <1>1, Typed DEF Records, Places, Emitting
<1> HIDE DEF new
<1>6. TypeOK' /\ run'[r] = new /\ \A q \in Runs \ {r} : run'[q] = run[q]
  <2>1. new.written <= Pieces[r] /\ new.loaded <= Len(files') /\ new.at # "running"
    BY <1>1, <1>5, Typed
  <2> QED
    BY <1>1, <1>2, <1>3, <1>4, <1>5, <2>1, RunTyped DEF TypeOK
<1>7. InHand(r)'
  BY <1>1, <1>5, <1>6 DEF InHand, At
<1>8. Sound(r) => Sound(r)'
  BY <1>1, <1>4, <1>5, <1>6 DEF Sound, At, Begun, IsWhole
<1> QED
  BY <1>2, <1>6, <1>7, <1>8 DEF Keeps

\* A file that is made is a new one.
LEMMA OpenLibraryStep ==
  ASSUME IInv, NEW r \in Runs, disturbed' \subseteq Runs, OpenLibrary(r)
  PROVE  Keeps(r)
<1> DEFINE new == [run[r] EXCEPT !.at = "linking"]
<1>1. TypeOK /\ InHand(r) /\ object' = object /\ run[r].at = "emitted"
  BY DEF IInv, OpenLibrary, At
<1>2. /\ FilesGrow /\ files' \in Seq(Codes) /\ library' \in 0 .. Len(files')
  BY <1>1, EmptyTyped DEF OpenLibrary, FilesGrow, TypeOK
<1>3. run' = [run EXCEPT ![r] = new]
  BY <1>1 DEF OpenLibrary, Goes, TypeOK, Records
<1>4. /\ new \in Records /\ new.written = run[r].written /\ new.loaded = run[r].loaded
      /\ new.failed = run[r].failed /\ new.fault = run[r].fault /\ new.read = run[r].read
      /\ new.at = "linking"
  BY <1>1, Typed DEF Records, Places, Emitting
<1> HIDE DEF new
<1>5. TypeOK' /\ run'[r] = new /\ \A q \in Runs \ {r} : run'[q] = run[q]
  <2>1. new.written <= Pieces[r] /\ new.loaded <= Len(files') /\ new.at # "running"
    BY <1>1, <1>2, <1>4, Typed DEF FilesGrow, TypeOK
  <2> QED
    BY <1>1, <1>2, <1>3, <1>4, <2>1, RunTyped DEF TypeOK
<1>6. InHand(r)'
  BY <1>1, <1>4, <1>5 DEF InHand, At
<1>7. Sound(r) => Sound(r)'
  <2>1. new.read.pieces = <<>> /\ Len(new.read.pieces) = 0
    BY <1>1, <1>4, EmptyTyped DEF InHand
  <2> QED
    BY <1>1, <1>4, <1>5, <2>1, Typed DEF Sound, At, IsWhole
<1> QED
  BY <1>2, <1>5, <1>6, <1>7 DEF Keeps

\* The linker reads the pieces in their order, and no more than the header tells of.
LEMMA ReadStep ==
  ASSUME IInv, NEW r \in Runs, disturbed' \subseteq Runs, LinkReads(r)
  PROVE  Keeps(r)
<1> DEFINE read == run[r].read
           k == Len(read.pieces)
           next == [pieces |-> Append(read.pieces, object.pieces[k + 1]),
                    table |-> IF read.pieces = <<>> THEN object.table ELSE read.table]
           new == [run[r] EXCEPT !.read = next]
<1>1. /\ TypeOK /\ InHand(r) /\ object' = object /\ library' = library /\ files' = files
      /\ run[r].at \in {"linking", "copying"} /\ More(read)
  BY DEF IInv, LinkReads, KeepsFiles, At
<1>2. FilesGrow
  BY <1>1 DEF FilesGrow, TypeOK
<1>3. run' = [run EXCEPT ![r] = new]
  BY <1>1 DEF LinkReads, Code, TypeOK, Records
<1>4. /\ read \in Codes /\ read.pieces \in Seq(Runs) /\ k \in Nat
      /\ object.pieces \in Seq(Runs) /\ object.table \in Runs \cup {None} /\ read.table \in Runs \cup {None}
      /\ k < Len(object.pieces) /\ object.pieces[k + 1] \in Runs
  BY <1>1, Typed DEF TypeOK, Codes, More
<1>5. /\ next \in Codes /\ Len(next.pieces) = k + 1
      /\ \A i \in 1 .. k : next.pieces[i] = read.pieces[i]
      /\ next.pieces[k + 1] = object.pieces[k + 1]
      /\ next.table = IF read.pieces = <<>> THEN object.table ELSE read.table
  BY <1>4 DEF Codes
<1> HIDE DEF next
<1>6. /\ new \in Records /\ new.written = run[r].written /\ new.loaded = run[r].loaded
      /\ new.failed = run[r].failed /\ new.fault = run[r].fault /\ new.read = next
      /\ new.at = run[r].at
  BY <1>1, <1>5, Typed DEF Records
<1> HIDE DEF new
<1>7. TypeOK' /\ run'[r] = new /\ \A q \in Runs \ {r} : run'[q] = run[q]
  <2>1. new.written <= Pieces[r] /\ new.loaded <= Len(files') /\ new.at # "running"
    BY <1>1, <1>6, Typed
  <2> QED
    BY <1>1, <1>2, <1>3, <1>6, <2>1, RunTyped DEF TypeOK
<1>8. InHand(r)'
  BY <1>1, <1>6, <1>7 DEF InHand, At
<1>9. Sound(r) => Sound(r)'
  <2> SUFFICES ASSUME Sound(r), ~run[r].failed PROVE Sound(r)'
    BY <1>1, <1>6, <1>7 DEF Sound, At
  <2>1. /\ IsWhole(object, r) /\ k <= Pieces[r]
        /\ \A i \in 1 .. k : read.pieces[i] = r
        /\ read.pieces # <<>> => read.table = r
    BY <1>1 DEF Sound
  <2>2. k + 1 <= Pieces[r]
    BY <1>1, <1>4, <2>1, Typed DEF More
  <2>3. /\ \A i \in 1 .. k + 1 : next.pieces[i] = r
        /\ next.table = r
    <3>1. next.pieces[k + 1] = r
      BY <1>1, <1>4, <1>5, <2>1, <2>2, Typed DEF IsWhole
    <3>2. next.table = r
      BY <1>5, <2>1 DEF IsWhole
    <3>3. \A i \in 1 .. k + 1 : i \in 1 .. k \/ i = k + 1
      BY <1>4
    <3> QED
      BY <1>5, <2>1, <3>1, <3>2, <3>3
  <2> QED
    BY <1>1, <1>5, <1>6, <1>7, <2>1, <2>2, <2>3 DEF Sound, At
<1> QED
  BY <1>2, <1>7, <1>8, <1>9 DEF Keeps

LEMMA UnlinkStep ==
  ASSUME IInv, NEW r \in Runs, disturbed' \subseteq Runs, LinkUnlinks(r)
  PROVE  Keeps(r)
<1> DEFINE new == [run[r] EXCEPT !.at = "copying"]
<1>1. /\ TypeOK /\ InHand(r) /\ object' = object /\ files' = files /\ run[r].at = "linking"
      /\ library' \in {0, library}
  BY DEF IInv, LinkUnlinks, At
<1>2. FilesGrow /\ library' \in 0 .. Len(files')
  BY <1>1 DEF FilesGrow, TypeOK
<1>3. run' = [run EXCEPT ![r] = new]
  BY <1>1 DEF LinkUnlinks, Goes, TypeOK, Records
<1>4. /\ new \in Records /\ new.written = run[r].written /\ new.loaded = run[r].loaded
      /\ new.failed = run[r].failed /\ new.fault = run[r].fault /\ new.read = run[r].read
      /\ new.at = "copying"
  BY <1>1, Typed DEF Records, Places, Emitting
<1> HIDE DEF new
<1>5. TypeOK' /\ run'[r] = new /\ \A q \in Runs \ {r} : run'[q] = run[q]
  <2>1. new.written <= Pieces[r] /\ new.loaded <= Len(files') /\ new.at # "running"
    BY <1>1, <1>4, Typed
  <2> QED
    BY <1>1, <1>2, <1>3, <1>4, <2>1, RunTyped DEF TypeOK
<1>6. InHand(r)'
  BY <1>1, <1>4, <1>5 DEF InHand, At
<1>7. Sound(r) => Sound(r)'
  BY <1>1, <1>4, <1>5 DEF Sound, At
<1> QED
  BY <1>2, <1>5, <1>6, <1>7 DEF Keeps

\* What the linker has read when there is no more is all of the object.
LEMMA RenameStep ==
  ASSUME IInv, NEW r \in Runs, disturbed' \subseteq Runs, LinkRenames(r)
  PROVE  Keeps(r)
<1> DEFINE read == run[r].read
           new == [Run("linked", run[r].fault) EXCEPT !.failed = run[r].failed]
<1>1. /\ TypeOK /\ InHand(r) /\ object' = object /\ run[r].at = "copying" /\ ~More(read)
      /\ files' = Append(files, read) /\ library' = Len(files) + 1
      /\ run' = [run EXCEPT ![r] = new]
  BY DEF IInv, LinkRenames, At
<1>2. /\ files' \in Seq(Codes) /\ FilesGrow /\ library' \in 0 .. Len(files') /\ Len(files') \in Nat
      /\ files'[library'] = read /\ library' # 0
  BY <1>1, Typed DEF FilesGrow, TypeOK
<1>3. /\ new \in Records /\ new.written = 0 /\ new.loaded = 0
      /\ new.failed = run[r].failed /\ new.fault = run[r].fault
      /\ new.at = "linked"
  BY <1>1, Typed, EmptyTyped DEF Run, Records, Places, Loading
<1> HIDE DEF new
<1>4. TypeOK' /\ run'[r] = new /\ \A q \in Runs \ {r} : run'[q] = run[q]
  <2>1. new.written <= Pieces[r] /\ new.loaded <= Len(files') /\ new.at # "running"
    BY <1>1, <1>2, <1>3, Typed
  <2> QED
    BY <1>1, <1>2, <1>3, <2>1, RunTyped DEF TypeOK
<1>5. InHand(r)'
  BY <1>1, <1>3, <1>4 DEF InHand, At
<1>6. Sound(r) => Sound(r)'
  <2> SUFFICES ASSUME Sound(r), ~run[r].failed PROVE Sound(r)'
    BY <1>3, <1>4 DEF Sound, At
  <2>1. /\ IsWhole(object, r) /\ Len(read.pieces) <= Pieces[r]
        /\ \A i \in 1 .. Len(read.pieces) : read.pieces[i] = r
        /\ read.pieces # <<>> => read.table = r
    BY <1>1 DEF Sound
  <2>2. read.pieces \in Seq(Runs) /\ object.pieces \in Seq(Runs)
    BY <1>1, Typed DEF TypeOK, Codes
  <2>3. read.pieces # <<>> /\ Len(read.pieces) = Pieces[r]
    BY <1>1, <2>1, <2>2, Typed DEF More, IsWhole
  <2>4. IsWhole(read, r)
    BY <2>1, <2>2, <2>3, Typed DEF IsWhole
  <2> QED
    BY <1>2, <1>3, <1>4, <2>4 DEF Sound, At
<1> QED
  BY <1>2, <1>4, <1>5, <1>6 DEF Keeps

\* dlopen: the code of the library is what runs.
LEMMA LoadStep ==
  ASSUME IInv, NEW r \in Runs, disturbed' \subseteq Runs, KeepsFiles, At(r, "loading"), library # 0,
         run' = [run EXCEPT ![r].at = "running", ![r].loaded = library]
  PROVE  Keeps(r)
<1> DEFINE new == [run[r] EXCEPT !.at = "running", !.loaded = library]
<1>1. /\ TypeOK /\ InHand(r) /\ object' = object /\ library' = library /\ files' = files
      /\ run[r].at = "loading"
  BY DEF IInv, KeepsFiles, At
<1>2. FilesGrow
  BY <1>1 DEF FilesGrow, TypeOK
<1>3. run' = [run EXCEPT ![r] = new]
  BY <1>1 DEF TypeOK, Records
<1>4. /\ new \in Records /\ new.written = run[r].written /\ new.loaded = library
      /\ new.failed = run[r].failed /\ new.fault = run[r].fault /\ new.read = run[r].read
      /\ new.at = "running"
  <2>1. library \in Nat
    BY <1>1 DEF TypeOK
  <2> QED
    BY <1>1, <2>1, Typed DEF Records, Places
<1> HIDE DEF new
<1>5. TypeOK' /\ run'[r] = new /\ \A q \in Runs \ {r} : run'[q] = run[q]
  <2>1. new.written <= Pieces[r] /\ new.loaded <= Len(files') /\ new.loaded # 0
    BY <1>1, <1>4, Typed DEF TypeOK
  <2> QED
    BY <1>1, <1>2, <1>3, <1>4, <2>1, RunTyped DEF TypeOK
<1>6. InHand(r)'
  BY <1>1, <1>4, <1>5 DEF InHand, At
<1>7. Sound(r) => Sound(r)'
  BY <1>1, <1>4, <1>5 DEF Sound, At, InHand
<1> QED
  BY <1>2, <1>5, <1>6, <1>7 DEF Keeps

\* Every step of a run keeps what it and its files are.
LEMMA StepKeeps ==
  ASSUME IInv, NEW r \in Runs, disturbed' \subseteq Runs, Step(r)
  PROVE  Keeps(r)
<1>1. TypeOK /\ InHand(r) /\ run[r].fault \in BOOLEAN
  BY Typed DEF IInv
<1>2. CASE \E place \in {"compiled", "rejected"} : Compile(r, place)
  BY <1>2, MoveStep DEF Compile
<1>3. CASE LinkFails(r)
  <2>1. KeepsFiles /\ run[r].at \in {"linking", "copying"}
    BY <1>3 DEF LinkFails
  <2>2. CASE Fails(r)
    BY <2>1, <2>2, EndStep DEF Fails, Ended
  <2>3. CASE /\ ~Whole(object) \/ (~More(run[r].read) /\ ~Whole(run[r].read))
             /\ Ends(r, "failed")
    <3>1. Sound(r) => run[r].fault
      <4> SUFFICES ASSUME Sound(r), ~run[r].failed PROVE FALSE
        BY <1>1 DEF InHand
      <4>1. /\ IsWhole(object, r) /\ Len(run[r].read.pieces) <= Pieces[r]
            /\ \A i \in 1 .. Len(run[r].read.pieces) : run[r].read.pieces[i] = r
            /\ run[r].read.pieces # <<>> => run[r].read.table = r
        BY <2>1 DEF Sound
      <4>2. ~More(run[r].read) /\ ~Whole(run[r].read)
        BY <2>3, <4>1 DEF Whole
      <4>3. run[r].read.pieces \in Seq(Runs) /\ object.pieces \in Seq(Runs)
        BY <1>1, Typed DEF TypeOK, Codes
      <4>4. run[r].read.pieces # <<>> /\ Len(run[r].read.pieces) = Pieces[r]
        BY <1>1, <4>1, <4>2, <4>3, Typed DEF More, IsWhole
      <4>5. IsWhole(run[r].read, r)
        BY <1>1, <4>1, <4>3, <4>4, Typed DEF IsWhole
      <4> QED
        BY <4>2, <4>5 DEF Whole
    <3> QED
      BY <1>1, <2>1, <2>3, <3>1, EndStep DEF Ends, Ended
  <2> QED
    BY <1>3, <2>2, <2>3 DEF LinkFails
<1>4. CASE CloseObject(r)
  <2>1. CASE run[r].failed
    BY <1>1, <1>4, <2>1, EndStep DEF CloseObject, Ends, Ended, InHand
  <2>2. CASE ~run[r].failed
    BY <1>4, <2>2, MoveStep DEF CloseObject
  <2> QED
    BY <2>1, <2>2
<1>5. CASE Load(r)
  <2>1. CASE Ends(r, "failed") /\ ~Whole(IF library = 0 THEN Empty ELSE files[library])
    <3>1. ~Sound(r)
      BY <1>1, <1>5, <2>1 DEF Load, Sound, At, InHand, Whole
    <3> QED
      BY <1>1, <1>5, <2>1, <3>1, EndStep DEF Load, Ends, Ended
  <2>2. CASE library # 0 /\ run' = [run EXCEPT ![r].at = "running", ![r].loaded = library]
    BY <1>5, <2>2, LoadStep DEF Load
  <2> QED
    BY <1>5, <2>1, <2>2 DEF Load
<1>6. CASE Return(r)
  BY <1>1, <1>6, EndStep DEF Return, Ends, Ended
<1>7. CASE Kill(r)
  BY <1>1, <1>7, EndStep DEF Kill, Ends, Ended
<1>8. CASE OpenObject(r)
  BY <1>8, MoveStep DEF OpenObject
<1> QED
  BY <1>2, <1>3, <1>4, <1>5, <1>6, <1>7, <1>8, WriteStep, WriteFailsStep, PatchStep,
     OpenLibraryStep, ReadStep, UnlinkStep, RenameStep DEF Step

\* A step leaves an undisturbed run its files: obj.o while it is made and linked, obj.so until
\* it is loaded, and the file it has loaded for ever.
LEMMA OthersKeep ==
  ASSUME IInv, NEW r \in Runs, NEW q \in Runs \ {r}, Keeps(r),
         disturbed' = disturbed \cup Disturbs(r), q \notin disturbed'
  PROVE  Sound(q)'
<1>1. TypeOK /\ Sound(q) /\ run'[q] = run[q] /\ FilesGrow
  BY DEF IInv, Keeps
<1>2. /\ run[q].at \in Emitting => object' = object
      /\ run[q].at \in Loading => library' = library
  BY DEF Disturbs
<1>3. /\ Len(files) \in Nat /\ library \in 0 .. Len(files) /\ run[q].loaded \in 0 .. Len(files)
      /\ At(q, "running") => run[q].loaded # 0
  BY <1>1, Typed DEF TypeOK
<1>4. /\ library # 0 => files'[library] = files[library]
      /\ At(q, "running") => files'[run[q].loaded] = files[run[q].loaded]
  BY <1>1, <1>3 DEF FilesGrow
<1>5. run[q].at = "writing" \/ run[q].at \in {"patching", "emitted", "linking", "copying"} => object' = object
  BY <1>2 DEF Emitting
<1>6. run[q].at \in {"linked", "loading"} => library' = library
  BY <1>2 DEF Loading
<1> QED
  BY <1>1, <1>4, <1>5, <1>6 DEF Sound, At, Begun

LEMMA NextStep ==
  ASSUME IInv, Next
  PROVE  IInv' /\ \E r \in Runs : Keeps(r)
<1>1. PICK r \in Runs : Step(r) /\ disturbed' = disturbed \cup Disturbs(r)
  BY DEF Next
<1>2. disturbed' \subseteq Runs
  BY <1>1 DEF IInv, TypeOK, Disturbs
<1>3. Keeps(r)
  BY <1>1, <1>2, StepKeeps
<1>4. \A q \in Runs : InHand(q)'
  BY <1>3 DEF IInv, Keeps, InHand, At
<1>5. \A q \in Runs \ disturbed' : Sound(q)'
  BY <1>1, <1>3, OthersKeep DEF IInv, Keeps
<1> QED
  BY <1>3, <1>4, <1>5 DEF IInv, Keeps

LEMMA InitInv == Init => IInv
<1> SUFFICES ASSUME Init PROVE IInv
  OBVIOUS
<1>1. \A r \in Runs : run[r] = Run("started", FALSE)
  BY DEF Init
<1>2. run \in [Runs -> Records]
  BY EmptyTyped DEF Init, Places
<1>3. files \in Seq(Codes) /\ Len(files) = 0 /\ object \in Codes
  BY EmptyTyped DEF Init
<1>4. \A r \in Runs : /\ run[r].written <= Pieces[r] /\ run[r].loaded <= Len(files)
                      /\ ~At(r, "running")
  <2> SUFFICES ASSUME NEW r \in Runs
               PROVE  /\ run[r].written <= Pieces[r] /\ run[r].loaded <= Len(files)
                      /\ ~At(r, "running")
    OBVIOUS
  <2>1. run[r].written = 0 /\ run[r].loaded = 0 /\ run[r].at = "started"
    BY <1>1 DEF Run
  <2>2. Pieces[r] \in Nat
    BY PipelineAssumption
  <2> QED
    BY <1>3, <2>1, <2>2 DEF At
<1>5. TypeOK
  <2>1. library \in 0 .. Len(files) /\ disturbed \subseteq Runs
    BY <1>3 DEF Init
  <2> QED
    BY <1>2, <1>3, <1>4, <2>1 DEF TypeOK
<1>6. \A r \in Runs : InHand(r) /\ Sound(r)
  BY <1>1 DEF InHand, Sound, Run, At
<1> QED
  BY <1>5, <1>6 DEF IInv

-----------------------------------------------------------------------------
(* The theorems.                                                           *)

\* The strengthened invariant holds whatever the runs, the disk and whoever kills them do.
THEOREM Invariance == Spec => []IInv
<1>1. IInv /\ [Next]_vars => IInv'
  <2>1. IInv /\ UNCHANGED vars => IInv'
    <3> SUFFICES ASSUME IInv, UNCHANGED vars PROVE IInv'
      OBVIOUS
    <3>1. object' = object /\ library' = library /\ files' = files /\ run' = run /\ disturbed' = disturbed
      BY DEF vars
    <3> QED
      BY <3>1 DEF IInv, TypeOK, InHand, Sound, At, Begun
  <2> QED
    BY <2>1, NextStep
<1> QED
  BY <1>1, InitInv, PTL DEF Spec

\* A run in the middle of the constructor of EmittedObject has the files it says, and a program
\* that runs has been loaded.
THEOREM TypeCorrect == Spec => []TypeOK
<1>1. IInv => TypeOK
  BY DEF IInv
<1> QED
  BY <1>1, Invariance, PTL

\* EmittedObject and main: whatever is left of obj.o and obj.so, a run that is not disturbed
\* executes all of what it compiled and nothing else, and does not fail but for the disk.
THEOREM ExecutesItsProgram == Spec => []RunsWhatItCompiled
<1>1. IInv => RunsWhatItCompiled
  BY DEF IInv, RunsWhatItCompiled, Sound
<1> QED
  BY <1>1, Invariance, PTL

\* The file that dlopen mapped is never written, since the linker renames a new one.
THEOREM CodeIsFinal == Spec => LoadedIsFinal
<1> DEFINE Stays == \A r \in Runs : At(r, "running") => files'[run[r].loaded] = files[run[r].loaded]
<1>1. IInv /\ [Next]_vars => [Stays]_vars
  <2> SUFFICES ASSUME IInv, Next PROVE Stays
    BY DEF vars
  <2>1. TypeOK /\ FilesGrow
    BY NextStep DEF IInv, Keeps
  <2>2. \A r \in Runs : At(r, "running") => run[r].loaded \in 1 .. Len(files)
    <3> SUFFICES ASSUME NEW r \in Runs, At(r, "running") PROVE run[r].loaded \in 1 .. Len(files)
      OBVIOUS
    <3>1. run[r].loaded \in Nat /\ run[r].loaded <= Len(files) /\ run[r].loaded # 0 /\ Len(files) \in Nat
      BY <2>1, Typed DEF TypeOK
    <3> QED
      BY <3>1
  <2> QED
    BY <2>1, <2>2 DEF FilesGrow
<1> QED
  BY <1>1, Invariance, PTL DEF Spec, LoadedIsFinal
=============================================================================
