----------------------------- MODULE CallsProofs -----------------------------
(***************************************************************************)
(* Proofs about Calls, for every set of methods and every depth of calls:  *)
(* block, names and arguments reach the method they were passed to.        *)
(***************************************************************************)
EXTENDS Calls, SequenceTheorems, TLAPS

-----------------------------------------------------------------------------
(* The strengthened invariant.                                             *)

\* What a call was entered with is what its caller passed.
GoodFrame(f) ==
  /\ Named(f.method) => Len(f.argv) = f.argc + 1 /\ f.argv[f.argc + 1] = f.hash
  /\ f.argc <= Len(f.argv)
  /\ Len(f.passed) = f.argc
  /\ ~f.copied => SubSeq(f.argv, 1, f.argc) = f.passed

\* What the return of call i puts back is the block of the call below, which a forwarded
\* call shares.
PutsBack(s) ==
  \A i \in 2 .. Len(s) :
    IF s[i].saved = Nothing THEN s[i].block = s[i - 1].block ELSE s[i].saved = s[i - 1].block

IInv ==
  /\ TypeOK
  /\ \A i \in DOMAIN stack : GoodFrame(stack[i])
  /\ PutsBack(stack)
  /\ stack # <<>> => currentProc = Top.block

-----------------------------------------------------------------------------
(* Frames.                                                                 *)

LEMMA ArgsAreWords ==
  ASSUME NEW n \in Nat
  PROVE  /\ Args(n) \in Seq(Words) /\ Len(Args(n)) = n
         /\ SubSeq(Args(n), 1, n) = Args(n)
<1>1. \A i \in 1 .. n : Arg(i) \in Words
  BY DEF Arg, Words
<1>2. Args(n) \in [1 .. n -> Words]
  BY <1>1 DEF Args
<1>3. Args(n) \in Seq(Words)
  BY <1>2
<1>4. Len(Args(n)) = n
  BY <1>3 DEF Args
<1> QED
  BY <1>3, <1>4

\* A word more after the arguments changes none of them.
LEMMA ArgsAndOne ==
  ASSUME NEW n \in Nat, NEW w \in Words, NEW a \in Seq(Words), Len(a) = n
  PROVE  /\ Append(a, w) \in Seq(Words) /\ Len(Append(a, w)) = n + 1
         /\ Append(a, w)[n + 1] = w
         /\ SubSeq(Append(a, w), 1, n) = a
         /\ SubSeq(Append(a, w), 1, n + 1) = Append(a, w)
<1>1. /\ Append(a, w) \in Seq(Words) /\ Len(Append(a, w)) = n + 1
      /\ Append(a, w)[n + 1] = w
      /\ \A i \in 1 .. n : Append(a, w)[i] = a[i]
  OBVIOUS
<1>2. SubSeq(Append(a, w), 1, n) = a
  <2>1. SubSeq(Append(a, w), 1, n) \in Seq(Words) /\ Len(SubSeq(Append(a, w), 1, n)) = n
        /\ \A i \in 1 .. n : SubSeq(Append(a, w), 1, n)[i] = Append(a, w)[i]
    BY <1>1
  <2> QED
    BY <1>1, <2>1
<1> QED
  BY <1>1, <1>2

LEMMA CopiedAreWords ==
  ASSUME NEW a \in Seq(Words)
  PROVE  Copied(a) \in Seq(Words) /\ Len(Copied(a)) = Len(a)
<1>1. Garbage \in Words
  BY DEF Garbage, Words
<1>2. Copied(a) \in [1 .. Len(a) -> Words]
  BY <1>1 DEF Copied
<1>3. Copied(a) \in Seq(Words)
  BY <1>2
<1> QED
  BY <1>2, <1>3 DEF Copied

\* The frame of a call is one of Frames.
LEMMA FrameTyped ==
  ASSUME NEW m \in Methods, NEW n \in Nat, NEW argv \in Seq(Words),
         NEW saved \in Procs \cup {Null, Nothing}, NEW block \in Procs \cup {Null},
         NEW hash \in {GivenHash, EmptyHash}, NEW passed \in Seq(Words), NEW copied \in BOOLEAN
  PROVE  Frame(m, n, argv, saved, block, hash, passed, copied) \in Frames
BY DEF Frame, Frames

-----------------------------------------------------------------------------
(* The steps.                                                              *)

\* A dispatcher that saves currentProc and sets it to the callee's block keeps the
\* invariant, if it enters a good frame.
LEMMA EnterStep ==
  ASSUME IInv, NEW f \in Frames, GoodFrame(f), f.saved = currentProc, f.block \in Procs,
         stack # <<>>, Enter(f, f.block)
  PROVE  IInv'
<1>1. /\ stack \in Seq(Frames) /\ currentProc \in Procs \cup {Null}
      /\ stack' = Append(stack, f) /\ currentProc' = f.block /\ mode' = mode
      /\ currentProc = stack[Len(stack)].block
  BY DEF IInv, TypeOK, Enter, Top
<1>2. /\ stack' \in Seq(Frames) /\ Len(stack') = Len(stack) + 1
      /\ stack'[Len(stack) + 1] = f
      /\ \A i \in 1 .. Len(stack) : stack'[i] = stack[i]
      /\ Len(stack) \in Nat /\ DOMAIN stack = 1 .. Len(stack)
      /\ DOMAIN stack' = 1 .. Len(stack) + 1
  BY <1>1
<1>3. TypeOK'
  BY <1>1, <1>2 DEF IInv, TypeOK
<1>4. \A i \in DOMAIN stack' : GoodFrame(stack'[i])
  BY <1>2 DEF IInv
<1>5. currentProc # Nothing
  BY <1>1, CallsAssumption DEF Procs
<1>6. PutsBack(stack')
  <2> SUFFICES ASSUME NEW i \in 2 .. Len(stack) + 1
               PROVE  IF stack'[i].saved = Nothing THEN stack'[i].block = stack'[i - 1].block
                      ELSE stack'[i].saved = stack'[i - 1].block
    BY <1>2 DEF PutsBack
  <2>1. CASE i \in 2 .. Len(stack)
    <3>1. stack'[i] = stack[i] /\ stack'[i - 1] = stack[i - 1]
      BY <1>2, <2>1
    <3> QED
      BY <2>1, <3>1 DEF IInv, PutsBack
  <2>2. CASE i = Len(stack) + 1
    <3>1. stack'[i] = f /\ stack'[i - 1] = stack[Len(stack)]
      BY <1>2, <2>2
    <3> QED
      BY <1>1, <1>5, <3>1
  <2> QED
    BY <1>2, <2>1, <2>2
<1>7. Top'.block = currentProc'
  BY <1>1, <1>2 DEF Top
<1> QED
  BY <1>3, <1>4, <1>6, <1>7 DEF IInv

\* An exception that reaches main leaves no call.
LEMMA UncaughtStep ==
  ASSUME IInv, Uncaught
  PROVE  IInv'
<1>1. stack' = <<>> /\ mode' = "uncaught" /\ currentProc' = currentProc
  BY DEF Uncaught
<1>2. stack' \in Seq(Frames) /\ DOMAIN stack' = {} /\ Len(stack') = 0
  BY <1>1
<1>3. TypeOK'
  BY <1>1, <1>2 DEF IInv, TypeOK
<1>4. PutsBack(stack')
  BY <1>2 DEF PutsBack
<1> QED
  BY <1>1, <1>2, <1>3, <1>4 DEF IInv

LEMMA EnterDirectStep ==
  ASSUME IInv, stack # <<>>, NEW m \in Methods, NEW n \in Nat, NEW proc \in Procs,
         ~Array(m), EnterDirect(m, n, proc)
  PROVE  IInv'
<1> DEFINE f == Frame(m, n, Args(n), currentProc, proc, EmptyHash, Args(n), FALSE)
<1>1. CASE n = Meta[m].argc
  <2>1. f \in Frames
    BY ArgsAreWords, FrameTyped DEF IInv, TypeOK
  <2>2. ~Named(m)
    BY CallsAssumption DEF Array, Named
  <2>3. GoodFrame(f)
    BY <2>2, ArgsAreWords DEF GoodFrame, Frame
  <2>4. f.saved = currentProc /\ f.block = proc
    BY DEF Frame
  <2>5. Enter(f, proc)
    BY <1>1 DEF EnterDirect
  <2> HIDE DEF f
  <2> QED
    BY <2>1, <2>3, <2>4, <2>5, EnterStep
<1>2. CASE n # Meta[m].argc
  BY <1>2, UncaughtStep DEF EnterDirect
<1> QED
  BY <1>1, <1>2

LEMMA CallFixedStep ==
  ASSUME IInv, NEW m \in Callees, NEW n \in ArgCounts, CallFixed(m, n)
  PROVE  IInv'
<1> DEFINE argv == IF Named(m) THEN Append(Args(n), EmptyHash) ELSE Args(n)
           f == Frame(m, n, argv, currentProc, Nil, EmptyHash, Args(n), FALSE)
<1>1. m \in Methods /\ n \in Nat /\ stack # <<>> /\ Nil \in Procs
  BY CallsAssumption DEF Callees, CallFixed, Runs, Procs
<1>2. CASE Array(m)
  <2>1. EmptyHash \in Words
    BY DEF EmptyHash, Words
  <2>2. /\ argv \in Seq(Words) /\ SubSeq(argv, 1, n) = Args(n)
        /\ Named(m) => Len(argv) = n + 1 /\ argv[n + 1] = EmptyHash
        /\ ~Named(m) => Len(argv) = n
    BY <1>1, <2>1, ArgsAreWords, ArgsAndOne
  <2> HIDE DEF argv
  <2>3. f \in Frames
    BY <1>1, <2>2, ArgsAreWords, FrameTyped DEF IInv, TypeOK
  <2>4. GoodFrame(f) /\ f.saved = currentProc /\ f.block = Nil
    BY <1>1, <2>2, ArgsAreWords DEF GoodFrame, Frame
  <2>5. Enter(f, Nil)
    BY <1>2 DEF CallFixed, argv
  <2> HIDE DEF f
  <2> QED
    BY <1>1, <2>3, <2>4, <2>5, EnterStep
<1>3. CASE ~Array(m)
  <2>1. EnterDirect(m, n, Nil)
    BY <1>3 DEF CallFixed
  <2> QED
    BY <1>1, <1>3, <2>1, EnterDirectStep
<1> QED
  BY <1>2, <1>3

LEMMA CallArrayStep ==
  ASSUME IInv, NEW m \in Callees, NEW n \in ArgCounts, NEW block \in Procs, CallArray(m, n, block)
  PROVE  IInv'
<1> DEFINE argv == IF Named(m) THEN Append(Copied(Args(n)), EmptyHash) ELSE Args(n)
           f == Frame(m, n, argv, currentProc, block, EmptyHash, Args(n), Named(m))
<1>1. m \in Methods /\ n \in Nat /\ stack # <<>>
  BY CallsAssumption DEF Callees, CallArray, Runs
<1>2. CASE Array(m)
  <2>1. EmptyHash \in Words
    BY DEF EmptyHash, Words
  <2>2. Named(m) \in BOOLEAN
    BY <1>1, CallsAssumption DEF Named, Metas
  <2>3. /\ argv \in Seq(Words)
        /\ Named(m) => Len(argv) = n + 1 /\ argv[n + 1] = EmptyHash
        /\ ~Named(m) => Len(argv) = n /\ SubSeq(argv, 1, n) = Args(n)
    BY <1>1, <2>1, ArgsAreWords, CopiedAreWords, ArgsAndOne
  <2> HIDE DEF argv
  <2>4. f \in Frames
    BY <1>1, <2>2, <2>3, ArgsAreWords, FrameTyped DEF IInv, TypeOK
  <2>5. GoodFrame(f) /\ f.saved = currentProc /\ f.block = block
    BY <1>1, <2>3, ArgsAreWords DEF GoodFrame, Frame
  <2>6. Enter(f, block)
    BY <1>2 DEF CallArray, argv
  <2> HIDE DEF f
  <2> QED
    BY <1>1, <2>4, <2>5, <2>6, EnterStep
<1>3. CASE ~Array(m)
  <2>1. EnterDirect(m, n, block)
    BY <1>3 DEF CallArray
  <2> QED
    BY <1>1, <1>3, <2>1, EnterDirectStep
<1> QED
  BY <1>2, <1>3

LEMMA CallNamedStep ==
  ASSUME IInv, NEW m \in Callees, NEW n \in ArgCounts, NEW block \in Procs, CallNamed(m, n, block)
  PROVE  IInv'
<1> DEFINE argv == Append(Args(n), GivenHash)
           k == IF Named(m) THEN n ELSE n + 1
           f == Frame(m, k, argv, currentProc, block, GivenHash, WithHash(m, n), FALSE)
<1>1. m \in Methods /\ n \in Nat /\ stack # <<>> /\ Nil \in Procs
  BY CallsAssumption DEF Callees, CallNamed, Runs, Procs
<1>2. CASE Array(m)
  <2>1. GivenHash \in Words
    BY DEF GivenHash, Words
  <2>2. /\ argv \in Seq(Words) /\ Len(argv) = n + 1 /\ argv[n + 1] = GivenHash
        /\ SubSeq(argv, 1, n) = Args(n) /\ SubSeq(argv, 1, n + 1) = argv
        /\ Args(n) \in Seq(Words) /\ Len(Args(n)) = n
    BY <1>1, <2>1, ArgsAreWords, ArgsAndOne
  <2>3. WithHash(m, n) = (IF Named(m) THEN Args(n) ELSE argv) /\ k \in Nat
    BY <1>1 DEF WithHash
  <2>4. Enter(f, block)
    BY <1>2 DEF CallNamed
  <2> HIDE DEF argv
  <2>5. f \in Frames
    BY <1>1, <2>2, <2>3, FrameTyped DEF IInv, TypeOK
  <2>6. GoodFrame(f) /\ f.saved = currentProc /\ f.block = block
    BY <1>1, <2>2, <2>3 DEF GoodFrame, Frame
  <2> HIDE DEF f
  <2> QED
    BY <1>1, <2>4, <2>5, <2>6, EnterStep
<1>3. CASE ~Array(m)
  <2>1. EnterDirect(m, n, Nil)
    BY <1>3 DEF CallNamed
  <2> QED
    BY <1>1, <1>3, <2>1, EnterDirectStep
<1> QED
  BY <1>2, <1>3

\* What is left of a sequence from the k-th element on.
LEMMA Suffix ==
  ASSUME NEW S, NEW s \in Seq(S), NEW k \in {1, 2}, NEW n \in Nat, n = Len(s) - k + 1
  PROVE  /\ SubSeq(s, k, Len(s)) \in Seq(S)
         /\ Len(SubSeq(s, k, Len(s))) = n
         /\ \A i \in 1 .. n : SubSeq(s, k, Len(s))[i] = s[k + i - 1]
<1> DEFINE t == SubSeq(s, k, Len(s))
<1>1. /\ Len(s) \in Nat /\ DOMAIN s = 1 .. Len(s)
      /\ \A i \in 1 .. Len(s) : s[i] \in S
  OBVIOUS
<1>2. k \in Nat /\ k >= 1 /\ n + k - 1 = Len(s) /\ n = Len(s) - k + 1
  BY <1>1
<1>3. t = [i \in 1 .. n |-> s[k + i - 1]]
  BY <1>1, <1>2
<1>4. \A i \in 1 .. n : k + i - 1 \in 1 .. Len(s)
  BY <1>1, <1>2
<1>5. t \in [1 .. n -> S]
  BY <1>1, <1>3, <1>4
<1>6. t \in Seq(S) /\ Len(t) = n
  BY <1>5
<1> QED
  BY <1>3, <1>6

\* The words a call hands on from the k-th: the arguments left and the hash after them.
LEMMA WordsHandedOn ==
  ASSUME NEW f \in Frames, GoodFrame(f), Named(f.method), NEW k \in {1, 2}, NEW n \in Nat,
         n = f.argc - k + 1
  PROVE  LET argv == SubSeq(f.argv, k, Len(f.argv))
             passed == SubSeq(f.passed, k, Len(f.passed))
         IN  /\ argv \in Seq(Words) /\ Len(argv) = n + 1 /\ argv[n + 1] = f.hash
             /\ passed \in Seq(Words) /\ Len(passed) = n
             /\ SubSeq(argv, 1, n) \in Seq(Words) /\ Len(SubSeq(argv, 1, n)) = n
             /\ ~f.copied => SubSeq(argv, 1, n) = passed
<1> DEFINE argv == SubSeq(f.argv, k, Len(f.argv))
           passed == SubSeq(f.passed, k, Len(f.passed))
<1>1. /\ f.argv \in Seq(Words) /\ f.passed \in Seq(Words) /\ f.argc \in Nat
      /\ Len(f.argv) = f.argc + 1 /\ f.argv[f.argc + 1] = f.hash
      /\ Len(f.passed) = f.argc
      /\ ~f.copied => SubSeq(f.argv, 1, f.argc) = f.passed
  BY DEF Frames, GoodFrame
<1>2. /\ argv \in Seq(Words) /\ Len(argv) = n + 1
      /\ \A i \in 1 .. n + 1 : argv[i] = f.argv[k + i - 1]
  <2>1. n + 1 \in Nat /\ n + 1 = Len(f.argv) - k + 1
    BY <1>1
  <2> QED
    BY <1>1, <2>1, Suffix
<1>3. /\ passed \in Seq(Words) /\ Len(passed) = n
      /\ \A i \in 1 .. n : passed[i] = f.passed[k + i - 1]
  <2>1. n = Len(f.passed) - k + 1
    BY <1>1
  <2> QED
    BY <1>1, <2>1, Suffix
<1> HIDE DEF argv, passed
<1>4. argv[n + 1] = f.hash
  <2>1. n + 1 \in 1 .. n + 1 /\ k + (n + 1) - 1 = f.argc + 1
    BY <1>1
  <2> QED
    BY <1>1, <1>2, <2>1
<1>5. /\ SubSeq(argv, 1, n) \in Seq(Words) /\ Len(SubSeq(argv, 1, n)) = n
      /\ \A i \in 1 .. n : SubSeq(argv, 1, n)[i] = argv[i]
  BY <1>2
<1>6. ASSUME ~f.copied PROVE SubSeq(argv, 1, n) = passed
  <2>1. \A j \in 1 .. f.argc : f.passed[j] = f.argv[j]
    BY <1>1, <1>6
  <2>2. ASSUME NEW i \in 1 .. n PROVE SubSeq(argv, 1, n)[i] = passed[i]
    <3>1. i \in 1 .. n + 1 /\ k + i - 1 \in 1 .. f.argc
      BY <1>1
    <3> QED
      BY <1>2, <1>3, <1>5, <2>1, <3>1
  <2> QED
    BY <1>3, <1>5, <2>2
<1> QED
  BY <1>2, <1>3, <1>4, <1>5, <1>6 DEF argv, passed

\* A forwarder that hands its call on keeps the invariant.
LEMMA ForwardStep ==
  ASSUME IInv, stack # <<>>, Named(Top.method), NEW m \in Methods, NEW k \in {1, 2},
         NEW n \in Nat, n = Top.argc - k + 1, Forward(m, n, k)
  PROVE  IInv'
<1> DEFINE f == Top
           argv == SubSeq(f.argv, k, Len(f.argv))
           passed == SubSeq(f.passed, k, Len(f.passed))
           g == Frame(m, n, argv, Nothing, f.block, f.hash, passed, f.copied)
           h == [g EXCEPT !.argv = SubSeq(argv, 1, n)]
           x == IF Array(m) THEN g ELSE h
           below == [stack EXCEPT ![Len(stack)].handedOn = TRUE]
<1>1. /\ stack \in Seq(Frames) /\ f \in Frames /\ GoodFrame(f) /\ Len(stack) \in Nat \ {0}
      /\ DOMAIN stack = 1 .. Len(stack)
  <2>1. stack \in Seq(Frames)
    BY DEF IInv, TypeOK
  <2>2. Len(stack) \in Nat \ {0} /\ DOMAIN stack = 1 .. Len(stack)
    BY <2>1
  <2>3. Len(stack) \in DOMAIN stack
    BY <2>2
  <2>4. stack[Len(stack)] \in Frames
    BY <2>1, <2>2
  <2>5. GoodFrame(stack[Len(stack)])
    BY <2>3 DEF IInv
  <2> QED
    BY <2>1, <2>2, <2>4, <2>5 DEF Top
<1>2. /\ argv \in Seq(Words) /\ Len(argv) = n + 1 /\ argv[n + 1] = f.hash
      /\ passed \in Seq(Words) /\ Len(passed) = n
      /\ SubSeq(argv, 1, n) \in Seq(Words) /\ Len(SubSeq(argv, 1, n)) = n
      /\ ~f.copied => SubSeq(argv, 1, n) = passed
  <2>1. /\ f \in Frames /\ GoodFrame(f) /\ Named(f.method)
        /\ n = f.argc - k + 1 /\ n \in Nat /\ k \in {1, 2}
    BY <1>1
  <2> HIDE DEF f
  <2> QED
    BY ONLY <2>1, WordsHandedOn
<1>3. /\ f.block \in Procs \cup {Null} /\ f.hash \in {GivenHash, EmptyHash}
      /\ f.copied \in BOOLEAN
  BY <1>1 DEF Frames
<1>4. CASE Array(m) \/ n = Meta[m].argc
  <2> HIDE DEF argv, passed
  <2>1. g \in Frames
    BY <1>2, <1>3, FrameTyped
  <2>2. h \in Frames
    BY <1>2, <2>1 DEF Frames
  <2>3. Named(m) => Array(m)
    BY CallsAssumption DEF Array, Named
  <2>4. GoodFrame(g)
    BY <1>2 DEF GoodFrame, Frame
  <2>5. ~Array(m) => GoodFrame(h)
    <3>1. SubSeq(SubSeq(argv, 1, n), 1, n) = SubSeq(argv, 1, n)
      BY <1>2
    <3> QED
      BY <1>2, <2>3, <3>1 DEF GoodFrame, Frame
  <2>6. x \in Frames /\ GoodFrame(x) /\ x.saved = Nothing /\ x.block = f.block
    BY <2>1, <2>2, <2>4, <2>5 DEF Frame
  <2>7. stack' = Append(below, x) /\ UNCHANGED <<currentProc, mode>>
    BY <1>4 DEF Forward, argv, passed
  <2> HIDE DEF x, g, h
  <2>8. /\ below \in Seq(Frames) /\ Len(below) = Len(stack)
        /\ \A i \in 1 .. Len(stack) :
             /\ below[i].saved = stack[i].saved /\ below[i].block = stack[i].block
             /\ GoodFrame(below[i])
    <3>1. below = [i \in 1 .. Len(stack) |->
                     IF i = Len(stack) THEN [f EXCEPT !.handedOn = TRUE] ELSE stack[i]]
      BY <1>1 DEF Top
    <3>2. [f EXCEPT !.handedOn = TRUE] \in Frames
      BY <1>1 DEF Frames
    <3>3. GoodFrame([f EXCEPT !.handedOn = TRUE])
      BY <1>1 DEF GoodFrame, Frames
    <3>4. /\ [f EXCEPT !.handedOn = TRUE].saved = f.saved
          /\ [f EXCEPT !.handedOn = TRUE].block = f.block
      BY <1>1 DEF Frames
    <3>5. below \in [1 .. Len(stack) -> Frames]
      <4>1. \A i \in 1 .. Len(stack) : stack[i] \in Frames
        BY <1>1
      <4> HIDE DEF f, below
      <4> QED
        BY <3>1, <3>2, <4>1
    <3>6. below \in Seq(Frames) /\ Len(below) = Len(stack)
      BY <1>1, <3>5
    <3> HIDE DEF below
    <3>7. ASSUME NEW i \in 1 .. Len(stack)
          PROVE  /\ below[i].saved = stack[i].saved /\ below[i].block = stack[i].block
                 /\ GoodFrame(below[i])
      <4>1. CASE i = Len(stack)
        BY <1>1, <3>1, <3>3, <3>4, <4>1 DEF Top
      <4>2. CASE i # Len(stack)
        BY <1>1, <3>1, <4>2 DEF IInv
      <4> QED
        BY <4>1, <4>2
    <3> QED
      BY <3>6, <3>7
  <2> HIDE DEF below
  <2>9. /\ stack' \in Seq(Frames) /\ Len(stack') = Len(stack) + 1
        /\ stack'[Len(stack) + 1] = x /\ DOMAIN stack' = 1 .. Len(stack) + 1
        /\ \A i \in 1 .. Len(stack) : stack'[i] = below[i]
    BY <1>1, <2>6, <2>7, <2>8
  <2>10. TypeOK'
    BY <2>7, <2>9 DEF IInv, TypeOK
  <2>11. \A i \in DOMAIN stack' : GoodFrame(stack'[i])
    BY <2>6, <2>8, <2>9
  <2>12. PutsBack(stack')
    <3> SUFFICES ASSUME NEW i \in 2 .. Len(stack) + 1
                 PROVE  IF stack'[i].saved = Nothing THEN stack'[i].block = stack'[i - 1].block
                        ELSE stack'[i].saved = stack'[i - 1].block
      BY <2>9 DEF PutsBack
    <3>1. CASE i \in 2 .. Len(stack)
      <4>1. stack'[i] = below[i] /\ stack'[i - 1] = below[i - 1]
        BY <2>9, <3>1
      <4>2. /\ below[i].saved = stack[i].saved /\ below[i].block = stack[i].block
            /\ below[i - 1].block = stack[i - 1].block
        BY <1>1, <2>8, <3>1
      <4> QED
        BY <3>1, <4>1, <4>2 DEF IInv, PutsBack
    <3>2. CASE i = Len(stack) + 1
      <4>1. stack'[i] = x /\ stack'[i - 1] = below[Len(stack)]
        BY <1>1, <2>9, <3>2
      <4>2. below[Len(stack)].block = f.block
        BY <1>1, <2>8 DEF Top
      <4> QED
        BY <2>6, <4>1, <4>2
    <3> QED
      BY <1>1, <3>1, <3>2
  <2>13. Top'.block = currentProc'
    <3>1. Top' = x
      BY <2>9 DEF Top
    <3>2. currentProc = f.block
      BY DEF IInv
    <3> QED
      BY <2>6, <2>7, <3>1, <3>2
  <2> QED
    BY <2>10, <2>11, <2>12, <2>13 DEF IInv
<1>5. CASE ~(Array(m) \/ n = Meta[m].argc)
  BY <1>5, UncaughtStep DEF Forward
<1> QED
  BY <1>4, <1>5

\* The call on top is good, and takes names when it is a forwarder.
LEMMA ForwarderTakesNames ==
  ASSUME IInv, stack # <<>>, Meta[Top.method].body \in {"send", "new"}
  PROVE  Named(Top.method) /\ Top.argc \in Nat
<1>1. Top \in Frames
  BY DEF IInv, TypeOK, Top
<1>2. Top.method \in Methods /\ Top.argc \in Nat
  BY <1>1 DEF Frames
<1> QED
  BY <1>2, CallsAssumption DEF Named

LEMMA SendStep ==
  ASSUME IInv, NEW m \in Callees, Send(m)
  PROVE  IInv'
<1>1. stack # <<>> /\ Meta[Top.method].body \in {"send", "new"} /\ m \in Methods
  BY DEF Send, Runs, Callees
<1>2. Named(Top.method) /\ Top.argc \in Nat
  BY <1>1, ForwarderTakesNames
<1>3. CASE Top.argc < 1
  BY <1>3, UncaughtStep DEF Send
<1>4. CASE ~(Top.argc < 1)
  <2>1. Forward(m, Top.argc - 1, 2)
    BY <1>4 DEF Send
  <2>2. Top.argc - 1 \in Nat /\ Top.argc - 1 = Top.argc - 2 + 1
    BY <1>2, <1>4
  <2> QED
    BY <1>1, <1>2, <2>1, <2>2, ForwardStep
<1> QED
  BY <1>3, <1>4

LEMMA NewStep ==
  ASSUME IInv, NEW m \in Callees, New(m)
  PROVE  IInv'
<1>1. /\ stack # <<>> /\ Meta[Top.method].body \in {"send", "new"} /\ m \in Methods
      /\ Forward(m, Top.argc, 1)
  BY DEF New, Runs, Callees
<1>2. Named(Top.method) /\ Top.argc \in Nat /\ Top.argc = Top.argc - 1 + 1
  BY <1>1, ForwarderTakesNames
<1> QED
  BY <1>1, <1>2, ForwardStep

LEMMA ReturnStep ==
  ASSUME IInv, Return
  PROVE  IInv'
<1> DEFINE n == Len(stack)
<1>1. /\ stack # <<>> /\ stack \in Seq(Frames) /\ n \in Nat \ {0} /\ DOMAIN stack = 1 .. n
      /\ stack' = SubSeq(stack, 1, n - 1) /\ mode' = mode
      /\ currentProc' = IF Top.saved = Nothing THEN currentProc ELSE Top.saved
  BY DEF IInv, TypeOK, Return, Pop
<1>2. /\ stack' \in Seq(Frames) /\ Len(stack') = n - 1 /\ DOMAIN stack' = 1 .. n - 1
      /\ \A i \in 1 .. n - 1 : stack'[i] = stack[i]
  BY <1>1
<1>3. TypeOK'
  <2>1. Top \in Frames
    BY <1>1 DEF Top
  <2>2. Top.saved \in Procs \cup {Null, Nothing}
    BY <2>1 DEF Frames
  <2> QED
    BY <1>1, <1>2, <2>2 DEF IInv, TypeOK
<1>4. \A i \in DOMAIN stack' : GoodFrame(stack'[i])
  BY <1>1, <1>2 DEF IInv
<1>5. PutsBack(stack')
  <2> SUFFICES ASSUME NEW i \in 2 .. n - 1
               PROVE  IF stack'[i].saved = Nothing THEN stack'[i].block = stack'[i - 1].block
                      ELSE stack'[i].saved = stack'[i - 1].block
    BY <1>2 DEF PutsBack
  <2>1. stack'[i] = stack[i] /\ stack'[i - 1] = stack[i - 1] /\ i \in 2 .. n
    BY <1>1, <1>2
  <2> QED
    BY <2>1 DEF IInv, PutsBack
<1>6. ASSUME stack' # <<>> PROVE Top'.block = currentProc'
  <2>1. n - 1 \in 1 .. n - 1 /\ n \in 2 .. n
    BY <1>1, <1>2, <1>6
  <2>2. Top' = stack[n - 1]
    BY <1>2, <2>1 DEF Top
  <2>3. IF stack[n].saved = Nothing THEN stack[n].block = stack[n - 1].block
        ELSE stack[n].saved = stack[n - 1].block
    BY <2>1 DEF IInv, PutsBack
  <2>4. currentProc = stack[n].block
    BY <1>1 DEF IInv, Top
  <2> QED
    BY <1>1, <2>2, <2>3, <2>4 DEF Top
<1> QED
  BY <1>3, <1>4, <1>5, <1>6 DEF IInv

LEMMA InitInv == Init => IInv
<1> SUFFICES ASSUME Init PROVE IInv
  OBVIOUS
<1> DEFINE f == Frame(Main, 0, <<>>, Nothing, Null, EmptyHash, <<>>, FALSE)
<1>1. stack = <<f>> /\ currentProc = Null /\ mode = "running"
  BY DEF Init
<1>2. <<>> \in Seq(Words)
  OBVIOUS
<1>3. f \in Frames
  BY <1>2, CallsAssumption, FrameTyped
<1>4. GoodFrame(f)
  <2>1. ~Named(Main)
    BY CallsAssumption DEF Named
  <2> QED
    BY <2>1 DEF GoodFrame, Frame
<1>5. f.block = Null
  BY DEF Frame
<1> HIDE DEF f
<1>6. stack \in Seq(Frames) /\ Len(stack) = 1 /\ stack[1] = f /\ DOMAIN stack = {1}
  BY <1>1, <1>3
<1>7. TypeOK
  BY <1>1, <1>6 DEF TypeOK
<1>8. PutsBack(stack)
  BY <1>6 DEF PutsBack
<1> QED
  BY <1>1, <1>4, <1>5, <1>6, <1>7, <1>8 DEF IInv, Top

\* Every step keeps the invariant.
LEMMA NextStep ==
  ASSUME IInv, Next
  PROVE  IInv'
<1>1. CASE Return
  BY <1>1, ReturnStep
<1>2. CASE Raise
  BY <1>2, UncaughtStep DEF Raise
<1> QED
  BY <1>1, <1>2, CallFixedStep, CallArrayStep, CallNamedStep, SendStep, NewStep DEF Next

-----------------------------------------------------------------------------
(* The theorems.                                                           *)

\* The strengthened invariant holds whatever calls are made.
THEOREM Invariance == Spec => []IInv
<1>1. IInv /\ [Next]_vars => IInv'
  <2>1. IInv /\ UNCHANGED vars => IInv'
    <3> SUFFICES ASSUME IInv, UNCHANGED vars PROVE IInv'
      OBVIOUS
    <3>1. stack' = stack /\ currentProc' = currentProc /\ mode' = mode
      BY DEF vars
    <3> QED
      BY <3>1 DEF IInv, TypeOK, Top
  <2> QED
    BY <2>1, NextStep
<1> QED
  BY <1>1, InitInv, PTL DEF Spec

\* The calls of Object's dispatchers are well typed at any depth.
THEOREM TypeCorrect == Spec => []TypeOK
<1>1. IInv => TypeOK
  BY DEF IInv
<1> QED
  BY <1>1, Invariance, PTL

\* Object::currentProc, one per thread, is the block of the caller of whatever method runs:
\* the dispatchers' saving and restoring nests, and the forwarders leave it alone.
THEOREM BlockPassing == Spec => []BlockIsTheCallers
<1>1. IInv => BlockIsTheCallers
  BY DEF IInv, BlockIsTheCallers
<1> QED
  BY <1>1, Invariance, PTL

\* The hash of named arguments is at argv[argc] for every method that takes names, through
\* any chain of __send__ and new.
THEOREM HashPassing == Spec => []HashFollowsArguments
<1>1. IInv => HashFollowsArguments
  BY DEF IInv, HashFollowsArguments, GoodFrame
<1> QED
  BY <1>1, Invariance, PTL

\* The arguments of a call reach its method, through any chain of __send__ and new.
THEOREM ArgumentPassing == Spec => []ArgumentsArrive
<1>1. IInv => ArgumentsArrive
  BY DEF IInv, ArgumentsArrive, GoodFrame
<1> QED
  BY <1>1, Invariance, PTL
==============================================================================
