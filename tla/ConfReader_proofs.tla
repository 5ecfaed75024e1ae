-------------------------- MODULE ConfReader_proofs --------------------------
(***************************************************************************)
(* Theorems about ConfReader, for any files, any nesting and any limit.    *)
(***************************************************************************)
EXTENDS ConfReader, FiniteSetTheorems, FunctionTheorems, SequenceTheorems, TLAPS

\* Induction over the numbers up to a limit, as a fact about sets: were n missing
\* from S, then i |-> i + 1 would map the finite set of the members below n into itself,
\* one to one, and miss 0.
LEMMA SetInduction ==
  ASSUME NEW S, 0 \in S, \A n \in Nat : n \in S => n + 1 \in S
  PROVE  \A n \in Nat : n \in S
<1> SUFFICES ASSUME NEW n \in Nat, n \notin S
             PROVE  FALSE
  OBVIOUS
<1> DEFINE T == (0..n) \cap S
<1> DEFINE f == [i \in T |-> i + 1]
<1>1. T \in SUBSET (0..n) /\ 0 \in T
  OBVIOUS
<1>2. IsFiniteSet(T)
  <2>1. IsFiniteSet(0..n)
    BY FS_Interval
  <2> HIDE DEF T
  <2> QED
    BY <1>1, <2>1, FS_Subset
<1>3. f \in [T -> T]
  OBVIOUS
<1>4. f \in Injection(T, T)
  BY <1>3 DEF Injection, IsInjective
<1>5. f \in Surjection(T, T)
  BY <1>2, <1>4, FS_Injection
<1>6. PICK i \in T : f[i] = 0
  BY <1>1, <1>5 DEF Surjection
<1> QED
  BY <1>6

-----------------------------------------------------------------------------
(* The places. *)

Inner(places) == UNION {UNION {Below(place, i) : i \in Lines(place)} : place \in places}

Limit == MaxIncludeDepth + 1

LEMMA PlacesAre ==
  /\ DOMAIN Places = 0..Limit /\ Places[0] = Roots
  /\ \A d \in 0..MaxIncludeDepth : Places[d + 1] = Inner(Places[d])
<1> DEFINE Body(g, D) == [d \in D |-> IF d = 0 THEN Roots ELSE Inner(g[d - 1])]
<1> DEFINE S == {n \in Nat : \E g : g = Body(g, 0..n)}
<1> HIDE DEF Inner, Roots
<1>1. 0 \in S
  <2> DEFINE g == [d \in 0..0 |-> Roots]
  <2>1. g = Body(g, 0..0)
    OBVIOUS
  <2> QED
    BY <2>1
<1>2. ASSUME NEW n \in Nat, n \in S
      PROVE  n + 1 \in S
  <2> PICK g : g = Body(g, 0..n)
    BY <1>2
  <2> DEFINE h == [d \in 0..(n + 1) |-> IF d <= n THEN g[d] ELSE Inner(g[n])]
  <2>1. \A d \in 0..n : g[d] = IF d = 0 THEN Roots ELSE Inner(g[d - 1])
    OBVIOUS
  <2>2. ASSUME NEW d \in 0..(n + 1)
        PROVE  h[d] = IF d = 0 THEN Roots ELSE Inner(h[d - 1])
    <3>1. CASE d = 0
      BY <2>1, <3>1
    <3>2. CASE d \in 1..n
      BY <2>1, <3>2
    <3>3. CASE d = n + 1
      BY <3>3
    <3> QED
      BY <3>1, <3>2, <3>3
  <2>3. h = Body(h, 0..(n + 1))
    BY <2>2
  <2>4. \E x : x = Body(x, 0..(n + 1))
    <3> HIDE DEF h
    <3> QED
      BY <2>3
  <2> QED
    BY <2>4
<1>3. Limit \in S
  <2>1. Limit \in Nat
    BY DepthAssumption DEF Limit
  <2> HIDE DEF S
  <2> QED
    BY <1>1, <1>2, <2>1, SetInduction
<1>4. Places = Body(Places, 0..Limit)
  <2>1. Places = CHOOSE g : g = Body(g, 0..Limit)
    BY DEF Places, Limit, Inner
  <2>2. \E g : g = Body(g, 0..Limit)
    BY <1>3
  <2> QED
    BY <2>1, <2>2
<1> QED
  BY <1>4, DepthAssumption DEF Limit

-----------------------------------------------------------------------------
(* The stack. *)

\* A frame that is past its first line reads a file that exists, to its end at most.
OpenFrame(frame) ==
  frame.line > 0 =>
    /\ frame.depth <= MaxIncludeDepth /\ disk[frame.file] # Missing
    /\ frame.line <= Len(disk[frame.file]) + 1

OpenFrames == \A i \in 1..Len(work) : OpenFrame(work[i])

TypeInv == disk \in Disks /\ TypeOK /\ OpenFrames /\ (verdict = "read" => work = <<>>)

LEMMA InitTyped == Init => TypeInv
<1> SUFFICES ASSUME Init
             PROVE  TypeInv
  OBVIOUS
<1>1. Unread("conf", 0, "no") \in Frame /\ Unread("auto", 0, "yes") \in Frame
  BY FilesAssumption, DepthAssumption DEF Unread, Frame
<1>2. work \in Seq(Frame) /\ \A i \in 1..Len(work) : work[i].line = 0
  BY <1>1 DEF Init, Unread
<1>3. port \in Ports /\ source \in File \cup {"default"} /\ verdict \in {"reading", "refused", "read"}
  BY DEF Init, defaultPort, Ports
<1>4. disk \in Disks /\ verdict # "read"
  BY DEF Init
<1> QED
  BY <1>2, <1>3, <1>4, DisksAssumption DEF TypeInv, TypeOK, OpenFrames, OpenFrame

LEMMA DiskIs ==
  ASSUME TypeInv, NEW f \in File, disk[f] # Missing
  PROVE  /\ Len(disk[f]) \in Nat
         /\ \A i \in 1..Len(disk[f]) : /\ disk[f][i].word \in Words
                                       /\ disk[f][i].word \in Includes => disk[f][i].value \in File
BY DisksAssumption DEF TypeInv

LEMMA TopIs ==
  ASSUME TypeInv, Reading
  PROVE  /\ Len(work) \in Nat \ {0} /\ Top = work[1] /\ Top \in Frame
         /\ Tail(work) \in Seq(Frame) /\ Len(Tail(work)) = Len(work) - 1
         /\ \A i \in 1..Len(Tail(work)) : Tail(work)[i] = work[i + 1]
         /\ Top.file \in File /\ Top.line \in Nat /\ Top.depth \in 0..Limit
         /\ OpenFrame(Top)
<1>1. work \in Seq(Frame) /\ Len(work) \in Nat \ {0}
  BY EmptySeq DEF TypeInv, TypeOK, Reading
<1>2. Top \in Frame
  BY <1>1 DEF Top
<1>3. /\ Tail(work) \in Seq(Frame) /\ Len(Tail(work)) = Len(work) - 1
      /\ \A i \in 1..Len(Tail(work)) : Tail(work)[i] = work[i + 1]
  BY <1>1, EmptySeq
<1> QED
  BY <1>1, <1>2, <1>3 DEF Frame, Top, Limit, TypeInv, TypeOK, OpenFrames

\* The frames that replace the innermost one.
LEMMA Replaced ==
  ASSUME NEW S, NEW w \in Seq(S), w # <<>>, NEW n \in Seq(S)
  PROVE  /\ n \o Tail(w) \in Seq(S) /\ Len(n \o Tail(w)) = Len(n) + Len(w) - 1
         /\ \A j \in 1..Len(n) : (n \o Tail(w))[j] = n[j]
         /\ \A j \in 2..Len(w) : (n \o Tail(w))[Len(n) + j - 1] = w[j]
         /\ \A j \in 1..Len(n \o Tail(w)) : j \in 1..Len(n) \/ j - Len(n) + 1 \in 2..Len(w)
<1>1. /\ Len(w) \in Nat \ {0} /\ Len(n) \in Nat
      /\ Tail(w) \in Seq(S) /\ Len(Tail(w)) = Len(w) - 1
      /\ \A i \in 1..Len(Tail(w)) : Tail(w)[i] = w[i + 1]
  BY EmptySeq
<1>2. /\ n \o Tail(w) \in Seq(S) /\ Len(n \o Tail(w)) = Len(n) + Len(Tail(w))
      /\ \A j \in 1..(Len(n) + Len(Tail(w))) :
            (n \o Tail(w))[j] = IF j <= Len(n) THEN n[j] ELSE Tail(w)[j - Len(n)]
  BY <1>1, ConcatProperties
<1> QED
  BY <1>1, <1>2

LEMMA IncludedAre ==
  ASSUME TypeInv, AtLine, ~NoFolder(Line)
  PROVE  Included(Line) \in Seq(File)
<1>1. Line.word \in Includes => Line.value \in File
  BY TopIs, DiskIs DEF AtLine, Line, OpenFrame
<1> QED
  BY <1>1, EmptySeq, FilesAssumption DEF Included, NoFolder

Frames == {frame \in Frame : OpenFrame(frame)}

LEMMA StackIs == TypeInv => work \in Seq(Frames)
<1> SUFFICES ASSUME TypeInv
             PROVE  work \in Seq(Frames)
  OBVIOUS
<1>1. work \in Seq(Frame) /\ \A i \in 1..Len(work) : OpenFrame(work[i])
  BY DEF TypeInv, TypeOK, OpenFrames
<1>2. \A i \in 1..Len(work) : work[i] \in Frames
  BY <1>1 DEF Frames
<1> QED
  BY <1>1, <1>2

\* A step that replaces the innermost frame by proper frames keeps the types.
LEMMA StackStep ==
  ASSUME TypeInv, Reading, disk' = disk, NEW n \in Seq(Frames), work' = n \o Tail(work),
         port' \in Ports, source' \in File \cup {"default"}, verdict' = verdict
  PROVE  TypeInv'
<1>1. work \in Seq(Frames)
  BY StackIs
<1> HIDE DEF Frames
<1>2. work' \in Seq(Frames)
  BY <1>1, Replaced DEF Reading
<1>3. work' \in Seq(Frame) /\ \A i \in 1..Len(work') : OpenFrame(work'[i])
  BY <1>2 DEF Frames
<1>4. OpenFrames'
  BY <1>3 DEF OpenFrames, OpenFrame
<1>5. TypeOK'
  BY <1>3 DEF TypeInv, TypeOK, OpenFrame
<1> QED
  BY <1>4, <1>5 DEF TypeInv, Reading

LEMMA RefusedKeeps ==
  ASSUME TypeInv, Refuse, UNCHANGED <<disk, port, source>>
  PROVE  TypeInv'
BY DEF TypeInv, TypeOK, OpenFrames, OpenFrame, Refuse

LEMMA Returned ==
  ASSUME TypeInv, Reading
  PROVE  <<>> \in Seq(Frames) /\ Tail(work) = <<>> \o Tail(work)
<1> HIDE DEF Frames
<1> QED
  BY TopIs, EmptySeq, ConcatEmptySeq

\* The innermost frame, one line on.
TopAdvanced == [Top EXCEPT !.line = @ + 1]

LEMMA AdvancedIs ==
  ASSUME TypeInv, Reading, (Top.line = 0 /\ disk[Top.file] # Missing /\ Top.depth <= MaxIncludeDepth) \/ AtLine
  PROVE  /\ <<TopAdvanced>> \in Seq(Frames) /\ Advanced = <<TopAdvanced>> \o Tail(work)
         /\ Top.line = 0 => TopAdvanced = [Top EXCEPT !.line = 1]
         /\ TopAdvanced.file = Top.file /\ TopAdvanced.depth = Top.depth /\ TopAdvanced.ifExists = Top.ifExists
         /\ TopAdvanced.line = Top.line + 1
<1>1. Top \in Frame /\ OpenFrame(Top) /\ Top.line \in Nat /\ Top.file \in File
  BY TopIs
<1>2. /\ TopAdvanced \in Frame /\ TopAdvanced.line = Top.line + 1 /\ TopAdvanced.file = Top.file
      /\ TopAdvanced.depth = Top.depth /\ TopAdvanced.ifExists = Top.ifExists
      /\ Top.line = 0 => TopAdvanced = [Top EXCEPT !.line = 1]
  BY <1>1 DEF TopAdvanced, Frame
<1>3. disk[Top.file] # Missing /\ Top.depth <= MaxIncludeDepth /\ Top.line <= Len(disk[Top.file])
  BY <1>1, DiskIs DEF AtLine, OpenFrame
<1>4. OpenFrame(TopAdvanced)
  BY <1>1, <1>2, <1>3, DiskIs DEF OpenFrame
<1>5. TopAdvanced \in Frames
  BY <1>2, <1>4 DEF Frames
<1> QED
  BY <1>2, <1>5 DEF Advanced, TopAdvanced

LEMMA CallsAre ==
  ASSUME TypeInv, AtLine, ~NoFolder(Line)
  PROVE  /\ Calls(Line, Top.depth + 1) \in Seq(Frames)
         /\ Len(Calls(Line, Top.depth + 1)) = Len(Included(Line)) /\ Len(Included(Line)) \in Nat
         /\ Calls(Line, Top.depth + 1) \o Advanced
              = (Calls(Line, Top.depth + 1) \o <<TopAdvanced>>) \o Tail(work)
<1> DEFINE n == Len(Included(Line))
<1>1. n \in Nat /\ \A k \in 1..n : Included(Line)[k] \in File
  BY IncludedAre
<1>2. Top.depth + 1 \in 0..Limit
  BY TopIs, DepthAssumption DEF AtLine, OpenFrame, Limit
<1>3. Optional(Line) \in {"no", "yes"}
  BY DEF Optional
<1>4. \A k \in 1..n : Unread(Included(Line)[k], Top.depth + 1, Optional(Line)) \in Frames
  BY <1>1, <1>2, <1>3 DEF Unread, Frames, Frame, OpenFrame, Limit
<1>5. /\ Calls(Line, Top.depth + 1) \in Seq(Frames)
      /\ Len(Calls(Line, Top.depth + 1)) = n
  BY <1>1, <1>4 DEF Calls
<1>6. <<TopAdvanced>> \in Seq(Frames) /\ Advanced = <<TopAdvanced>> \o Tail(work)
  BY AdvancedIs DEF AtLine
<1>7. Tail(work) \in Seq(Frames)
  BY StackIs, HeadTailProperties DEF AtLine, Reading
<1> HIDE DEF Frames
<1> QED
  BY <1>1, <1>5, <1>6, <1>7, ConcatAssociative

\* What a step does to the stack: it refuses, returns, goes one line on, or calls.
Refuses == verdict' = "refused" /\ work' = work
Returns == verdict' = verdict /\ work' = Tail(work)
Advances == verdict' = verdict /\ work' = <<TopAdvanced>> \o Tail(work)

LEMMA OpenIs ==
  ASSUME TypeInv, Open
  PROVE  /\ Reading /\ Top.line = 0 /\ UNCHANGED <<disk, port, source>>
         /\ \/ disk[Top.file] = Missing /\ Top.ifExists = "yes" /\ Returns
            \/ /\ IF disk[Top.file] = Missing THEN Top.ifExists = "no" ELSE Top.depth > MaxIncludeDepth
               /\ Refuses
            \/ disk[Top.file] # Missing /\ Top.depth <= MaxIncludeDepth /\ Advances
<1>1. Reading /\ Top.line = 0 /\ UNCHANGED <<disk, port, source>>
  BY DEF Open
<1>2. Top.ifExists \in {"no", "yes"} /\ Top.depth \in Nat
  BY <1>1, TopIs DEF Frame, Limit
<1>3. \/ disk[Top.file] = Missing /\ Top.ifExists = "yes" /\ Return
      \/ disk[Top.file] = Missing /\ Top.ifExists = "no" /\ Refuse
      \/ disk[Top.file] # Missing /\ Top.depth > MaxIncludeDepth /\ Refuse
      \/ /\ disk[Top.file] # Missing /\ Top.depth <= MaxIncludeDepth
         /\ work' = <<[Top EXCEPT !.line = 1]>> \o Tail(work) /\ UNCHANGED verdict
  <2>1. CASE disk[Top.file] = Missing
    BY <1>2, <2>1 DEF Open
  <2>2. CASE disk[Top.file] # Missing /\ Top.depth > MaxIncludeDepth
    BY <1>2, <2>2 DEF Open
  <2>3. CASE disk[Top.file] # Missing /\ ~(Top.depth > MaxIncludeDepth)
    BY <1>2, <2>3, DepthAssumption DEF Open
  <2> QED
    BY <2>1, <2>2, <2>3
<1> QED
  BY <1>1, <1>3, AdvancedIs DEF Return, Refuse, Returns, Refuses, Advances

LEMMA SetPortIs ==
  ASSUME TypeInv, SetPort
  PROVE  /\ AtLine /\ Line.word = "port" /\ UNCHANGED disk
         /\ \/ /\ Line.value \in Ports /\ port' = Line.value /\ source' = Top.file /\ Advances
            \/ Line.value \notin Ports /\ UNCHANGED <<port, source>> /\ Refuses
BY AdvancedIs DEF SetPort, AtLine, Refuse, Refuses, Advances

LEMMA IncludeIs ==
  ASSUME TypeInv, Include
  PROVE  /\ AtLine /\ Line.word \in Includes \cup {"includeDir"} /\ UNCHANGED <<disk, port, source>>
         /\ \/ NoFolder(Line) /\ Refuses
            \/ /\ ~NoFolder(Line) /\ verdict' = verdict
               /\ work' = (Calls(Line, Top.depth + 1) \o <<TopAdvanced>>) \o Tail(work)
BY CallsAre DEF Include, Refuse, Refuses

LEMMA PassOverIs ==
  ASSUME TypeInv, PassOver
  PROVE  /\ AtLine /\ UNCHANGED <<disk, port, source>>
         /\ \/ Line.word = "syntaxError" /\ Refuses
            \/ Line.word = "other" /\ Advances
BY AdvancedIs DEF PassOver, AtLine, Refuse, Refuses, Advances

LEMMA EndOfFileIs ==
  ASSUME TypeInv, EndOfFile
  PROVE  /\ Reading /\ Top.line > 0 /\ Top.line = Len(disk[Top.file]) + 1
         /\ Top.depth <= MaxIncludeDepth /\ disk[Top.file] # Missing
         /\ UNCHANGED <<disk, port, source>> /\ Returns
<1>1. /\ Reading /\ Top.line > 0 /\ Top.line > Len(disk[Top.file])
      /\ UNCHANGED <<disk, port, source>> /\ Returns
  BY DEF EndOfFile, Return, Returns
<1>2. Top.file \in File /\ OpenFrame(Top) /\ Top.line \in Nat
  BY <1>1, TopIs
<1> QED
  BY <1>1, <1>2, DiskIs DEF OpenFrame

LEMMA TypedStep == TypeInv /\ [Next]_vars => TypeInv'
<1> SUFFICES ASSUME TypeInv, [Next]_vars
             PROVE  TypeInv'
  OBVIOUS
<1> USE DEF Reading
<1>0. Reading => port \in Ports /\ source \in File \cup {"default"}
  BY DEF TypeInv, TypeOK
<1>1. ASSUME Refuses, UNCHANGED <<disk, port, source>>
      PROVE  TypeInv'
  BY <1>1, RefusedKeeps DEF Refuses, Refuse
<1>2. ASSUME Reading, Returns, UNCHANGED <<disk, port, source>>
      PROVE  TypeInv'
  BY <1>0, <1>2, Returned, StackStep DEF Returns
<1>3. CASE Open
  BY <1>0, <1>1, <1>2, <1>3, OpenIs, AdvancedIs, StackStep DEF Advances
<1>4. CASE SetPort
  <2>1. AtLine /\ Top.file \in File
    BY <1>4, SetPortIs, TopIs DEF AtLine
  <2> QED
    BY <1>1, <1>4, <2>1, SetPortIs, AdvancedIs, StackStep DEF Advances, AtLine
<1>5. CASE Include
  <2>1. CASE NoFolder(Line)
    BY <1>1, <1>5, <2>1, IncludeIs
  <2>2. CASE ~NoFolder(Line)
    <3>1. /\ AtLine /\ Reading /\ verdict' = verdict /\ UNCHANGED <<disk, port, source>>
          /\ work' = (Calls(Line, Top.depth + 1) \o <<TopAdvanced>>) \o Tail(work)
      BY <1>5, <2>2, IncludeIs DEF AtLine
    <3>2. Calls(Line, Top.depth + 1) \in Seq(Frames) /\ <<TopAdvanced>> \in Seq(Frames)
      BY <2>2, <3>1, CallsAre, AdvancedIs
    <3> HIDE DEF Frames
    <3>3. Calls(Line, Top.depth + 1) \o <<TopAdvanced>> \in Seq(Frames)
      BY <3>2, ConcatProperties
    <3> QED
      BY <1>0, <3>1, <3>3, StackStep
  <2> QED
    BY <2>1, <2>2
<1>6. CASE PassOver
  BY <1>0, <1>1, <1>6, PassOverIs, AdvancedIs, StackStep DEF Advances, AtLine
<1>7. CASE EndOfFile
  BY <1>2, <1>7, EndOfFileIs
<1>8. CASE Finish \/ UNCHANGED vars
  BY <1>8 DEF Finish, vars, TypeInv, TypeOK, OpenFrames, OpenFrame
<1> QED
  BY <1>3, <1>4, <1>5, <1>6, <1>7, <1>8 DEF Next

-----------------------------------------------------------------------------
(* Trails. *)

Trail == Seq(Nat)

LEMMA BeforeExtends ==
  ASSUME NEW s \in Trail, NEW t \in Trail, Before(s, t), NEW u \in Trail
  PROVE  Before(s \o u, t) /\ Before(s, t \o u)
<1>1. PICK k \in 1..Len(s) : k <= Len(t) /\ s[k] < t[k] /\ \A j \in 1..(k - 1) : s[j] = t[j]
  BY DEF Before
<1>2. Len(s) \in Nat /\ Len(t) \in Nat /\ Len(u) \in Nat
  BY DEF Trail
<1>3. Len(s \o u) = Len(s) + Len(u) /\ \A j \in 1..Len(s) : (s \o u)[j] = s[j]
  BY <1>2, ConcatProperties DEF Trail
<1>4. Len(t \o u) = Len(t) + Len(u) /\ \A j \in 1..Len(t) : (t \o u)[j] = t[j]
  BY <1>2, ConcatProperties DEF Trail
<1>5. \A j \in 1..k : (s \o u)[j] = s[j] /\ (t \o u)[j] = t[j]
  BY <1>1, <1>2, <1>3, <1>4
<1>6. k \in 1..Len(s \o u) /\ k <= Len(t \o u)
  BY <1>1, <1>2, <1>3, <1>4
<1>7. \A j \in 1..(k - 1) : (s \o u)[j] = t[j] /\ s[j] = (t \o u)[j]
  BY <1>1, <1>5
<1> QED
  BY <1>1, <1>5, <1>6, <1>7 DEF Before

LEMMA Pairs ==
  ASSUME NEW t \in Trail, NEW i \in Nat
  PROVE  /\ t \o <<i>> \in Trail /\ Len(t \o <<i>>) = Len(t) + 1 /\ (t \o <<i>>)[Len(t) + 1] = i
         /\ \A j \in 1..Len(t) : (t \o <<i>>)[j] = t[j]
         /\ \A k \in Nat : t \o <<i, k>> \in Trail /\ t \o <<i, k>> = (t \o <<i>>) \o <<k>>
<1>1. <<i>> \in Trail /\ Len(t) \in Nat
  BY DEF Trail
<1>2. /\ t \o <<i>> \in Trail /\ Len(t \o <<i>>) = Len(t) + 1
      /\ \A j \in 1..(Len(t) + 1) : (t \o <<i>>)[j] = IF j <= Len(t) THEN t[j] ELSE <<i>>[j - Len(t)]
  BY <1>1, ConcatProperties DEF Trail
<1>3. ASSUME NEW k \in Nat
      PROVE  t \o <<i, k>> \in Trail /\ t \o <<i, k>> = (t \o <<i>>) \o <<k>>
  <2>1. <<k>> \in Trail /\ <<i, k>> \in Trail /\ <<i, k>> = <<i>> \o <<k>>
    BY DEF Trail
  <2>2. (t \o <<i>>) \o <<k>> = t \o (<<i>> \o <<k>>)
    BY <1>1, <2>1, ConcatAssociative DEF Trail
  <2>3. t \o <<i, k>> \in Trail
    BY <2>1, ConcatProperties DEF Trail
  <2> QED
    BY <2>1, <2>2, <2>3
<1>4. (t \o <<i>>)[Len(t) + 1] = i /\ \A j \in 1..Len(t) : (t \o <<i>>)[j] = t[j]
  BY <1>1, <1>2
<1> QED
  BY <1>2, <1>3, <1>4

LEMMA BeforeNext ==
  ASSUME NEW t \in Trail, NEW i \in Nat, NEW j \in Nat, i < j
  PROVE  Before(t \o <<i>>, t \o <<j>>)
<1> DEFINE s == t \o <<i>>
<1> DEFINE u == t \o <<j>>
<1>1. /\ Len(s) = Len(t) + 1 /\ s[Len(t) + 1] = i /\ \A n \in 1..Len(t) : s[n] = t[n]
      /\ Len(u) = Len(t) + 1 /\ u[Len(t) + 1] = j /\ \A n \in 1..Len(t) : u[n] = t[n]
      /\ Len(t) \in Nat
  BY Pairs DEF Trail
<1> HIDE DEF s, u
<1>2. Before(s, u)
  BY <1>1 DEF Before
<1> QED
  BY <1>2 DEF s, u

LEMMA BeforeOneWay ==
  ASSUME NEW s \in Trail, NEW t \in Trail, Before(s, t)
  PROVE  ~Before(t, s)
<1> SUFFICES ASSUME Before(t, s)
             PROVE  FALSE
  OBVIOUS
<1>1. PICK k \in 1..Len(s) : k <= Len(t) /\ s[k] < t[k] /\ \A j \in 1..(k - 1) : s[j] = t[j]
  BY DEF Before
<1>2. PICK m \in 1..Len(t) : m <= Len(s) /\ t[m] < s[m] /\ \A j \in 1..(m - 1) : t[j] = s[j]
  BY DEF Before
<1>3. /\ Len(s) \in Nat /\ Len(t) \in Nat /\ k \in Nat /\ m \in Nat
      /\ s[k] \in Nat /\ t[k] \in Nat /\ s[m] \in Nat /\ t[m] \in Nat
  <2>1. Len(s) \in Nat /\ Len(t) \in Nat
    BY DEF Trail
  <2>2. k \in 1..Len(s) /\ k \in 1..Len(t) /\ m \in 1..Len(s) /\ m \in 1..Len(t)
    BY <1>1, <1>2, <2>1
  <2>3. \A i \in 1..Len(s) : s[i] \in Nat
    BY DEF Trail
  <2>4. \A i \in 1..Len(t) : t[i] \in Nat
    BY DEF Trail
  <2> QED
    BY <2>1, <2>2, <2>3, <2>4
<1>4. CASE k < m
  <2>1. k \in 1..(m - 1)
    BY <1>1, <1>3, <1>4
  <2> QED
    BY <1>1, <1>2, <1>3, <2>1
<1>5. CASE m < k
  <2>1. m \in 1..(k - 1)
    BY <1>2, <1>3, <1>5
  <2> QED
    BY <1>1, <1>2, <1>3, <2>1
<1>6. CASE m = k
  BY <1>1, <1>2, <1>3, <1>6
<1> QED
  BY <1>3, <1>4, <1>5, <1>6

LEMMA BeforeLater ==
  ASSUME NEW x \in Trail, NEW t \in Trail, NEW i \in Nat, Before(x, t \o <<i>>)
  PROVE  Before(x, t \o <<i + 1>>)
<1> DEFINE s == t \o <<i>>
<1> DEFINE u == t \o <<i + 1>>
<1>1. /\ Len(s) = Len(t) + 1 /\ s[Len(t) + 1] = i /\ \A n \in 1..Len(t) : s[n] = t[n]
      /\ Len(u) = Len(t) + 1 /\ u[Len(t) + 1] = i + 1 /\ \A n \in 1..Len(t) : u[n] = t[n]
      /\ Len(t) \in Nat /\ Len(x) \in Nat
  BY Pairs DEF Trail
<1>2. PICK k \in 1..Len(x) : k <= Len(s) /\ x[k] < s[k] /\ \A j \in 1..(k - 1) : x[j] = s[j]
  BY DEF Before
<1>3. x[k] \in Nat
  BY <1>2 DEF Trail
<1> HIDE DEF s, u
<1>4. \A n \in 1..Len(t) : s[n] = u[n]
  BY <1>1
<1>5. x[k] < u[k]
  <2>1. CASE k = Len(t) + 1
    BY <1>1, <1>2, <1>3, <2>1
  <2>2. CASE k # Len(t) + 1
    <3>1. k \in 1..Len(t)
      BY <1>1, <1>2, <2>2
    <3> QED
      BY <1>2, <1>4, <3>1
  <2> QED
    BY <2>1, <2>2
<1>6. \A j \in 1..(k - 1) : x[j] = u[j]
  BY <1>1, <1>2, <1>4
<1>7. Before(x, u)
  BY <1>1, <1>2, <1>5, <1>6 DEF Before
<1> QED
  BY <1>7 DEF u

-----------------------------------------------------------------------------
(* The walk: each frame of the stack w is at a place, under a trail ts[j]; V *)
(* are the places that are done with, D the port lines that have been read.  *)

Place(frame, t) == [trail |-> t, file |-> frame.file, ifExists |-> frame.ifExists]
Cursor(frame, t) == IF frame.line = 0 THEN t ELSE t \o <<frame.line>>

AtPlaces(w, ts) ==
  /\ ts \in Seq(Trail) /\ Len(ts) = Len(w)
  /\ \A j \in 1..Len(w) : Place(w[j], ts[j]) \in Places[w[j].depth]

\* What an inner frame still reads comes before what an outer one does.
InOrder(w, ts) ==
  \A i, j \in 1..Len(w) : i < j => Before(ts[i], Cursor(w[j], ts[j]))

Covered(w, ts, V, d, p) ==
  \/ <<d, p>> \in V
  \/ \E j \in 1..Len(w) : w[j].depth = d /\ Place(w[j], ts[j]) = p

LineDone(w, ts, V, D, d, p, i) ==
  /\ ~Wrong(disk[p.file][i])
  /\ \A c \in Below(p, i) : Covered(w, ts, V, d + 1, c)
  /\ disk[p.file][i].word = "port" => PortLine(p, i) \in D

PlaceDone(w, ts, V, D, d, p) ==
  /\ IF Exists(p) THEN d <= MaxIncludeDepth ELSE p.ifExists = "yes"
  /\ \A i \in Lines(p) : LineDone(w, ts, V, D, d, p, i)

Complete(w, ts, V, D) ==
  /\ \A p \in Roots : Covered(w, ts, V, 0, p)
  /\ \A d \in 0..Limit : \A p \in Places[d] : <<d, p>> \in V => PlaceDone(w, ts, V, D, d, p)
  /\ \A j \in 1..Len(w) : \A i \in 1..(w[j].line - 1) :
        LineDone(w, ts, V, D, w[j].depth, Place(w[j], ts[j]), i)

Passed(w, ts, D) ==
  /\ D \subseteq PortLines
  /\ \A x \in D : x.trail \in Trail /\ \A j \in 1..Len(w) : Before(x.trail, Cursor(w[j], ts[j]))

LastRead(pt, src, D) ==
  IF D = {} THEN pt = defaultPort /\ src = "default"
  ELSE \E line \in D : /\ pt = line.port /\ src = line.file
                       /\ \A other \in D \ {line} : Before(other.trail, line.trail)

Walk(w, ts, V, D, pt, src) ==
  AtPlaces(w, ts) /\ InOrder(w, ts) /\ Complete(w, ts, V, D) /\ Passed(w, ts, D)
  /\ LastRead(pt, src, D)

WalkInv == \E ts, V, D : Walk(work, ts, V, D, port, source)

\* The stack x with trails y is the stack w with n, under the trails us, for its first.
Shifted(w, ts, n, us, x, y) ==
  /\ Len(w) \in Nat \ {0} /\ Len(n) \in Nat /\ Len(x) = Len(n) + Len(w) - 1 /\ Len(y) = Len(x)
  /\ y \in Seq(Trail)
  /\ \A j \in 1..Len(n) : x[j] = n[j] /\ y[j] = us[j]
  /\ \A j \in 2..Len(w) : x[Len(n) + j - 1] = w[j] /\ y[Len(n) + j - 1] = ts[j]

LEMMA Shift ==
  ASSUME NEW w \in Seq(Frames), w # <<>>, NEW ts \in Seq(Trail), Len(ts) = Len(w),
         NEW n \in Seq(Frames), NEW us \in Seq(Trail), Len(us) = Len(n)
  PROVE  Shifted(w, ts, n, us, n \o Tail(w), us \o Tail(ts))
<1> HIDE DEF Frames, Trail
<1>1. Len(w) \in Nat \ {0} /\ Len(n) \in Nat /\ ts # <<>>
  BY EmptySeq
<1>2. /\ Len(n \o Tail(w)) = Len(n) + Len(w) - 1
      /\ \A j \in 1..Len(n) : (n \o Tail(w))[j] = n[j]
      /\ \A j \in 2..Len(w) : (n \o Tail(w))[Len(n) + j - 1] = w[j]
  BY Replaced
<1>3. /\ us \o Tail(ts) \in Seq(Trail) /\ Len(us \o Tail(ts)) = Len(us) + Len(ts) - 1
      /\ \A j \in 1..Len(us) : (us \o Tail(ts))[j] = us[j]
      /\ \A j \in 2..Len(ts) : (us \o Tail(ts))[Len(us) + j - 1] = ts[j]
  <2>1. ts \in Seq(Trail) /\ ts # <<>> /\ us \in Seq(Trail)
    BY <1>1
  <2>2. \A S : \A v \in Seq(S) : v # <<>> => \A m \in Seq(S) :
          /\ m \o Tail(v) \in Seq(S) /\ Len(m \o Tail(v)) = Len(m) + Len(v) - 1
          /\ \A j \in 1..Len(m) : (m \o Tail(v))[j] = m[j]
          /\ \A j \in 2..Len(v) : (m \o Tail(v))[Len(m) + j - 1] = v[j]
    BY Replaced
  <2> QED
    BY <2>1, <2>2, Zenon
<1> QED
  BY <1>1, <1>2, <1>3 DEF Shifted

LEMMA ShiftedIndex ==
  ASSUME NEW w, NEW ts, NEW n, NEW us, NEW x, NEW y, Shifted(w, ts, n, us, x, y),
         NEW j \in 1..Len(x)
  PROVE  \/ j \in 1..Len(n) /\ x[j] = n[j] /\ y[j] = us[j]
         \/ \E i \in 2..Len(w) : j = Len(n) + i - 1 /\ x[j] = w[i] /\ y[j] = ts[i]
<1>1. CASE j \in 1..Len(n)
  BY <1>1 DEF Shifted
<1>2. CASE j \notin 1..Len(n)
  <2>1. j - Len(n) + 1 \in 2..Len(w) /\ j = Len(n) + (j - Len(n) + 1) - 1
    BY <1>2 DEF Shifted
  <2> QED
    BY <2>1 DEF Shifted
<1> QED
  BY <1>1, <1>2

LEMMA ShiftedWalk ==
  ASSUME NEW w, NEW ts, NEW n, NEW us, NEW x, NEW y, Shifted(w, ts, n, us, x, y),
         AtPlaces(w, ts), InOrder(w, ts),
         \A j \in 1..Len(w) : Cursor(w[j], ts[j]) \in Trail,
         us \in Seq(Trail), Len(us) = Len(n),
         \A k \in 1..Len(n) : Place(n[k], us[k]) \in Places[n[k].depth],
         \A k, l \in 1..Len(n) : k < l => Before(us[k], Cursor(n[l], us[l])),
         \A k \in 1..Len(n) : \E v \in Trail : us[k] = ts[1] \o v
  PROVE  AtPlaces(x, y) /\ InOrder(x, y)
<1>0. Len(w) \in Nat \ {0} /\ Len(n) \in Nat /\ Len(x) = Len(n) + Len(w) - 1 /\ Len(y) = Len(x)
      /\ y \in Seq(Trail) /\ \A j \in 1..Len(n) : x[j] = n[j] /\ y[j] = us[j]
  BY DEF Shifted
<1>1. AtPlaces(x, y)
  <2> SUFFICES ASSUME NEW j \in 1..Len(x)
               PROVE  Place(x[j], y[j]) \in Places[x[j].depth]
    BY <1>0 DEF AtPlaces
  <2>1. CASE j \in 1..Len(n)
    BY <1>0, <2>1
  <2>2. CASE j \notin 1..Len(n)
    <3>1. PICK i \in 2..Len(w) : x[j] = w[i] /\ y[j] = ts[i]
      BY <2>2, ShiftedIndex
    <3>2. i \in 1..Len(w)
      BY <1>0
    <3> QED
      BY <3>1, <3>2 DEF AtPlaces
  <2> QED
    BY <2>1, <2>2
<1>2. ASSUME NEW i \in 1..Len(x), NEW j \in 1..Len(x), i < j
      PROVE  Before(y[i], Cursor(x[j], y[j]))
  <2>1. CASE i \in 1..Len(n) /\ j \in 1..Len(n)
    BY <1>0, <1>2, <2>1
  <2>2. CASE i \in 1..Len(n) /\ j \notin 1..Len(n)
    <3>1. PICK m \in 2..Len(w) : x[j] = w[m] /\ y[j] = ts[m]
      BY <2>2, ShiftedIndex
    <3>2. Before(ts[1], Cursor(w[m], ts[m])) /\ 1 \in 1..Len(w) /\ m \in 1..Len(w)
      BY <1>0, <3>1 DEF InOrder
    <3>3. ts[1] \in Trail /\ Cursor(w[m], ts[m]) \in Trail
      BY <1>0, <3>2 DEF AtPlaces
    <3>4. PICK v \in Trail : us[i] = ts[1] \o v
      BY <2>2
    <3>5. Before(us[i], Cursor(w[m], ts[m]))
      BY <3>2, <3>3, <3>4, BeforeExtends
    <3> QED
      BY <1>0, <2>2, <3>1, <3>5
  <2>3. CASE i \notin 1..Len(n)
    <3>1. PICK m \in 2..Len(w) : i = Len(n) + m - 1 /\ y[i] = ts[m]
      BY <2>3, ShiftedIndex
    <3>2. j \notin 1..Len(n)
      BY <1>0, <1>2, <2>3
    <3>3. PICK l \in 2..Len(w) : j = Len(n) + l - 1 /\ x[j] = w[l] /\ y[j] = ts[l]
      BY <3>2, ShiftedIndex
    <3>4. m < l /\ m \in 1..Len(w) /\ l \in 1..Len(w)
      BY <1>0, <1>2, <3>1, <3>3
    <3> QED
      BY <3>1, <3>3, <3>4 DEF InOrder
  <2> QED
    BY <2>1, <2>2, <2>3
<1>3. InOrder(x, y)
  BY <1>2 DEF InOrder
<1> QED
  BY <1>1, <1>3

\* What was covered stays covered, if the innermost frame's place does.
LEMMA ShiftedCovered ==
  ASSUME NEW w, NEW ts, NEW n, NEW us, NEW x, NEW y, Shifted(w, ts, n, us, x, y),
         NEW V, NEW W, V \subseteq W,
         Covered(x, y, W, w[1].depth, Place(w[1], ts[1])),
         NEW d, NEW p, Covered(w, ts, V, d, p)
  PROVE  Covered(x, y, W, d, p)
<1>1. CASE <<d, p>> \in V
  BY <1>1 DEF Covered
<1>2. CASE \E j \in 1..Len(w) : w[j].depth = d /\ Place(w[j], ts[j]) = p
  <2> PICK j \in 1..Len(w) : w[j].depth = d /\ Place(w[j], ts[j]) = p
    BY <1>2
  <2>1. CASE j = 1
    BY <2>1
  <2>2. CASE j # 1
    <3>1. /\ j \in 2..Len(w) /\ Len(n) + j - 1 \in 1..Len(x)
          /\ x[Len(n) + j - 1] = w[j] /\ y[Len(n) + j - 1] = ts[j]
      BY <2>2 DEF Shifted
    <3> QED
      BY <3>1 DEF Covered
  <2> QED
    BY <2>1, <2>2
<1> QED
  BY <1>1, <1>2 DEF Covered

\* A frame of n at the innermost frame's place keeps that place covered.
LEMMA StillCovered ==
  ASSUME NEW w, NEW ts, NEW n, NEW us, NEW x, NEW y, Shifted(w, ts, n, us, x, y), NEW W,
         NEW k \in 1..Len(n)
  PROVE  Covered(x, y, W, n[k].depth, Place(n[k], us[k]))
<1>1. k \in 1..Len(x) /\ x[k] = n[k] /\ y[k] = us[k]
  BY DEF Shifted
<1> QED
  BY <1>1 DEF Covered

LEMMA LineStaysDone ==
  ASSUME NEW w, NEW ts, NEW V, NEW D, NEW x, NEW y, NEW W, NEW E, D \subseteq E,
         \A d, p : Covered(w, ts, V, d, p) => Covered(x, y, W, d, p),
         NEW d, NEW p, NEW i, LineDone(w, ts, V, D, d, p, i)
  PROVE  LineDone(x, y, W, E, d, p, i)
BY DEF LineDone

\* A step of the walk: what the new frames have done, and the old place if it is left.
LEMMA ShiftedComplete ==
  ASSUME NEW w, NEW ts, NEW n, NEW us, NEW x, NEW y, Shifted(w, ts, n, us, x, y),
         NEW V, NEW W, V \subseteq W, NEW D, NEW E, D \subseteq E,
         Complete(w, ts, V, D),
         Covered(x, y, W, w[1].depth, Place(w[1], ts[1])),
         \A d, p : <<d, p>> \in W \ V => PlaceDone(x, y, W, E, d, p),
         \A k \in 1..Len(n) : \A i \in 1..(n[k].line - 1) :
            LineDone(x, y, W, E, n[k].depth, Place(n[k], us[k]), i)
  PROVE  Complete(x, y, W, E)
<1>1. \A d, p : Covered(w, ts, V, d, p) => Covered(x, y, W, d, p)
  BY ShiftedCovered
<1>2. \A d, p, i : LineDone(w, ts, V, D, d, p, i) => LineDone(x, y, W, E, d, p, i)
  BY <1>1, LineStaysDone
<1>3. \A p \in Roots : Covered(x, y, W, 0, p)
  BY <1>1 DEF Complete
<1>4. ASSUME NEW d \in 0..Limit, NEW p \in Places[d], <<d, p>> \in W
      PROVE  PlaceDone(x, y, W, E, d, p)
  <2>1. CASE <<d, p>> \in V
    <3>1. PlaceDone(w, ts, V, D, d, p)
      BY <2>1 DEF Complete
    <3> QED
      BY <1>2, <3>1 DEF PlaceDone
  <2>2. CASE <<d, p>> \notin V
    BY <1>4, <2>2
  <2> QED
    BY <2>1, <2>2
<1>5. ASSUME NEW j \in 1..Len(x), NEW i \in 1..(x[j].line - 1)
      PROVE  LineDone(x, y, W, E, x[j].depth, Place(x[j], y[j]), i)
  <2>1. CASE j \in 1..Len(n) /\ x[j] = n[j] /\ y[j] = us[j]
    BY <1>5, <2>1
  <2>2. CASE \E m \in 2..Len(w) : j = Len(n) + m - 1 /\ x[j] = w[m] /\ y[j] = ts[m]
    <3>1. PICK m \in 2..Len(w) : x[j] = w[m] /\ y[j] = ts[m]
      BY <2>2
    <3>2. m \in 1..Len(w)
      BY DEF Shifted
    <3>3. LineDone(w, ts, V, D, w[m].depth, Place(w[m], ts[m]), i)
      BY <1>5, <3>1, <3>2 DEF Complete
    <3> QED
      BY <1>2, <3>1, <3>3
  <2> QED
    BY <2>1, <2>2, ShiftedIndex
<1> QED
  BY <1>3, <1>4, <1>5 DEF Complete

LEMMA ShiftedPassed ==
  ASSUME NEW w, NEW ts, NEW n, NEW us, NEW x, NEW y, Shifted(w, ts, n, us, x, y),
         NEW D, Passed(w, ts, D),
         \A z \in D : \A k \in 1..Len(n) : Before(z.trail, Cursor(n[k], us[k]))
  PROVE  Passed(x, y, D)
<1> SUFFICES ASSUME NEW z \in D, NEW j \in 1..Len(x)
             PROVE  Before(z.trail, Cursor(x[j], y[j]))
  BY DEF Passed
<1>1. CASE j \in 1..Len(n) /\ x[j] = n[j] /\ y[j] = us[j]
  BY <1>1
<1>2. CASE \E m \in 2..Len(w) : j = Len(n) + m - 1 /\ x[j] = w[m] /\ y[j] = ts[m]
  <2>1. PICK m \in 2..Len(w) : x[j] = w[m] /\ y[j] = ts[m]
    BY <1>2
  <2>2. m \in 1..Len(w)
    BY DEF Shifted
  <2> QED
    BY <2>1, <2>2 DEF Passed
<1> QED
  BY <1>1, <1>2, ShiftedIndex

-----------------------------------------------------------------------------
(* The steps of the walk. *)

\* What is known of the innermost frame and its trail.
LEMMA TopWalks ==
  ASSUME TypeInv, Reading, NEW ts, AtPlaces(work, ts)
  PROVE  /\ work \in Seq(Frames) /\ work # <<>> /\ Len(work) \in Nat \ {0} /\ 1 \in 1..Len(work)
         /\ ts \in Seq(Trail) /\ Len(ts) = Len(work) /\ ts[1] \in Trail /\ Top = work[1]
         /\ \A j \in 1..Len(work) : ts[j] \in Trail /\ Cursor(work[j], ts[j]) \in Trail
         /\ Place(Top, ts[1]) \in Places[Top.depth]
<1>1. work \in Seq(Frames) /\ work # <<>>
  BY StackIs DEF Reading
<1>2. Len(work) \in Nat \ {0} /\ Top = work[1]
  BY TopIs
<1>3. ts \in Seq(Trail) /\ Len(ts) = Len(work)
  BY DEF AtPlaces
<1>4. ASSUME NEW j \in 1..Len(work)
      PROVE  ts[j] \in Trail /\ Cursor(work[j], ts[j]) \in Trail
  <2>1. work[j].line \in Nat
    BY <1>1 DEF Frames, Frame
  <2>2. ts[j] \in Trail
    BY <1>3
  <2> QED
    BY <2>1, <2>2, Pairs DEF Cursor
<1>5. 1 \in 1..Len(work)
  BY <1>2
<1> QED
  BY <1>1, <1>2, <1>3, <1>4, <1>5 DEF AtPlaces

LEMMA ReturnWalks ==
  ASSUME TypeInv, Reading, NEW ts, NEW V, NEW D, NEW pt, NEW src, Walk(work, ts, V, D, pt, src),
         PlaceDone(work, ts, V, D, Top.depth, Place(Top, ts[1]))
  PROVE  \E y, W : Walk(Tail(work), y, W, D, pt, src)
<1>1. AtPlaces(work, ts) /\ InOrder(work, ts) /\ Complete(work, ts, V, D) /\ Passed(work, ts, D)
  BY DEF Walk
<1> DEFINE x == <<>> \o Tail(work)
<1> DEFINE y == <<>> \o Tail(ts)
<1> DEFINE W == V \cup {<<Top.depth, Place(Top, ts[1])>>}
<1>2. <<>> \in Seq(Frames) /\ <<>> \in Seq(Trail) /\ Len(<<>>) = 0 /\ x = Tail(work)
  BY Returned, EmptySeq
<1>3. Shifted(work, ts, <<>>, <<>>, x, y)
  BY <1>1, <1>2, TopWalks, Shift
<1>4. Covered(x, y, W, work[1].depth, Place(work[1], ts[1]))
  BY <1>1, TopWalks DEF Covered
<1> HIDE DEF x, y
<1>5. AtPlaces(x, y) /\ InOrder(x, y)
  <2>1. \A j \in 1..Len(work) : Cursor(work[j], ts[j]) \in Trail
    BY <1>1, TopWalks
  <2> DEFINE none == <<>>
  <2>2. \A k \in 1..Len(none) : FALSE
    BY <1>2
  <2>3. none \in Seq(Trail) /\ Len(none) = Len(none) /\ Shifted(work, ts, none, none, x, y)
    BY <1>2, <1>3
  <2> HIDE DEF none
  <2> QED
    BY <1>1, <2>1, <2>2, <2>3, ShiftedWalk
<1>6. V \subseteq W
  OBVIOUS
<1>7. \A d, p : Covered(work, ts, V, d, p) => Covered(x, y, W, d, p)
  BY <1>3, <1>4, <1>6, ShiftedCovered
<1>8. \A d, p : <<d, p>> \in W \ V => PlaceDone(x, y, W, D, d, p)
  <2> SUFFICES PlaceDone(x, y, W, D, Top.depth, Place(Top, ts[1]))
    OBVIOUS
  <2> HIDE DEF W
  <2>1. \A d, p, i : LineDone(work, ts, V, D, d, p, i) => LineDone(x, y, W, D, d, p, i)
    BY <1>7, LineStaysDone
  <2> QED
    BY <2>1 DEF PlaceDone
<1> HIDE DEF W
<1>9. Complete(x, y, W, D)
  BY <1>1, <1>2, <1>3, <1>4, <1>6, <1>8, ShiftedComplete
<1>10. Passed(x, y, D)
  BY <1>1, <1>2, <1>3, ShiftedPassed
<1>11. Walk(x, y, W, D, pt, src)
  BY <1>5, <1>9, <1>10 DEF Walk
<1> QED
  BY <1>2, <1>11

\* The innermost frame goes on: E is what has been read when it has.
LEMMA AdvanceWalks ==
  ASSUME TypeInv, Reading, NEW ts, NEW V, NEW D, NEW E, D \subseteq E,
         AtPlaces(work, ts), InOrder(work, ts), Complete(work, ts, V, D), Passed(work, ts, D),
         <<TopAdvanced>> \in Seq(Frames), TopAdvanced.line = Top.line + 1,
         TopAdvanced.file = Top.file, TopAdvanced.depth = Top.depth,
         TopAdvanced.ifExists = Top.ifExists,
         Top.line > 0 => LineDone(work, ts, V, E, Top.depth, Place(Top, ts[1]), Top.line)
  PROVE  LET x == <<TopAdvanced>> \o Tail(work)
             y == <<ts[1]>> \o Tail(ts)
         IN  /\ Shifted(work, ts, <<TopAdvanced>>, <<ts[1]>>, x, y)
             /\ AtPlaces(x, y) /\ InOrder(x, y) /\ Complete(x, y, V, E) /\ Passed(x, y, D)
<1> DEFINE n == <<TopAdvanced>>
<1> DEFINE us == <<ts[1]>>
<1> DEFINE x == n \o Tail(work)
<1> DEFINE y == us \o Tail(ts)
<1>1. /\ n \in Seq(Frames) /\ us \in Seq(Trail) /\ Len(n) = 1 /\ Len(us) = 1
      /\ n[1] = TopAdvanced /\ us[1] = ts[1]
  BY TopWalks
<1>2. /\ Top.line \in Nat /\ ts[1] \in Trail /\ Top = work[1] /\ 1 \in 1..Len(work)
      /\ Place(Top, ts[1]) \in Places[Top.depth]
      /\ \A j \in 1..Len(work) : Cursor(work[j], ts[j]) \in Trail
  BY TopWalks, TopIs
<1> HIDE DEF n, us
<1>3. Shifted(work, ts, n, us, x, y)
  BY <1>1, TopWalks, Shift
<1> HIDE DEF x, y
<1>4. Place(TopAdvanced, ts[1]) = Place(Top, ts[1])
  BY DEF Place
<1>5. AtPlaces(x, y) /\ InOrder(x, y)
  <2>1. ts[1] = ts[1] \o <<>> /\ <<>> \in Trail
    BY <1>2, ConcatEmptySeq, EmptySeq DEF Trail
  <2>2. \A k \in 1..Len(n) : Place(n[k], us[k]) \in Places[n[k].depth]
    BY <1>1, <1>2, <1>4
  <2>0. \E v \in Trail : ts[1] = ts[1] \o v
    BY <2>1
  <2>3. \A k \in 1..Len(n) : \E v \in Trail : us[k] = ts[1] \o v
    <3> SUFFICES ASSUME NEW k \in 1..Len(n)
                 PROVE  us[k] = ts[1]
      BY <2>0
    <3> QED
      BY <1>1
  <2>4. \A k, l \in 1..Len(n) : ~(k < l)
    BY <1>1
  <2> QED
    BY <1>1, <1>2, <1>3, <2>2, <2>3, <2>4, ShiftedWalk
<1>6. Covered(x, y, V, work[1].depth, Place(work[1], ts[1]))
  <2>1. 1 \in 1..Len(n)
    BY <1>1
  <2>2. Covered(x, y, V, n[1].depth, Place(n[1], us[1]))
    BY <1>3, <2>1, StillCovered
  <2> QED
    BY <1>1, <1>2, <1>4, <2>2
<1>7. \A d, p : Covered(work, ts, V, d, p) => Covered(x, y, V, d, p)
  BY <1>3, <1>6, ShiftedCovered
<1>8. ASSUME NEW k \in 1..Len(n), NEW i \in 1..(n[k].line - 1)
      PROVE  LineDone(x, y, V, E, n[k].depth, Place(n[k], us[k]), i)
  <2>1. k = 1 /\ i \in 1..Top.line
    BY <1>1, <1>2
  <2>2. CASE i = Top.line
    <3>1. LineDone(work, ts, V, E, Top.depth, Place(Top, ts[1]), i)
      BY <1>2, <2>1, <2>2
    <3> QED
      BY <1>1, <1>4, <1>7, <2>1, <3>1, LineStaysDone
  <2>3. CASE i # Top.line
    <3>1. i \in 1..(work[1].line - 1)
      BY <1>2, <2>1, <2>3
    <3>2. LineDone(work, ts, V, D, Top.depth, Place(Top, ts[1]), i)
      BY <1>2, <3>1 DEF Complete
    <3> QED
      BY <1>1, <1>4, <1>7, <2>1, <3>2, LineStaysDone
  <2> QED
    BY <2>2, <2>3
<1>9. Complete(x, y, V, E)
  <2>1. V \subseteq V /\ \A d, p : <<d, p>> \notin V \ V
    OBVIOUS
  <2> QED
    BY <1>3, <1>6, <1>8, <2>1, ShiftedComplete
<1>10. Passed(x, y, D)
  <2> SUFFICES ASSUME NEW z \in D
               PROVE  Before(z.trail, Cursor(TopAdvanced, ts[1]))
    BY <1>1, <1>3, ShiftedPassed
  <2>1. z.trail \in Trail /\ Before(z.trail, Cursor(Top, ts[1]))
    BY <1>2 DEF Passed
  <2>2. Cursor(TopAdvanced, ts[1]) = ts[1] \o <<Top.line + 1>>
    BY <1>2 DEF Cursor
  <2>3. CASE Top.line = 0
    <3>1. Before(z.trail, ts[1])
      BY <2>1, <2>3 DEF Cursor
    <3>2. <<Top.line + 1>> \in Trail
      BY <1>2 DEF Trail
    <3> QED
      BY <1>2, <2>1, <2>2, <3>1, <3>2, BeforeExtends
  <2>4. CASE Top.line # 0
    <3>1. Before(z.trail, ts[1] \o <<Top.line>>)
      BY <2>1, <2>4 DEF Cursor
    <3> QED
      BY <1>2, <2>1, <2>2, <3>1, BeforeLater
  <2> QED
    BY <2>3, <2>4
<1> QED
  BY <1>3, <1>5, <1>9, <1>10 DEF x, y, n, us

\* The line that is read, as a line of the innermost frame's place.
LEMMA LineOfPlace ==
  ASSUME TypeInv, AtLine, NEW t
  PROVE  /\ disk[Place(Top, t).file][Top.line] = Line /\ Exists(Place(Top, t))
         /\ Lines(Place(Top, t)) = 1..Len(disk[Top.file]) /\ Top.line \in Lines(Place(Top, t))
         /\ Top.depth \in 0..MaxIncludeDepth /\ Reading
<1>1. Top.file \in File /\ Top.line \in Nat /\ OpenFrame(Top) /\ Top.depth \in 0..Limit /\ Reading
      /\ Top.line > 0 /\ Top.line <= Len(disk[Top.file])
  BY TopIs DEF AtLine
<1>2. disk[Top.file] # Missing /\ Top.depth <= MaxIncludeDepth
  BY <1>1 DEF OpenFrame
<1>3. Len(disk[Top.file]) \in Nat
  BY <1>1, <1>2, DiskIs
<1>4. Top.line \in 1..Len(disk[Top.file]) /\ Place(Top, t).file = Top.file
  BY <1>1, <1>3 DEF Place
<1> QED
  BY <1>1, <1>2, <1>4, DepthAssumption DEF Line, Exists, Lines, Limit

LEMMA NothingIncluded ==
  ASSUME NEW line, line.word \in {"port", "other"}
  PROVE  Included(line) = <<>> /\ ~NoFolder(line)
BY DEF Included, NoFolder, Includes

LEMMA PortWalks ==
  ASSUME TypeInv, AtLine, Line.word = "port", Line.value \in Ports,
         NEW ts, NEW V, NEW D, NEW pt, NEW src, Walk(work, ts, V, D, pt, src)
  PROVE  \E y, E : Walk(<<TopAdvanced>> \o Tail(work), y, V, E, Line.value, Top.file)
<1>1. AtPlaces(work, ts) /\ InOrder(work, ts) /\ Complete(work, ts, V, D) /\ Passed(work, ts, D)
  BY DEF Walk
<1> DEFINE place == Place(Top, ts[1])
<1> DEFINE read == PortLine(place, Top.line)
<1> DEFINE E == D \cup {read}
<1> DEFINE n == <<TopAdvanced>>
<1> DEFINE us == <<ts[1]>>
<1> DEFINE x == n \o Tail(work)
<1> DEFINE y == us \o Tail(ts)
<1>2. /\ disk[place.file][Top.line] = Line /\ Top.line \in Lines(place) /\ Reading
      /\ Top.depth \in 0..MaxIncludeDepth
  BY LineOfPlace
<1>3. /\ ts[1] \in Trail /\ Top.line \in Nat /\ Top = work[1] /\ 1 \in 1..Len(work)
      /\ place \in Places[Top.depth] /\ Len(work) \in Nat \ {0}
      /\ \A j \in 1..Len(work) : Cursor(work[j], ts[j]) \in Trail
  BY <1>1, <1>2, TopWalks, TopIs
<1>4. read.trail = ts[1] \o <<Top.line>> /\ read.port = Line.value /\ read.file = Top.file
  BY <1>2 DEF PortLine, Place
<1>5. read \in PortLines
  <2>1. Top.depth \in DOMAIN Places
    BY <1>2, PlacesAre, DepthAssumption DEF Limit
  <2> HIDE DEF place
  <2> QED
    BY <1>2, <1>3, <2>1 DEF PortLines
<1>6. LineDone(work, ts, V, E, Top.depth, place, Top.line)
  <2>1. ~Wrong(Line)
    BY NothingIncluded DEF Wrong
  <2>2. Included(Line) = <<>> /\ Len(<<>>) = 0
    BY NothingIncluded, EmptySeq
  <2> HIDE DEF place, read
  <2>3. Below(place, Top.line) = {}
    BY <1>2, <2>2 DEF Below
  <2> QED
    BY <1>2, <2>1, <2>3 DEF LineDone, read
<1> HIDE DEF read, place
<1>7. /\ Shifted(work, ts, <<TopAdvanced>>, <<ts[1]>>, x, y)
      /\ AtPlaces(x, y) /\ InOrder(x, y) /\ Complete(x, y, V, E) /\ Passed(x, y, D)
  <2> DEFINE F == E
  <2>1. LineDone(work, ts, V, F, Top.depth, Place(Top, ts[1]), Top.line) /\ D \subseteq F
    BY <1>6 DEF place
  <2> HIDE DEF F
  <2>2. /\ Shifted(work, ts, <<TopAdvanced>>, <<ts[1]>>, x, y)
        /\ AtPlaces(x, y) /\ InOrder(x, y) /\ Complete(x, y, V, F) /\ Passed(x, y, D)
    BY <1>1, <1>2, <2>1, AdvancedIs, AdvanceWalks
  <2> QED
    BY <2>2 DEF F
<1>8. \A j \in 1..Len(x) : Before(read.trail, Cursor(x[j], y[j]))
  <2> HIDE DEF x, y, E
  <2>1. /\ Shifted(work, ts, n, us, x, y)
        /\ Len(n) = 1 /\ n[1] = TopAdvanced /\ us[1] = ts[1]
    BY <1>7
  <2> HIDE DEF n, us
  <2>2. \A k \in 1..Len(n) : Before(read.trail, Cursor(n[k], us[k]))
    <3>1. Cursor(TopAdvanced, ts[1]) = ts[1] \o <<Top.line + 1>>
      BY <1>2, <1>3, AdvancedIs DEF Cursor
    <3>2. Before(ts[1] \o <<Top.line>>, ts[1] \o <<Top.line + 1>>)
      BY <1>3, BeforeNext
    <3>3. Before(read.trail, Cursor(n[1], us[1]))
      BY <1>4, <2>1, <3>1, <3>2
    <3> QED
      BY <2>1, <3>3
  <2>3. \A m \in 2..Len(work) : Before(read.trail, Cursor(work[m], ts[m]))
    <3> SUFFICES ASSUME NEW m \in 2..Len(work)
                 PROVE  Before(read.trail, Cursor(work[m], ts[m]))
      OBVIOUS
    <3>1. m \in 1..Len(work) /\ 1 < m
      BY <1>3
    <3>2. Before(ts[1], Cursor(work[m], ts[m]))
      BY <1>1, <1>3, <3>1 DEF InOrder
    <3>3. <<Top.line>> \in Trail /\ Cursor(work[m], ts[m]) \in Trail
      BY <1>3, <3>1 DEF Trail
    <3>4. Before(ts[1] \o <<Top.line>>, Cursor(work[m], ts[m]))
      BY <1>3, <3>2, <3>3, BeforeExtends
    <3> QED
      BY <1>4, <3>4
  <2> SUFFICES ASSUME NEW j \in 1..Len(x)
               PROVE  Before(read.trail, Cursor(x[j], y[j]))
    OBVIOUS
  <2>4. CASE j = 1
    <3>1. x[j] = n[1] /\ y[j] = us[1] /\ 1 \in 1..Len(n)
      BY <2>1, <2>4 DEF Shifted
    <3> QED
      BY <2>2, <3>1
  <2>5. CASE j # 1
    <3>1. j \in 2..Len(work) /\ x[j] = work[j] /\ y[j] = ts[j]
      BY <2>1, <2>5 DEF Shifted
    <3> QED
      BY <2>3, <3>1
  <2> QED
    BY <2>4, <2>5
<1>9. read.trail \in Trail
  BY <1>3, <1>4, Pairs
<1>10. Passed(x, y, E)
  <2> HIDE DEF x, y
  <2> QED
    BY <1>5, <1>7, <1>8, <1>9 DEF Passed
<1>11. LastRead(Line.value, Top.file, E)
  <2>1. \A other \in D : Before(other.trail, read.trail)
    <3>1. \A other \in D : Before(other.trail, Cursor(work[1], ts[1]))
      BY <1>1, <1>3 DEF Passed
    <3>2. Cursor(work[1], ts[1]) = read.trail
      BY <1>2, <1>3, <1>4 DEF Cursor, AtLine
    <3> QED
      BY <3>1, <3>2
  <2>2. E # {} /\ read \in E /\ \A other \in E \ {read} : other \in D
    OBVIOUS
  <2> HIDE DEF E
  <2> QED
    BY <1>4, <2>1, <2>2 DEF LastRead
<1> HIDE DEF E, x, y
<1>12. Walk(x, y, V, E, Line.value, Top.file)
  BY <1>7, <1>10, <1>11 DEF Walk
<1> QED
  BY <1>12 DEF x

LEMMA PassOverWalks ==
  ASSUME TypeInv, Reading, <<TopAdvanced>> \in Seq(Frames), TopAdvanced.line = Top.line + 1,
         TopAdvanced.file = Top.file, TopAdvanced.depth = Top.depth,
         TopAdvanced.ifExists = Top.ifExists,
         Top.line = 0 \/ (AtLine /\ Line.word = "other"),
         NEW ts, NEW V, NEW D, NEW pt, NEW src, Walk(work, ts, V, D, pt, src)
  PROVE  \E y : Walk(<<TopAdvanced>> \o Tail(work), y, V, D, pt, src)
<1> DEFINE place == Place(Top, ts[1])
<1>1. AtPlaces(work, ts) /\ InOrder(work, ts) /\ Complete(work, ts, V, D) /\ Passed(work, ts, D)
  BY DEF Walk
<1>2. ASSUME Top.line > 0
      PROVE  LineDone(work, ts, V, D, Top.depth, place, Top.line)
  <2>1. AtLine /\ Line.word = "other"
    BY <1>2
  <2>2. disk[place.file][Top.line] = Line
    BY <2>1, LineOfPlace
  <2>3. Included(Line) = <<>> /\ Len(<<>>) = 0 /\ ~Wrong(Line)
    BY <2>1, NothingIncluded, EmptySeq DEF Wrong
  <2> HIDE DEF place
  <2>4. Below(place, Top.line) = {}
    BY <2>2, <2>3 DEF Below
  <2> QED
    BY <2>1, <2>2, <2>3, <2>4 DEF LineDone
<1> HIDE DEF place
<1>3. D \subseteq D
  OBVIOUS
<1>4. Top.line > 0 => LineDone(work, ts, V, D, Top.depth, Place(Top, ts[1]), Top.line)
  BY <1>2 DEF place
<1> DEFINE x == <<TopAdvanced>> \o Tail(work)
<1> DEFINE y == <<ts[1]>> \o Tail(ts)
<1>5. AtPlaces(x, y) /\ InOrder(x, y) /\ Complete(x, y, V, D) /\ Passed(x, y, D)
  BY <1>1, <1>3, <1>4, AdvanceWalks
<1> HIDE DEF x, y
<1>6. Walk(x, y, V, D, pt, src)
  BY <1>5 DEF Walk
<1> QED
  BY <1>6 DEF x

\* The frames of a call and the trails they are read under.
LEMMA CalledIs ==
  ASSUME TypeInv, AtLine, ~NoFolder(Line), NEW t \in Trail
  PROVE  LET n == Calls(Line, Top.depth + 1) \o <<TopAdvanced>>
             us == [k \in 1..Len(Included(Line)) |-> t \o <<Top.line, k>>] \o <<t>>
             m == Len(Included(Line))
         IN  /\ m \in Nat /\ n \in Seq(Frames) /\ us \in Seq(Trail)
             /\ Len(n) = m + 1 /\ Len(us) = m + 1
             /\ n[m + 1] = TopAdvanced /\ us[m + 1] = t
             /\ \A k \in 1..m : /\ n[k].file = Included(Line)[k] /\ n[k].line = 0
                                /\ n[k].depth = Top.depth + 1 /\ n[k].ifExists = Optional(Line)
                                /\ us[k] = t \o <<Top.line, k>>
<1> DEFINE m == Len(Included(Line))
<1> DEFINE calls == Calls(Line, Top.depth + 1)
<1> DEFINE tr == [k \in 1..m |-> t \o <<Top.line, k>>]
<1>1. /\ calls \in Seq(Frames) /\ Len(calls) = m /\ m \in Nat
      /\ <<TopAdvanced>> \in Seq(Frames) /\ Len(<<TopAdvanced>>) = 1
  BY CallsAre, AdvancedIs DEF AtLine
<1>2. \A k \in 1..m : calls[k] = Unread(Included(Line)[k], Top.depth + 1, Optional(Line))
  BY DEF Calls
<1>3. Top.line \in Nat
  BY TopIs DEF AtLine
<1>4. \A k \in 1..m : t \o <<Top.line, k>> \in Trail
  <2>1. \A k \in 1..m : k \in Nat
    BY <1>1
  <2> QED
    BY <1>3, <2>1, Pairs
<1>5. tr \in Seq(Trail) /\ Len(tr) = m /\ \A k \in 1..m : tr[k] = t \o <<Top.line, k>>
  BY <1>1, <1>4
<1>6. <<t>> \in Seq(Trail) /\ Len(<<t>>) = 1
  OBVIOUS
<1> HIDE DEF calls, tr, m
<1>7. /\ calls \o <<TopAdvanced>> \in Seq(Frames) /\ Len(calls \o <<TopAdvanced>>) = m + 1
      /\ \A k \in 1..m : (calls \o <<TopAdvanced>>)[k] = calls[k]
      /\ (calls \o <<TopAdvanced>>)[m + 1] = TopAdvanced
  <2> DEFINE one == <<TopAdvanced>>
  <2>1. one \in Seq(Frames) /\ Len(one) = 1 /\ one[1] = TopAdvanced
    BY <1>1
  <2> HIDE DEF one, Frames
  <2>2. /\ calls \o one \in Seq(Frames) /\ Len(calls \o one) = m + 1
        /\ \A k \in 1..(m + 1) : (calls \o one)[k] = IF k <= m THEN calls[k] ELSE one[k - m]
    BY <1>1, <2>1, ConcatProperties
  <2>3. (calls \o one)[m + 1] = TopAdvanced /\ \A k \in 1..m : (calls \o one)[k] = calls[k]
    BY <1>1, <2>1, <2>2
  <2> QED
    BY <2>2, <2>3 DEF one
<1>8. /\ tr \o <<t>> \in Seq(Trail) /\ Len(tr \o <<t>>) = m + 1
      /\ \A k \in 1..m : (tr \o <<t>>)[k] = tr[k]
      /\ (tr \o <<t>>)[m + 1] = t
  <2> DEFINE one == <<t>>
  <2>1. one \in Seq(Trail) /\ Len(one) = 1 /\ one[1] = t
    BY <1>6
  <2> HIDE DEF one
  <2>2. /\ tr \o one \in Seq(Trail) /\ Len(tr \o one) = m + 1
        /\ \A k \in 1..(m + 1) : (tr \o one)[k] = IF k <= m THEN tr[k] ELSE one[k - m]
    <3>1. tr \in Seq(Trail) /\ one \in Seq(Trail) /\ Len(tr) = m /\ Len(one) = 1
      BY <1>5, <2>1
    <3>2. /\ tr \o one \in Seq(Trail) /\ Len(tr \o one) = Len(tr) + Len(one)
          /\ \A k \in 1..(Len(tr) + Len(one)) :
                (tr \o one)[k] = IF k <= Len(tr) THEN tr[k] ELSE one[k - Len(tr)]
      BY <3>1, ConcatProperties, Zenon
    <3> QED
      BY <3>1, <3>2
  <2>3. (tr \o one)[m + 1] = t /\ \A k \in 1..m : (tr \o one)[k] = tr[k]
    BY <1>1, <2>1, <2>2
  <2> QED
    BY <2>2, <2>3 DEF one
<1>9. \A k \in 1..m : /\ calls[k].file = Included(Line)[k] /\ calls[k].line = 0
                      /\ calls[k].depth = Top.depth + 1 /\ calls[k].ifExists = Optional(Line)
  <2> SUFFICES ASSUME NEW k \in 1..m
               PROVE  /\ calls[k].file = Included(Line)[k] /\ calls[k].line = 0
                      /\ calls[k].depth = Top.depth + 1 /\ calls[k].ifExists = Optional(Line)
    OBVIOUS
  <2>1. calls[k] = Unread(Included(Line)[k], Top.depth + 1, Optional(Line))
    BY <1>2
  <2> QED
    BY <2>1 DEF Unread
<1> QED
  BY <1>1, <1>5, <1>7, <1>8, <1>9 DEF m, calls, tr

LEMMA IncludeWalks ==
  ASSUME TypeInv, AtLine, ~NoFolder(Line), Line.word \in Includes \cup {"includeDir"},
         NEW ts, NEW V, NEW D, NEW pt, NEW src, Walk(work, ts, V, D, pt, src)
  PROVE  \E y : Walk((Calls(Line, Top.depth + 1) \o <<TopAdvanced>>) \o Tail(work), y, V, D, pt, src)
<1> DEFINE t == ts[1]
<1> DEFINE i == Top.line
<1> DEFINE m == Len(Included(Line))
<1> DEFINE n == Calls(Line, Top.depth + 1) \o <<TopAdvanced>>
<1> DEFINE us == [k \in 1..m |-> t \o <<i, k>>] \o <<t>>
<1> DEFINE x == n \o Tail(work)
<1> DEFINE y == us \o Tail(ts)
<1> DEFINE place == Place(Top, t)
<1>1. AtPlaces(work, ts) /\ InOrder(work, ts) /\ Complete(work, ts, V, D) /\ Passed(work, ts, D)
      /\ LastRead(pt, src, D)
  BY DEF Walk
<1>2. /\ disk[place.file][i] = Line /\ i \in Lines(place) /\ Reading
      /\ Top.depth \in 0..MaxIncludeDepth /\ place.trail = t
  <2>1. place.trail = t
    BY DEF Place
  <2> HIDE DEF t
  <2> QED
    BY <2>1, LineOfPlace
<1>3. /\ t \in Trail /\ i \in Nat /\ i > 0 /\ Top = work[1] /\ 1 \in 1..Len(work)
      /\ place \in Places[Top.depth] /\ Len(work) \in Nat \ {0}
      /\ work \in Seq(Frames) /\ work # <<>> /\ ts \in Seq(Trail) /\ Len(ts) = Len(work)
      /\ \A j \in 1..Len(work) : Cursor(work[j], ts[j]) \in Trail
  BY <1>1, <1>2, TopWalks, TopIs DEF AtLine
<1>4. /\ m \in Nat /\ n \in Seq(Frames) /\ us \in Seq(Trail)
      /\ Len(n) = m + 1 /\ Len(us) = m + 1
      /\ n[m + 1] = TopAdvanced /\ us[m + 1] = t
      /\ \A k \in 1..m : /\ n[k].file = Included(Line)[k] /\ n[k].line = 0
                         /\ n[k].depth = Top.depth + 1 /\ n[k].ifExists = Optional(Line)
                         /\ us[k] = t \o <<i, k>>
  <2>1. t \in Trail
    BY <1>3
  <2> HIDE DEF t
  <2> QED
    BY <2>1, CalledIs
<1>5. TopAdvanced.line = i + 1 /\ TopAdvanced.file = Top.file /\ TopAdvanced.depth = Top.depth
      /\ TopAdvanced.ifExists = Top.ifExists
  BY <1>2, AdvancedIs
<1> HIDE DEF n, us
<1>6. Shifted(work, ts, n, us, x, y)
  BY <1>3, <1>4, Shift
<1> HIDE DEF x, y
<1>7. Place(n[m + 1], us[m + 1]) = place
  BY <1>4, <1>5 DEF Place
<1>8. ASSUME NEW k \in 1..m
      PROVE  Place(n[k], us[k]) \in Below(place, i)
  <2>1. Place(n[k], us[k]) = [trail |-> place.trail \o <<i, k>>, file |-> Included(Line)[k],
                              ifExists |-> Optional(Line)]
    BY <1>2, <1>4 DEF Place
  <2> HIDE DEF place, i
  <2> QED
    BY <1>2, <2>1 DEF Below
<1>9. Below(place, i) \subseteq Places[Top.depth + 1]
  <2>1. Below(place, i) \subseteq Inner(Places[Top.depth])
    <3> HIDE DEF place, i
    <3> QED
      BY <1>2, <1>3 DEF Inner
  <2>2. Places[Top.depth + 1] = Inner(Places[Top.depth])
    BY <1>2, PlacesAre
  <2> QED
    BY <2>1, <2>2
<1> HIDE DEF place, m, t, i
<1>10. ASSUME NEW k \in 1..Len(n)
       PROVE  Place(n[k], us[k]) \in Places[n[k].depth]
  <2>1. CASE k = m + 1
    BY <1>3, <1>4, <1>5, <1>7, <2>1
  <2>2. CASE k # m + 1
    <3>1. k \in 1..m
      BY <1>4, <2>2
    <3> QED
      BY <1>4, <1>8, <1>9, <3>1
  <2> QED
    BY <2>1, <2>2
<1>11. \A k \in 1..m : us[k] = (t \o <<i>>) \o <<k>> /\ Cursor(n[k], us[k]) = us[k]
  <2> SUFFICES ASSUME NEW k \in 1..m
               PROVE  us[k] = (t \o <<i>>) \o <<k>> /\ Cursor(n[k], us[k]) = us[k]
    OBVIOUS
  <2>1. k \in Nat
    BY <1>4
  <2>2. t \o <<i, k>> = (t \o <<i>>) \o <<k>>
    BY <1>3, <2>1, Pairs
  <2> QED
    BY <1>4, <2>2 DEF Cursor
<1>12. Cursor(n[m + 1], us[m + 1]) = t \o <<i + 1>>
  BY <1>3, <1>4, <1>5 DEF Cursor
<1>13. t \o <<i>> \in Trail /\ t \o <<i + 1>> \in Trail
  <2>1. \A j \in Nat : t \o <<j>> \in Trail
    BY <1>3, Pairs
  <2>2. i + 1 \in Nat
    BY <1>3
  <2> QED
    BY <1>3, <2>1, <2>2
<1>14. ASSUME NEW k \in 1..Len(n), NEW l \in 1..Len(n), k < l
       PROVE  Before(us[k], Cursor(n[l], us[l]))
  <2>1. k \in 1..m /\ k \in Nat /\ l \in Nat
    BY <1>4, <1>14
  <2>2. CASE l = m + 1
    <3>1. Before(t \o <<i>>, t \o <<i + 1>>)
      BY <1>3, BeforeNext
    <3>2. <<k>> \in Trail
      BY <2>1 DEF Trail
    <3>3. Before((t \o <<i>>) \o <<k>>, t \o <<i + 1>>)
      BY <1>13, <3>1, <3>2, BeforeExtends
    <3> QED
      BY <1>11, <1>12, <2>1, <2>2, <3>3
  <2>3. CASE l # m + 1
    <3>1. l \in 1..m
      BY <1>4, <2>3
    <3>2. Before((t \o <<i>>) \o <<k>>, (t \o <<i>>) \o <<l>>)
      BY <1>13, <1>14, <2>1, BeforeNext
    <3> QED
      BY <1>11, <2>1, <3>1, <3>2
  <2> QED
    BY <2>2, <2>3
<1>15. ASSUME NEW k \in 1..Len(n)
       PROVE  \E v \in Trail : us[k] = ts[1] \o v
  <2>1. CASE k = m + 1
    <3>1. t = t \o <<>> /\ <<>> \in Trail
      BY <1>3, ConcatEmptySeq, EmptySeq DEF Trail
    <3> QED
      BY <1>4, <2>1, <3>1 DEF t
  <2>2. CASE k # m + 1
    <3>1. k \in 1..m /\ k \in Nat
      BY <1>4, <2>2
    <3>2. <<i, k>> \in Trail
      BY <1>3, <3>1 DEF Trail
    <3>3. us[k] = t \o <<i, k>>
      BY <1>4, <3>1
    <3> QED
      BY <3>2, <3>3 DEF t
  <2> QED
    BY <2>1, <2>2
<1>16. AtPlaces(x, y) /\ InOrder(x, y)
  BY <1>1, <1>3, <1>4, <1>6, <1>10, <1>14, <1>15, ShiftedWalk
<1>17. \A k \in 1..Len(n) : Covered(x, y, V, n[k].depth, Place(n[k], us[k]))
  BY <1>6, StillCovered
<1>18. Covered(x, y, V, work[1].depth, Place(work[1], ts[1]))
  <2>1. m + 1 \in 1..Len(n)
    BY <1>4
  <2> QED
    BY <1>3, <1>4, <1>5, <1>7, <1>17, <2>1 DEF place, t
<1>19. \A d, p : Covered(work, ts, V, d, p) => Covered(x, y, V, d, p)
  <2>1. V \subseteq V
    OBVIOUS
  <2> QED
    BY <1>6, <1>18, <2>1, ShiftedCovered
<1>20. LineDone(x, y, V, D, Top.depth, place, i)
  <2>1. ~Wrong(Line) /\ Line.word # "port"
    BY DEF Wrong, Includes
  <2>2. ASSUME NEW c \in Below(place, i)
        PROVE  Covered(x, y, V, Top.depth + 1, c)
    <3>1. PICK k \in 1..m : c = [trail |-> place.trail \o <<i, k>>, file |-> Included(Line)[k],
                                 ifExists |-> Optional(Line)]
      BY <1>2 DEF Below, m
    <3>2. /\ n[k].file = Included(Line)[k] /\ n[k].depth = Top.depth + 1
          /\ n[k].ifExists = Optional(Line) /\ us[k] = t \o <<i, k>>
      BY <1>4
    <3>3. c = Place(n[k], us[k])
      BY <1>2, <3>1, <3>2 DEF Place
    <3>4. k \in 1..Len(n)
      BY <1>4
    <3>5. Covered(x, y, V, n[k].depth, Place(n[k], us[k]))
      BY <1>17, <3>4
    <3> QED
      BY <3>2, <3>3, <3>5
  <2> QED
    BY <1>2, <2>1, <2>2 DEF LineDone
<1>21. ASSUME NEW k \in 1..Len(n), NEW j \in 1..(n[k].line - 1)
       PROVE  LineDone(x, y, V, D, n[k].depth, Place(n[k], us[k]), j)
  <2>1. k = m + 1
    <3>1. k \notin 1..m
      <4> SUFFICES ASSUME k \in 1..m
                   PROVE  FALSE
        OBVIOUS
      <4>1. n[k].line = 0
        BY <1>4
      <4> QED
        BY <1>21, <4>1
    <3>2. k \in 1..(m + 1)
      BY <1>4
    <3> QED
      BY <1>4, <3>1, <3>2
  <2>2. n[k] = TopAdvanced /\ j \in 1..i /\ Place(n[k], us[k]) = place
    BY <1>3, <1>4, <1>5, <1>7, <2>1
  <2>3. CASE j = i
    BY <1>5, <1>20, <2>2, <2>3
  <2>4. CASE j # i
    <3>1. j \in 1..(work[1].line - 1)
      BY <1>3, <2>2, <2>4 DEF i
    <3>2. LineDone(work, ts, V, D, Top.depth, place, j)
      BY <1>1, <1>3, <3>1 DEF Complete, place, t
    <3>3. D \subseteq D
      OBVIOUS
    <3> QED
      BY <1>5, <1>19, <2>2, <3>2, <3>3, LineStaysDone
  <2> QED
    BY <2>3, <2>4
<1>22. Complete(x, y, V, D)
  <2>1. V \subseteq V /\ D \subseteq D /\ \A d, p : <<d, p>> \notin V \ V
    OBVIOUS
  <2> QED
    BY <1>1, <1>6, <1>18, <1>21, <2>1, ShiftedComplete
<1>23. ASSUME NEW z \in D, NEW k \in 1..Len(n)
       PROVE  Before(z.trail, Cursor(n[k], us[k]))
  <2>1. z.trail \in Trail /\ Before(z.trail, t \o <<i>>)
    <3>1. Cursor(work[1], ts[1]) = t \o <<i>>
      BY <1>3 DEF Cursor, t, i
    <3> QED
      BY <1>1, <1>3, <3>1 DEF Passed
  <2>2. CASE k = m + 1
    BY <1>3, <1>12, <2>1, <2>2, BeforeLater
  <2>3. CASE k # m + 1
    <3>1. k \in 1..m /\ <<k>> \in Trail
      BY <1>4, <2>3 DEF Trail
    <3>2. Before(z.trail, (t \o <<i>>) \o <<k>>)
      BY <1>13, <2>1, <3>1, BeforeExtends
    <3> QED
      BY <1>11, <3>1, <3>2
  <2> QED
    BY <2>2, <2>3
<1>24. Passed(x, y, D)
  BY <1>1, <1>6, <1>23, ShiftedPassed
<1>25. Walk(x, y, V, D, pt, src)
  BY <1>1, <1>16, <1>22, <1>24 DEF Walk
<1> QED
  BY <1>25 DEF x, n

-----------------------------------------------------------------------------
(* The walk is kept by every step. *)

LEMMA RootsAre ==
  /\ [trail |-> <<1>>, file |-> "conf", ifExists |-> "no"] \in Roots
  /\ [trail |-> <<2>>, file |-> "auto", ifExists |-> "yes"] \in Roots
  /\ \A p \in Roots : \/ p = [trail |-> <<1>>, file |-> "conf", ifExists |-> "no"]
                     \/ p = [trail |-> <<2>>, file |-> "auto", ifExists |-> "yes"]
BY DEF Roots

LEMMA InitWalks == Init => WalkInv
<1> SUFFICES ASSUME Init
             PROVE  WalkInv
  OBVIOUS
<1> DEFINE one == <<1>>
<1> DEFINE two == <<2>>
<1> DEFINE ts == <<one, two>>
<1>1. /\ Len(work) = 2 /\ work[1] = Unread("conf", 0, "no") /\ work[2] = Unread("auto", 0, "yes")
      /\ port = defaultPort /\ source = "default"
  BY DEF Init
<1>2. one \in Trail /\ two \in Trail
  BY DEF Trail
<1>3. ts \in Seq(Trail) /\ Len(ts) = 2 /\ ts[1] = one /\ ts[2] = two
  BY <1>2
<1>4. Before(one, two)
  BY DEF Before
<1>5. /\ Place(work[1], ts[1]) = [trail |-> one, file |-> "conf", ifExists |-> "no"]
      /\ Place(work[2], ts[2]) = [trail |-> two, file |-> "auto", ifExists |-> "yes"]
      /\ work[1].depth = 0 /\ work[2].depth = 0 /\ work[1].line = 0 /\ work[2].line = 0
  BY <1>1, <1>3 DEF Place, Unread
<1>6. Place(work[1], ts[1]) \in Roots /\ Place(work[2], ts[2]) \in Roots
  BY <1>5, RootsAre
<1>7. \A p \in Roots : p = Place(work[1], ts[1]) \/ p = Place(work[2], ts[2])
  BY <1>5, RootsAre
<1> HIDE DEF one, two, ts
<1>8. AtPlaces(work, ts)
  <2>1. Places[0] = Roots
    BY PlacesAre
  <2>2. \A j \in 1..Len(work) : j = 1 \/ j = 2
    BY <1>1
  <2>3. \A j \in 1..Len(work) : Place(work[j], ts[j]) \in Places[work[j].depth]
    BY <1>5, <1>6, <2>1, <2>2
  <2> QED
    BY <1>1, <1>3, <2>3 DEF AtPlaces
<1>9. InOrder(work, ts)
  <2>1. \A i, j \in 1..Len(work) : i < j => i = 1 /\ j = 2
    BY <1>1
  <2>2. Before(ts[1], Cursor(work[2], ts[2]))
    BY <1>3, <1>4, <1>5 DEF Cursor
  <2> QED
    BY <2>1, <2>2 DEF InOrder
<1>10. Complete(work, ts, {}, {})
  <2>1. 1 \in 1..Len(work) /\ 2 \in 1..Len(work)
    BY <1>1
  <2>2. \A p \in Roots : Covered(work, ts, {}, 0, p)
    BY <1>5, <1>7, <2>1 DEF Covered
  <2>3. \A j \in 1..Len(work) : \A i \in 1..(work[j].line - 1) : FALSE
    <3>1. \A j \in 1..Len(work) : j = 1 \/ j = 2
      BY <1>1
    <3>2. \A j \in 1..Len(work) : work[j].line = 0
      BY <1>5, <3>1
    <3> QED
      BY <3>2
  <2> QED
    BY <2>2, <2>3 DEF Complete
<1>11. Passed(work, ts, {})
  BY DEF Passed
<1>12. LastRead(port, source, {})
  BY <1>1 DEF LastRead
<1>13. Walk(work, ts, {}, {}, port, source)
  BY <1>8, <1>9, <1>10, <1>11, <1>12 DEF Walk
<1> QED
  BY <1>13 DEF WalkInv

\* No step writes to the disk, so the places stay what they are.
LEMMA DiskStays == [Next]_vars => disk' = disk
BY DEF Next, Open, SetPort, Include, PassOver, EndOfFile, Finish, vars

LEMMA SameLines ==
  ASSUME disk' = disk
  PROVE  /\ \A p : (Exists(p)' <=> Exists(p)) /\ Lines(p)' = Lines(p)
         /\ \A p, i : Below(p, i)' = Below(p, i) /\ PortLine(p, i)' = PortLine(p, i)
BY DEF Exists, Lines, Below, PortLine

LEMMA PlacesStayPlaces ==
  (/\ DOMAIN Places = 0..Limit /\ Places[0] = Roots
   /\ \A d \in 0..MaxIncludeDepth : Places[d + 1] = Inner(Places[d]))'
BY PlacesAre, PTL

LEMMA SamePlaces ==
  ASSUME disk' = disk
  PROVE  (DOMAIN Places)' = 0..Limit /\ \A d \in 0..Limit : Places'[d] = Places[d]
<1> DEFINE S == {d \in Nat : d \in 0..Limit => Places'[d] = Places[d]}
<1>1. \A places : UNION {UNION {Below(p, i)' : i \in Lines(p)'} : p \in places} = Inner(places)
  BY SameLines DEF Inner
<1>2. /\ (DOMAIN Places)' = 0..Limit /\ Places'[0] = Roots
      /\ \A d \in 0..MaxIncludeDepth :
            Places'[d + 1] = UNION {UNION {Below(p, i)' : i \in Lines(p)'} : p \in Places'[d]}
  BY PlacesStayPlaces DEF Inner
<1>3. \A d \in 0..MaxIncludeDepth : Places'[d + 1] = Inner(Places'[d])
  BY <1>1, <1>2
<1>4. 0 \in S
  BY <1>2, PlacesAre
<1>5. ASSUME NEW d \in Nat, d \in S
      PROVE  d + 1 \in S
  <2> SUFFICES ASSUME d + 1 \in 0..Limit
               PROVE  Places'[d + 1] = Places[d + 1]
    OBVIOUS
  <2>1. d \in 0..MaxIncludeDepth /\ d \in 0..Limit
    BY DepthAssumption DEF Limit
  <2>2. Places'[d] = Places[d]
    BY <1>5, <2>1
  <2> QED
    BY <1>3, <2>1, <2>2, PlacesAre
<1>6. \A d \in Nat : d \in S
  <2> HIDE DEF S
  <2> QED
    BY <1>4, <1>5, SetInduction
<1> QED
  BY <1>2, <1>6

LEMMA SamePorts ==
  ASSUME disk' = disk
  PROVE  PortLines' = PortLines
<1>1. /\ (DOMAIN Places)' = 0..Limit /\ DOMAIN Places = 0..Limit
      /\ \A d \in 0..Limit : Places'[d] = Places[d]
  BY SamePlaces, PlacesAre
<1> DEFINE of(p) == {PortLine(p, i) : i \in {j \in Lines(p) : disk[p.file][j].word = "port"}}
<1>2. \A p : of(p)' = of(p)
  BY SameLines
<1>3. PortLines = UNION {UNION {of(p) : p \in Places[d]} : d \in DOMAIN Places}
  BY DEF PortLines
<1>4. PortLines' = UNION {UNION {of(p)' : p \in Places'[d]} : d \in (DOMAIN Places)'}
  BY DEF PortLines
<1> HIDE DEF of
<1>5. PortLines' = UNION {UNION {of(p) : p \in Places'[d]} : d \in 0..Limit}
  BY <1>1, <1>2, <1>4
<1> QED
  BY <1>1, <1>3, <1>5

\* What a refusal is about: files PostgreSQL does not start on, or a port line out of range.
BadPort == \E line \in PortLines : line.port \notin PostgresPorts
Judged == Unusable \/ BadPort

LEMMA SameJudged ==
  ASSUME disk' = disk
  PROVE  Judged' <=> Judged
<1>1. /\ (DOMAIN Places)' = 0..Limit /\ DOMAIN Places = 0..Limit
      /\ \A d \in 0..Limit : Places'[d] = Places[d]
      /\ MaxIncludeDepth + 1 \in 0..Limit
  BY SamePlaces, PlacesAre, DepthAssumption DEF Limit
<1>2. /\ \A p : (Exists(p)' <=> Exists(p)) /\ Lines(p)' = Lines(p)
      /\ \A p, i : Wrong(disk[p.file][i])' <=> Wrong(disk[p.file][i])
  BY SameLines DEF Wrong, NoFolder
<1>3. PortLines' = PortLines
  BY SamePorts
<1>4. \A line : IsLast(line)' <=> IsLast(line)
  BY <1>3 DEF IsLast
<1>5. TooDeep' = TooDeep
  BY <1>1 DEF TooDeep
<1>6. Broken' <=> Broken
  <2> DEFINE Bad(p) == \/ ~Exists(p) /\ p.ifExists = "no"
                       \/ \E i \in Lines(p) : Wrong(disk[p.file][i])
  <2> DEFINE Files == \E d \in DOMAIN Places : \E p \in Places[d] : Bad(p)
  <2> DEFINE Last == \E line \in PortLines : IsLast(line) /\ line.port \notin PostgresPorts
  <2>1. \A p : Bad(p)' <=> Bad(p)
    BY <1>2
  <2>2. Last' <=> Last
    BY <1>3, <1>4, Zenon
  <2>3. Files' <=> Files
    <3> HIDE DEF Bad
    <3> QED
      BY <1>1, <2>1
  <2>4. Broken <=> Files \/ Last
    BY DEF Broken
  <2>5. Broken' <=> Files' \/ Last'
    BY DEF Broken
  <2> HIDE DEF Files, Last
  <2> QED
    BY <2>2, <2>3, <2>4, <2>5
<1>7. BadPort' <=> BadPort
  BY <1>3, Zenon DEF BadPort
<1>8. Unusable' <=> Unusable
  BY <1>5, <1>6, Zenon DEF Unusable
<1> QED
  BY <1>7, <1>8, Zenon DEF Judged

LEMMA WalkKept ==
  ASSUME disk' = disk, TypeInv', NEW ts, NEW V, NEW D, Walk(work', ts, V, D, port', source')
  PROVE  WalkInv'
<1>1. \A d \in 0..Limit : Places'[d] = Places[d]
  BY SamePlaces
<1>2. \A j \in 1..Len(work') : work'[j].depth \in 0..Limit
  <2>1. work' \in Seq(Frame)
    BY DEF TypeInv, TypeOK
  <2>2. \A j \in 1..Len(work') : work'[j] \in Frame
    BY <2>1
  <2> QED
    BY <2>2 DEF Frame, Limit
<1>3. AtPlaces(work, ts)'
  BY <1>1, <1>2 DEF Walk, AtPlaces, Place
<1>4. InOrder(work, ts)'
  BY DEF Walk, InOrder, Cursor
<1>5. \A d, p : Covered(work, ts, V, d, p)' <=> Covered(work', ts, V, d, p)
  BY DEF Covered, Place
<1>6. \A d, p, i : LineDone(work', ts, V, D, d, p, i) => LineDone(work, ts, V, D, d, p, i)'
  BY <1>5, SameLines DEF LineDone, Wrong, NoFolder
<1>7. \A d, p : PlaceDone(work', ts, V, D, d, p) => PlaceDone(work, ts, V, D, d, p)'
  BY <1>6, SameLines DEF PlaceDone
<1>8. Complete(work, ts, V, D)'
  BY <1>1, <1>5, <1>6, <1>7 DEF Walk, Complete, Place
<1>9. Passed(work, ts, D)'
  BY SamePorts DEF Walk, Passed, Cursor
<1>10. LastRead(port, source, D)'
  BY DEF Walk, LastRead
<1>11. Walk(work, ts, V, D, port, source)'
  BY <1>3, <1>4, <1>8, <1>9, <1>10 DEF Walk
<1> QED
  BY <1>11 DEF WalkInv

LEMMA OpenWalks ==
  ASSUME TypeInv, Open, NEW ts, NEW V, NEW D, Walk(work, ts, V, D, port, source)
  PROVE  \E y, W, E : Walk(work', y, W, E, port', source')
<1>1. Reading /\ Top.line = 0 /\ UNCHANGED <<disk, port, source>>
  BY OpenIs
<1>2. CASE Refuses
  BY <1>1, <1>2 DEF Refuses
<1>3. CASE disk[Top.file] = Missing /\ Top.ifExists = "yes" /\ Returns
  <2>1. PlaceDone(work, ts, V, D, Top.depth, Place(Top, ts[1]))
    BY <1>3 DEF PlaceDone, Place, Exists, Lines
  <2> QED
    BY <1>1, <1>3, <2>1, ReturnWalks DEF Returns
<1>4. CASE disk[Top.file] # Missing /\ Top.depth <= MaxIncludeDepth /\ Advances
  <2>1. \E y : Walk(<<TopAdvanced>> \o Tail(work), y, V, D, port, source)
    BY <1>1, <1>4, AdvancedIs, PassOverWalks
  <2> QED
    BY <1>1, <1>4, <2>1 DEF Advances
<1> QED
  BY <1>2, <1>3, <1>4, OpenIs

LEMMA EndWalks ==
  ASSUME TypeInv, EndOfFile, NEW ts, NEW V, NEW D, Walk(work, ts, V, D, port, source)
  PROVE  \E y, W, E : Walk(work', y, W, E, port', source')
<1> DEFINE place == Place(Top, ts[1])
<1>1. /\ Reading /\ Top.line = Len(disk[Top.file]) + 1 /\ Top.depth <= MaxIncludeDepth
      /\ disk[Top.file] # Missing /\ UNCHANGED <<disk, port, source>> /\ Returns
  BY EndOfFileIs
<1>2. Top.file \in File /\ Top = work[1] /\ 1 \in 1..Len(work) /\ Len(disk[Top.file]) \in Nat
  BY <1>1, TopIs, DiskIs
<1>3. Exists(place) /\ Lines(place) = 1..Len(disk[Top.file])
  BY <1>1 DEF Place, Exists, Lines
<1>4. \A i \in 1..(Top.line - 1) : LineDone(work, ts, V, D, Top.depth, place, i)
  BY <1>2 DEF Walk, Complete
<1>5. PlaceDone(work, ts, V, D, Top.depth, place)
  <2>1. \A i \in Lines(place) : i \in 1..(Top.line - 1)
    BY <1>1, <1>2, <1>3
  <2> HIDE DEF place
  <2> QED
    BY <1>1, <1>3, <1>4, <2>1 DEF PlaceDone
<1> QED
  BY <1>1, <1>5, ReturnWalks DEF Returns

LEMMA LineWalks ==
  ASSUME TypeInv, SetPort \/ Include \/ PassOver,
         NEW ts, NEW V, NEW D, Walk(work, ts, V, D, port, source)
  PROVE  \E y, W, E : Walk(work', y, W, E, port', source')
<1>1. CASE SetPort
  <2>1. AtLine /\ Line.word = "port"
    BY <1>1, SetPortIs
  <2>2. CASE Line.value \in Ports /\ port' = Line.value /\ source' = Top.file /\ Advances
    <3>1. \E y, E : Walk(<<TopAdvanced>> \o Tail(work), y, V, E, Line.value, Top.file)
      BY <2>1, <2>2, PortWalks
    <3> QED
      BY <2>2, <3>1 DEF Advances
  <2>3. CASE UNCHANGED <<port, source>> /\ Refuses
    BY <2>3 DEF Refuses
  <2> QED
    BY <1>1, <2>2, <2>3, SetPortIs
<1>2. CASE Include
  <2>1. CASE NoFolder(Line)
    BY <1>2, <2>1, IncludeIs DEF Refuses
  <2>2. CASE ~NoFolder(Line)
    <3>1. /\ AtLine /\ Line.word \in Includes \cup {"includeDir"} /\ UNCHANGED <<port, source>>
          /\ work' = (Calls(Line, Top.depth + 1) \o <<TopAdvanced>>) \o Tail(work)
      BY <1>2, <2>2, IncludeIs
    <3>2. \E y : Walk((Calls(Line, Top.depth + 1) \o <<TopAdvanced>>) \o Tail(work), y, V, D, port, source)
      BY <2>2, <3>1, IncludeWalks
    <3> QED
      BY <3>1, <3>2
  <2> QED
    BY <2>1, <2>2
<1>3. CASE PassOver
  <2>1. AtLine /\ Reading /\ UNCHANGED <<port, source>>
    BY <1>3, PassOverIs DEF AtLine
  <2>2. CASE Refuses
    BY <2>1, <2>2 DEF Refuses
  <2>3. CASE Line.word = "other" /\ Advances
    <3>1. \E y : Walk(<<TopAdvanced>> \o Tail(work), y, V, D, port, source)
      BY <2>1, <2>3, AdvancedIs, PassOverWalks
    <3> QED
      BY <2>1, <2>3, <3>1 DEF Advances
  <2> QED
    BY <1>3, <2>2, <2>3, PassOverIs
<1> QED
  BY <1>1, <1>2, <1>3

LEMMA WalkStep == TypeInv /\ WalkInv /\ [Next]_vars => WalkInv'
<1> SUFFICES ASSUME TypeInv, WalkInv, [Next]_vars
             PROVE  WalkInv'
  OBVIOUS
<1>1. PICK ts, V, D : Walk(work, ts, V, D, port, source)
  BY DEF WalkInv
<1>2. \E y, W, E : Walk(work', y, W, E, port', source')
  <2>1. CASE Finish \/ UNCHANGED vars
    BY <1>1, <2>1 DEF Finish, vars
  <2> QED
    BY <1>1, <2>1, OpenWalks, EndWalks, LineWalks DEF Next
<1>3. disk' = disk /\ TypeInv'
  BY DiskStays, TypedStep
<1> QED
  BY <1>2, <1>3, WalkKept

-----------------------------------------------------------------------------
(* What the verdicts say. *)

RefusedInv == verdict = "refused" => Judged

LEMMA PortsAre == Ports = PostgresPorts
BY DEF Ports, PostgresPorts

\* A frame's place is one of those the files are judged by.
LEMMA TopIsJudged ==
  ASSUME TypeInv, WalkInv, Reading,
         \/ disk[Top.file] = Missing /\ Top.ifExists = "no"
         \/ disk[Top.file] # Missing /\ Top.depth > MaxIncludeDepth
         \/ AtLine /\ (Wrong(Line) \/ (Line.word = "port" /\ Line.value \notin Ports))
  PROVE  Judged
<1>1. PICK ts, V, D : Walk(work, ts, V, D, port, source)
  BY DEF WalkInv
<1> DEFINE place == Place(Top, ts[1])
<1>2. place \in Places[Top.depth] /\ Top.depth \in 0..Limit
  BY <1>1, TopIs, TopWalks DEF Walk
<1>3. Top.depth \in DOMAIN Places
  BY <1>2, PlacesAre
<1>4. place.file = Top.file /\ place.ifExists = Top.ifExists
  BY DEF Place
<1>5. AtLine => disk[place.file][Top.line] = Line /\ Top.line \in Lines(place)
  BY LineOfPlace
<1> HIDE DEF place
<1>6. CASE disk[Top.file] = Missing /\ Top.ifExists = "no"
  BY <1>2, <1>3, <1>4, <1>6 DEF Judged, Unusable, Broken, Exists
<1>7. CASE disk[Top.file] # Missing /\ Top.depth > MaxIncludeDepth
  <2>1. Top.depth = MaxIncludeDepth + 1
    BY <1>2, <1>7, DepthAssumption DEF Limit
  <2> QED
    BY <1>2, <2>1 DEF Judged, Unusable, TooDeep
<1>8. CASE AtLine /\ Wrong(Line)
  BY <1>2, <1>3, <1>5, <1>8 DEF Judged, Unusable, Broken
<1>9. CASE AtLine /\ Line.word = "port" /\ Line.value \notin Ports
  <2> DEFINE line == PortLine(place, Top.line)
  <2>1. line \in PortLines
    BY <1>2, <1>3, <1>5, <1>9 DEF PortLines
  <2>2. line.port \notin PostgresPorts
    BY <1>5, <1>9, PortsAre DEF PortLine
  <2> HIDE DEF line
  <2> QED
    BY <2>1, <2>2 DEF Judged, BadPort
<1> QED
  BY <1>6, <1>7, <1>8, <1>9

LEMMA RefusedStep == TypeInv /\ WalkInv /\ RefusedInv /\ [Next]_vars => RefusedInv'
<1> SUFFICES ASSUME TypeInv, WalkInv, RefusedInv, [Next]_vars, verdict' = "refused"
             PROVE  Judged'
  BY DEF RefusedInv
<1>0. disk' = disk
  BY DiskStays
<1> SUFFICES Judged
  BY <1>0, SameJudged, Zenon
<1>1. CASE verdict = "refused"
  BY <1>1 DEF RefusedInv
<1>2. CASE verdict # "refused"
  <2>1. CASE Open
    BY <1>2, <2>1, OpenIs, TopIsJudged DEF Returns, Advances
  <2>2. CASE SetPort
    <3>1. AtLine /\ Reading /\ Line.word = "port" /\ Line.value \notin Ports
      BY <1>2, <2>2, SetPortIs DEF Advances, AtLine
    <3> QED
      BY <3>1, TopIsJudged
  <2>3. CASE Include
    <3>1. AtLine /\ Reading /\ Wrong(Line)
      BY <1>2, <2>3, IncludeIs DEF Wrong, AtLine
    <3> QED
      BY <3>1, TopIsJudged
  <2>4. CASE PassOver
    <3>1. AtLine /\ Reading /\ Wrong(Line)
      BY <1>2, <2>4, PassOverIs DEF Advances, Wrong, AtLine
    <3> QED
      BY <3>1, TopIsJudged
  <2>5. CASE EndOfFile
    BY <1>2, <2>5, EndOfFileIs DEF Returns
  <2>6. CASE Finish \/ UNCHANGED vars
    BY <1>2, <2>6 DEF Finish, vars
  <2> QED
    BY <2>1, <2>2, <2>3, <2>4, <2>5, <2>6 DEF Next
<1> QED
  BY <1>1, <1>2

\* With the stack empty, everything the roots lead to is done with.
LEMMA AllDone ==
  ASSUME NEW w, Len(w) = 0, NEW ts, NEW V, NEW D, Complete(w, ts, V, D)
  PROVE  \A d \in 0..Limit : \A p \in Places[d] : PlaceDone(w, ts, V, D, d, p)
<1> DEFINE S == {d \in Nat : d \in 0..Limit => \A p \in Places[d] : <<d, p>> \in V}
<1>1. \A d, p : Covered(w, ts, V, d, p) => <<d, p>> \in V
  BY DEF Covered
<1>2. 0 \in S
  BY <1>1, PlacesAre DEF Complete
<1>3. ASSUME NEW d \in Nat, d \in S
      PROVE  d + 1 \in S
  <2> SUFFICES ASSUME d + 1 \in 0..Limit, NEW c \in Places[d + 1]
               PROVE  <<d + 1, c>> \in V
    OBVIOUS
  <2>1. d \in 0..MaxIncludeDepth /\ d \in 0..Limit
    BY DepthAssumption DEF Limit
  <2>2. c \in Inner(Places[d])
    BY <2>1, PlacesAre
  <2>3. PICK p \in Places[d] : \E i \in Lines(p) : c \in Below(p, i)
    BY <2>2 DEF Inner
  <2>4. PICK i \in Lines(p) : c \in Below(p, i)
    BY <2>3
  <2>5. PlaceDone(w, ts, V, D, d, p)
    BY <1>3, <2>1 DEF Complete
  <2>6. LineDone(w, ts, V, D, d, p, i)
    BY <2>4, <2>5 DEF PlaceDone
  <2> QED
    BY <1>1, <2>4, <2>6 DEF LineDone
<1>4. \A d \in Nat : d \in S
  <2> HIDE DEF S
  <2> QED
    BY <1>2, <1>3, SetInduction
<1>5. ASSUME NEW d \in 0..Limit
      PROVE  \A p \in Places[d] : <<d, p>> \in V
  <2>1. d \in Nat
    BY DepthAssumption DEF Limit
  <2>2. d \in S
    BY <1>4, <2>1
  <2> QED
    BY <2>2
<1> QED
  BY <1>5 DEF Complete

LEMMA ReadToTheEnd == TypeInv /\ WalkInv /\ RefusedInv => ReadsWhatPostgresReads
<1> SUFFICES ASSUME TypeInv, WalkInv, verdict = "read"
             PROVE  /\ ~Broken /\ \A place \in TooDeep : ~Exists(place)
                    /\ IF PortLines = {} THEN <<port, source>> = <<defaultPort, "default">>
                       ELSE \E line \in PortLines :
                              IsLast(line) /\ <<port, source>> = <<line.port, line.file>>
  BY DEF ReadsWhatPostgresReads, RefusedInv, Judged, BadPort
<1>1. PICK ts, V, D : Walk(work, ts, V, D, port, source)
  BY DEF WalkInv
<1>2. Len(work) = 0
  BY EmptySeq DEF TypeInv
<1>3. \A d \in 0..Limit : \A p \in Places[d] : PlaceDone(work, ts, V, D, d, p)
  BY <1>1, <1>2, AllDone DEF Walk
<1>4. DOMAIN Places = 0..Limit /\ Limit \in Nat /\ Limit \in 0..Limit /\ ~(Limit <= MaxIncludeDepth)
  BY PlacesAre, DepthAssumption DEF Limit
<1>5. PortLines = D
  <2>1. D \subseteq PortLines
    BY <1>1 DEF Walk, Passed
  <2>2. \A d \in DOMAIN Places : \A p \in Places[d] : \A i \in Lines(p) :
          disk[p.file][i].word = "port" => PortLine(p, i) \in D
    BY <1>3, <1>4 DEF PlaceDone, LineDone
  <2>3. PortLines \subseteq D
    BY <2>2 DEF PortLines
  <2> QED
    BY <2>1, <2>3
<1>6. /\ LastRead(port, source, PortLines) /\ port \in Ports
  BY <1>1, <1>5 DEF Walk, TypeInv, TypeOK
<1>7. \A line \in PortLines : IsLast(line) => line.port = port
  <2> SUFFICES ASSUME NEW line \in PortLines, IsLast(line)
               PROVE  line.port = port
    OBVIOUS
  <2>1. PICK last \in PortLines :
          port = last.port /\ \A other \in PortLines \ {last} : Before(other.trail, last.trail)
    BY <1>6 DEF LastRead
  <2>2. line.trail \in Trail /\ last.trail \in Trail
    BY <1>1, <1>5, <2>1 DEF Walk, Passed
  <2>3. line # last => Before(line.trail, last.trail) /\ Before(last.trail, line.trail)
    BY <2>1 DEF IsLast
  <2> QED
    BY <2>1, <2>2, <2>3, BeforeOneWay
<1>8. \A place \in TooDeep : ~Exists(place)
  BY <1>3, <1>4 DEF PlaceDone, TooDeep, Limit
<1>9. ~Broken
  <2>1. \A d \in DOMAIN Places : \A p \in Places[d] : ~Exists(p) => p.ifExists # "no"
    BY <1>3, <1>4 DEF PlaceDone
  <2>2. \A d \in DOMAIN Places : \A p \in Places[d] : \A i \in Lines(p) : ~Wrong(disk[p.file][i])
    BY <1>3, <1>4 DEF PlaceDone, LineDone
  <2>3. \A line \in PortLines : IsLast(line) => line.port \in PostgresPorts
    BY <1>6, <1>7, PortsAre
  <2> QED
    BY <2>1, <2>2, <2>3 DEF Broken
<1> QED
  BY <1>6, <1>8, <1>9 DEF LastRead, IsLast

-----------------------------------------------------------------------------
(* The theorems. *)

\* The calls of read on the stack (confReader.read, readIfExists, readDir) are of files of
\* the folder, nested no deeper than maxIncludeDepth once a line of theirs is read, and the
\* port they set is one PostgreSQL accepts.
THEOREM StackIsTyped == Spec => []TypeOK
<1>1. TypeInv => TypeOK
  BY DEF TypeInv
<1> QED
  BY <1>1, InitTyped, TypedStep, PTL DEF Spec

\* Wherever configuredPort answers, for any files included in any way, it answers the last port
\* line of all in the order PostgreSQL reads them, or the default if there is none, and no
\* file is broken; it refuses only files PostgreSQL does not start on and files that hold a
\* port line out of range.
THEOREM ReaderAgreesWithPostgres == Spec => []ReadsWhatPostgresReads
<1>1. Init => RefusedInv
  BY DEF Init, RefusedInv
<1> QED
  BY <1>1, InitTyped, InitWalks, TypedStep, WalkStep, RefusedStep, ReadToTheEnd, PTL DEF Spec
=============================================================================
