--------------------------- MODULE LogRotationProofs ---------------------------
(***************************************************************************)
(* Proofs about the rotating log file, for every size, number of files,    *)
(* clock and number of restarts.                                           *)
(***************************************************************************)
EXTENDS LogRotation, TLAPS, FiniteSetTheorems, SequenceTheorems

-----------------------------------------------------------------------------
(* The operators on files.                                                 *)

LEMMA Constants ==
    /\ MaxSize \in Nat \ {0}
    /\ MaxFiles \in Nat
    /\ MaxClock \in Nat
    /\ Idle = MaxFiles + 1
BY LogAssumption DEF Idle

LEMMA PutFacts ==
    ASSUME NEW f, NEW c, NEW fs
    PROVE  /\ \A g : g \in DOMAIN Put(f, c, fs) <=> g \in DOMAIN fs \/ g = f
           /\ Put(f, c, fs)[f] = c
           /\ \A g \in DOMAIN fs : g # f => Put(f, c, fs)[g] = fs[g]
BY DEF Put

LEMMA WithoutFacts ==
    ASSUME NEW f, NEW fs
    PROVE  /\ \A g : g \in DOMAIN Without(f, fs) <=> g \in DOMAIN fs /\ g # f
           /\ \A g \in DOMAIN fs : g # f => Without(f, fs)[g] = fs[g]
BY DEF Without

\* The name of the file that is open is one of the names.
LEMMA OpenName ==
    ASSUME TypeOK
    PROVE  /\ name \in Names
           /\ name = <<name[1], 0>>
           /\ name[1] \in Seconds
BY Constants DEF TypeOK, Names

-----------------------------------------------------------------------------
(* Types.                                                                  *)

\* The first log file holds its header.
LEMMA InitialFile ==
    ASSUME Init
    PROVE  DOMAIN files = {name} /\ files[name] = <<Header>>
<1>1. DOMAIN <<>> = {}
  OBVIOUS
<1>2. Append(<<>>, Header) = <<Header>>
  OBVIOUS
<1>3. PICK fs : fs = <<>>
  OBVIOUS
<1>4. PICK c : c = <<Header>>
  OBVIOUS
<1>5. files = Put(name, c, fs)
  BY <1>1, <1>2, <1>3, <1>4 DEF Init, Opened, Content
<1>6. \A g : g \in DOMAIN files <=> g = name
  BY <1>1, <1>3, <1>5, PutFacts
<1>7. files[name] = c
  BY <1>5, PutFacts
<1> QED
  BY <1>4, <1>6, <1>7

LEMMA LogInit == Init => TypeOK
<1> SUFFICES ASSUME Init PROVE TypeOK
  OBVIOUS
<1>1. /\ 0 \in Seconds /\ Idle \in 0 .. Idle
      /\ name = <<0, 0>> /\ name \in Names /\ name \in Seconds \X {0}
  BY Constants DEF Init, Seconds, calc_filename, Names
<1>2. DOMAIN files = {name} /\ files[name] = <<Header>>
  BY InitialFile
<1>3. <<Header>> \in Seq(Nat)
  BY DEF Header
<1>4. DOMAIN files \subseteq Names /\ \A f \in DOMAIN files : files[f] \in Seq(Nat)
  BY <1>1, <1>2, <1>3
<1>5. name[1] <= clock
  BY <1>1 DEF Init
<1>6. clock \in Seconds /\ size \in Nat /\ next \in Nat \ {Header} /\ at \in 0 .. Idle
  BY <1>1 DEF Init, Header
<1>7. onDisk \in Nat /\ others \subseteq Nat \ {Header} /\ restarts \in Nat
  BY DEF Init
<1> QED
  BY <1>1, <1>4, <1>5, <1>6, <1>7 DEF TypeOK

\* A file is put: the contents stay typed.
LEMMA PutTyped ==
    ASSUME TypeOK, NEW f \in Names, NEW c \in Seq(Nat),
           NEW fs, DOMAIN fs \subseteq DOMAIN files, \A g \in DOMAIN fs : fs[g] = files[g],
           files' = Put(f, c, fs)
    PROVE  DOMAIN files' \subseteq Names /\ \A g \in DOMAIN files' : files'[g] \in Seq(Nat)
BY PutFacts DEF TypeOK


\* The file that is open exists when nothing is being rotated.
FileIsOpen == at = Idle => Exists(name)

LEMMA TickTypes == TypeOK /\ Tick => TypeOK'
<1> SUFFICES ASSUME TypeOK, Tick PROVE TypeOK'
  OBVIOUS
<1>1. clock' \in Seconds /\ name[1] <= clock'
  <2>1. name[1] \in Seconds /\ clock' = clock + 1 /\ clock < MaxClock /\ clock \in Seconds
    BY DEF Tick, TypeOK
  <2> QED
    BY <2>1, Constants DEF Seconds, TypeOK
<1> QED
  BY <1>1 DEF TypeOK, Tick

LEMMA WriteTypes == TypeOK /\ FileIsOpen /\ Write => TypeOK'
<1> SUFFICES ASSUME TypeOK, FileIsOpen, Write PROVE TypeOK'
  OBVIOUS
<1>1. Append(files[name], next) \in Seq(Nat)
  BY DEF TypeOK, FileIsOpen, Write, Exists
<1>2. name \in Names
  BY OpenName
<1>3. DOMAIN files' \subseteq Names /\ \A g \in DOMAIN files' : files'[g] \in Seq(Nat)
  BY <1>1, <1>2, PutTyped DEF Write
<1>4. size' \in Nat /\ next' \in Nat \ {Header}
  BY DEF TypeOK, Write, Header
<1> QED
  BY <1>3, <1>4 DEF TypeOK, Write

LEMMA StartRotationTypes == TypeOK /\ StartRotation => TypeOK'
<1> SUFFICES ASSUME TypeOK, StartRotation PROVE TypeOK'
  OBVIOUS
<1>1. at' \in 0 .. Idle
  BY Constants DEF StartRotation
<1>2. others' \subseteq Nat \ {Header}
  <2> SUFFICES ASSUME NEW m \in others' PROVE m \in Nat \ {Header}
    OBVIOUS
  <2>1. PICK f \in DOMAIN files : m \in Range(files[f]) /\ m # Header
    BY DEF StartRotation, MessagesIn
  <2>2. files[f] \in Seq(Nat)
    BY DEF TypeOK
  <2> QED
    BY <2>1, <2>2, ElementOfSeq DEF Range
<1> QED
  BY <1>1, <1>2 DEF TypeOK, StartRotation

\* The effect of a turn of the loop that finds a file to rename.
LEMMA Turn ==
    ASSUME TypeOK, Rename
    PROVE  /\ at \in 1 .. MaxFiles /\ at' = at - 1
           /\ clock' \in Seconds /\ clock' >= clock
           /\ <<clock, at - 1>> \in Names /\ <<clock', at>> \in Names
           /\ <<clock, at - 1>> # <<clock', at>>
           /\ IF Exists(<<clock, at - 1>>)
              THEN /\ \A g : g \in DOMAIN files' <=>
                         g \in DOMAIN files \ {<<clock, at - 1>>} \/ g = <<clock', at>>
                   /\ files'[<<clock', at>>] = files[<<clock, at - 1>>]
                   /\ \A g \in DOMAIN files' : g # <<clock', at>> => files'[g] = files[g]
              ELSE UNCHANGED <<clock, files>>
<1>1. at \in 1 .. MaxFiles /\ at' = at - 1
  BY DEF Rename
<1>2. clock' \in Seconds /\ clock' >= clock
  BY Constants DEF Rename, TypeOK, Seconds
<1>3. <<clock, at - 1>> \in Names /\ <<clock', at>> \in Names /\ <<clock, at - 1>> # <<clock', at>>
  BY <1>1, <1>2, Constants DEF Names, TypeOK
<1>4. ASSUME Exists(<<clock, at - 1>>)
      PROVE  /\ \A g : g \in DOMAIN files' <=>
                         g \in DOMAIN files \ {<<clock, at - 1>>} \/ g = <<clock', at>>
             /\ files'[<<clock', at>>] = files[<<clock, at - 1>>]
             /\ \A g \in DOMAIN files' : g # <<clock', at>> => files'[g] = files[g]
  <2>1. files' = Renamed(<<clock, at - 1>>, <<clock', at>>)
    BY <1>4 DEF Rename, Source, Target, Index, calc_filename
  <2> QED
    BY <2>1, PutFacts, WithoutFacts DEF Renamed
<1>5. ASSUME ~Exists(<<clock, at - 1>>) PROVE UNCHANGED <<clock, files>>
  BY <1>5 DEF Rename, Source, Target, Index, calc_filename
<1> QED
  BY <1>1, <1>2, <1>3, <1>4, <1>5

LEMMA RenameTypes == TypeOK /\ Rename => TypeOK'
<1> SUFFICES ASSUME TypeOK, Rename PROVE TypeOK'
  OBVIOUS
<1>1. at' \in 0 .. Idle /\ clock' \in Seconds /\ clock' >= clock
  BY Turn, Constants
<1>2. DOMAIN files' \subseteq Names /\ \A f \in DOMAIN files' : files'[f] \in Seq(Nat)
  BY Turn DEF TypeOK, Exists
<1>3. name[1] <= clock'
  <2>1. name[1] \in Int /\ clock \in Int /\ clock' \in Int /\ name[1] <= clock
    BY <1>1, Constants DEF TypeOK, Seconds
  <2> QED
    BY <2>1, <1>1
<1> QED
  BY <1>1, <1>2, <1>3 DEF TypeOK, Rename

\* The effect of two failed attempts: the target is gone, the open file empty.
LEMMA Failed ==
    ASSUME TypeOK, RenameFails
    PROVE  /\ at \in 1 .. MaxFiles
           /\ clock' \in Seconds /\ clock' >= clock
           /\ \A g : g \in DOMAIN files' <=>
                      g \in DOMAIN files \ {<<clock', at>>} \/ g = name
           /\ files'[name] = <<>>
           /\ \A g \in DOMAIN files' : g # name => files'[g] = files[g]
<1>1. /\ at \in 1 .. MaxFiles
      /\ files' = Put(name, <<>>, Without(<<clock', at>>, files))
  BY DEF RenameFails, Target, Index, calc_filename
<1>2. clock' \in Seconds /\ clock' >= clock
  BY Constants DEF RenameFails, TypeOK, Seconds
<1> QED
  BY <1>1, <1>2, PutFacts, WithoutFacts

LEMMA RenameFailsTypes == TypeOK /\ RenameFails => TypeOK'
<1> SUFFICES ASSUME TypeOK, RenameFails PROVE TypeOK'
  OBVIOUS
<1>1. <<>> \in Seq(Nat)
  OBVIOUS
<1>2. name \in Names
  BY OpenName
<1>3. DOMAIN files' \subseteq Names /\ \A f \in DOMAIN files' : files'[f] \in Seq(Nat)
  BY <1>1, <1>2, Failed DEF TypeOK
<1>4. size' \in Nat /\ next' \in Nat \ {Header} /\ at' \in 0 .. Idle /\ onDisk' \in Nat
  BY Constants DEF TypeOK, RenameFails, Header
<1>5. clock' \in Seconds /\ name[1] <= clock'
  <2>1. name[1] \in Int /\ clock \in Int /\ clock' \in Int /\ name[1] <= clock
    BY Failed, Constants DEF TypeOK, Seconds
  <2> QED
    BY <2>1, Failed
<1> QED
  BY <1>3, <1>4, <1>5 DEF TypeOK, RenameFails

LEMMA FinishRotationTypes == TypeOK /\ FinishRotation => TypeOK'
<1> SUFFICES ASSUME TypeOK, FinishRotation PROVE TypeOK'
  OBVIOUS
<1>1. Reopened \in Seq(Nat)
  BY DEF Reopened, Header, TypeOK
<1>2. name \in Names
  BY OpenName
<1>3. DOMAIN files' \subseteq Names /\ \A f \in DOMAIN files' : files'[f] \in Seq(Nat)
  BY <1>1, <1>2, PutTyped DEF FinishRotation
<1>4. size' \in Nat /\ next' \in Nat \ {Header} /\ at' \in 0 .. Idle /\ onDisk' \in Nat
  BY Constants DEF TypeOK, FinishRotation, Header
<1> QED
  BY <1>3, <1>4 DEF TypeOK, FinishRotation

-----------------------------------------------------------------------------
(* How large the files are.                                                *)

LEMMA MessagesFinite ==
    ASSUME NEW c \in Seq(Nat)
    PROVE  /\ IsFiniteSet(Messages(c))
           /\ Cardinality(Messages(c)) \in Nat
           /\ Cardinality(Messages(c)) <= Len(c)
<1>1. PICK n \in Nat : n = Len(c)
  OBVIOUS
<1>2. Messages(c) \in SUBSET (1 .. n)
  BY <1>1 DEF Messages
<1>3. IsFiniteSet(1 .. n) /\ Cardinality(1 .. n) = n
  BY FS_Interval
<1> QED
  BY <1>1, <1>2, <1>3, FS_Subset, FS_CardinalityType

\* A header is not a message, and what is logged is one.
LEMMA MessagesOfAppend ==
    ASSUME NEW c \in Seq(Nat), NEW x \in Nat
    PROVE  /\ x = Header => Cardinality(Messages(Append(c, x))) = Cardinality(Messages(c))
           /\ Cardinality(Messages(Append(c, x))) <= Cardinality(Messages(c)) + 1
<1>1. PICK d : d = Append(c, x)
  OBVIOUS
<1>2. /\ d \in Seq(Nat) /\ Len(d) = Len(c) + 1 /\ d[Len(c) + 1] = x
      /\ \A i \in 1 .. Len(c) : d[i] = c[i]
  BY <1>1
<1>3. CASE x = Header
  <2>1. Messages(d) = Messages(c)
    BY <1>2, <1>3 DEF Messages
  <2> QED
    BY <1>1, <1>3, <2>1, MessagesFinite
<1>4. CASE x # Header
  <2>1. PICK T : T = Messages(c) \cup {Len(c) + 1}
    OBVIOUS
  <2>2. Messages(d) = T
    BY <1>2, <1>4, <2>1 DEF Messages
  <2>3. Cardinality(T) <= Cardinality(Messages(c)) + 1
    <3>1. PICK S : S = Messages(c)
      OBVIOUS
    <3>2. IsFiniteSet(S) /\ Cardinality(S) \in Nat
      BY <3>1, MessagesFinite
    <3>3. PICK e : e = Len(c) + 1
      OBVIOUS
    <3>4. Cardinality(S \cup {e}) = IF e \in S THEN Cardinality(S) ELSE Cardinality(S) + 1
      BY <3>2, FS_AddElement
    <3>5. T = S \cup {e}
      BY <2>1, <3>1, <3>3
    <3> QED
      BY <3>1, <3>2, <3>4, <3>5
  <2> QED
    BY <1>1, <1>4, <2>2, <2>3
<1> QED
  BY <1>3, <1>4

LEMMA MessagesOfNew ==
    ASSUME NEW x \in Nat, NEW none, none = <<>>, NEW head, head = <<Header>>,
           NEW both, both = <<Header, x>>
    PROVE  /\ Cardinality(Messages(none)) = 0 /\ Len(none) = 0
           /\ Cardinality(Messages(head)) = 0 /\ Len(head) = 1
           /\ Cardinality(Messages(both)) <= 1 /\ Len(both) = 2
           /\ Cardinality(Messages(both)) \in Nat
<1>1. Messages(none) = {} /\ Messages(head) = {}
  BY DEF Messages
<1>2. Cardinality({}) = 0
  BY FS_EmptySet
<1>3. head \in Seq(Nat) /\ both \in Seq(Nat) /\ none \in Seq(Nat)
  BY EmptySeq DEF Header
<1>4. Messages(both) \subseteq {2}
  BY DEF Messages
<1>5. Cardinality(Messages(both)) <= 1
  <2>1. IsFiniteSet({2}) /\ Cardinality({2}) = 1
    BY FS_Singleton
  <2> QED
    BY <1>4, <2>1, FS_Subset
<1>6. Len(none) = 0 /\ Len(head) = 1 /\ Len(both) = 2
  OBVIOUS
<1> QED
  BY <1>1, <1>2, <1>3, <1>5, <1>6, MessagesFinite

\* What is left of a file is no longer than it was.
LEMMA MessagesOfPrefix ==
    ASSUME NEW c \in Seq(Nat), NEW n \in 0 .. Len(c)
    PROVE  /\ SubSeq(c, 1, n) \in Seq(Nat)
           /\ Len(SubSeq(c, 1, n)) <= Len(c)
           /\ Cardinality(Messages(SubSeq(c, 1, n))) <= Cardinality(Messages(c))
<1>1. PICK d : d = SubSeq(c, 1, n)
  OBVIOUS
<1>2. n \in Nat /\ n <= Len(c) /\ Len(c) \in Nat
  OBVIOUS
<1>3. d \in Seq(Nat) /\ Len(d) = n /\ \A i \in 1 .. n : d[i] = c[i]
  BY <1>1, <1>2, SubSeqProperties
<1>4. Messages(d) \subseteq Messages(c)
  BY <1>2, <1>3 DEF Messages
<1>5. Cardinality(Messages(d)) <= Cardinality(Messages(c))
  BY <1>4, MessagesFinite, FS_Subset
<1> QED
  BY <1>1, <1>2, <1>3, <1>5

-----------------------------------------------------------------------------
(* The end of the process and the next one.                                *)

\* The end of the process makes no file longer, and takes none away but the one
\* with the index that the rotation has reached.
LEMMA Left ==
    ASSUME TypeOK, FileIsOpen, NEW left \in LeftBehind
    PROVE  /\ DOMAIN left \subseteq DOMAIN files
           /\ \A g \in DOMAIN files : g \in DOMAIN left \/ (at \in 1 .. MaxFiles /\ g = <<clock, at>>)
           /\ \A g \in DOMAIN left : g # name => left[g] = files[g]
           /\ \A g \in DOMAIN left : /\ left[g] \in Seq(Nat)
                                     /\ Len(left[g]) <= Len(files[g])
                                     /\ Cardinality(Messages(left[g]))
                                            <= Cardinality(Messages(files[g]))
<1>1. \A g \in DOMAIN files : /\ files[g] \in Seq(Nat)
                              /\ Len(files[g]) \in Nat
                              /\ Cardinality(Messages(files[g])) \in Nat
  BY MessagesFinite DEF TypeOK
<1>2. CASE at = Idle
  <2>1. PICK n \in onDisk .. Len(files[name]) : left = Put(name, SubSeq(files[name], 1, n), files)
    BY <1>2 DEF LeftBehind, LeftOpen
  <2>2. PICK d : d = SubSeq(files[name], 1, n)
    OBVIOUS
  <2>3. name \in DOMAIN files
    BY <1>2 DEF FileIsOpen, Exists
  <2>4. n \in 0 .. Len(files[name])
    BY <1>1, <2>1, <2>3 DEF TypeOK
  <2>5. /\ d \in Seq(Nat)
        /\ Len(d) <= Len(files[name])
        /\ Cardinality(Messages(d)) <= Cardinality(Messages(files[name]))
    BY <1>1, <2>2, <2>3, <2>4, MessagesOfPrefix
  <2>6. /\ \A g : g \in DOMAIN left <=> g \in DOMAIN files \/ g = name
        /\ left[name] = d
        /\ \A g \in DOMAIN files : g # name => left[g] = files[g]
    <3>1. left = Put(name, d, files)
      BY <2>1, <2>2
    <3> QED
      BY <3>1, PutFacts
  <2>7. ASSUME NEW g \in DOMAIN left
        PROVE  /\ left[g] \in Seq(Nat)
               /\ Len(left[g]) <= Len(files[g])
               /\ Cardinality(Messages(left[g])) <= Cardinality(Messages(files[g]))
    <3>1. CASE g = name
      BY <2>5, <2>6, <3>1
    <3>2. CASE g # name
      <4>1. g \in DOMAIN files /\ left[g] = files[g]
        BY <2>6, <3>2
      <4>2. PICK k \in Nat : k = Len(files[g])
        BY <1>1, <4>1
      <4>3. PICK m \in Nat : m = Cardinality(Messages(files[g]))
        BY <1>1, <4>1
      <4> QED
        BY <1>1, <4>1, <4>2, <4>3
    <3> QED
      BY <3>1, <3>2
  <2> QED
    BY <2>3, <2>6, <2>7
<1>3. CASE at # Idle
  <2>1. left = files \/ (at > 0 /\ left = Without(<<clock, at>>, files))
    BY <1>3 DEF LeftBehind, LeftClosed, Target, Index, calc_filename
  <2>2. at > 0 => at \in 1 .. MaxFiles
    BY <1>3, Constants DEF TypeOK
  <2>3. /\ DOMAIN left \subseteq DOMAIN files
        /\ \A g \in DOMAIN files : g \in DOMAIN left \/ (at \in 1 .. MaxFiles /\ g = <<clock, at>>)
        /\ \A g \in DOMAIN left : left[g] = files[g]
    BY <2>1, <2>2, WithoutFacts
  <2>4. ASSUME NEW g \in DOMAIN left
        PROVE  /\ left[g] \in Seq(Nat)
               /\ Len(left[g]) <= Len(files[g])
               /\ Cardinality(Messages(left[g])) <= Cardinality(Messages(files[g]))
    <3>1. g \in DOMAIN files /\ left[g] = files[g]
      BY <2>3
    <3>2. PICK k \in Nat : k = Len(files[g])
      BY <1>1, <3>1
    <3>3. PICK m \in Nat : m = Cardinality(Messages(files[g]))
      BY <1>1, <3>1
    <3> QED
      BY <1>1, <3>1, <3>2, <3>3
  <2> QED
    BY <2>3, <2>4
<1> QED
  BY <1>2, <1>3

\* The effect of opening the log anew, on what was left.
LEMMA Anew ==
    ASSUME TypeOK, NEW left, DOMAIN left \subseteq DOMAIN files,
           \A g \in DOMAIN left : left[g] \in Seq(Nat),
           name' = calc_filename(clock, 0), files' = Opened(left, name')
    PROVE  /\ name' = <<clock, 0>> /\ name' \in Names
           /\ \A g : g \in DOMAIN files' <=> g \in DOMAIN left \/ g = name'
           /\ files'[name'] = Append(Content(left, name'), Header)
           /\ Content(left, name') \in Seq(Nat)
           /\ files'[name'] \in Seq(Nat)
           /\ \A g \in DOMAIN left : g # name' => files'[g] = left[g]
<1>1. name' = <<clock, 0>> /\ name' \in Names
  BY Constants DEF calc_filename, TypeOK, Names
<1>2. PICK f : f = name'
  OBVIOUS
<1>3. PICK c : c = Content(left, f)
  OBVIOUS
<1>4. PICK d : d = Append(c, Header) /\ files' = Put(f, d, left)
  BY <1>2, <1>3 DEF Opened
<1>5. c \in Seq(Nat) /\ d \in Seq(Nat)
  BY <1>3, <1>4, EmptySeq DEF Content, Header
<1>6. PICK fs : fs = files'
  OBVIOUS
<1>7. fs = Put(f, d, left)
  BY <1>4, <1>6
<1>8. /\ \A g : g \in DOMAIN fs <=> g \in DOMAIN left \/ g = f
      /\ fs[f] = d
      /\ \A g \in DOMAIN left : g # f => fs[g] = left[g]
  BY <1>7, PutFacts
<1> QED
  BY <1>1, <1>2, <1>3, <1>4, <1>5, <1>6, <1>8

\* A restart, with what was left named.
LEMMA Restarted ==
    ASSUME TypeOK, FileIsOpen, Restart
    PROVE  \E left \in LeftBehind :
               /\ name' = calc_filename(clock, 0) /\ files' = Opened(left, name')
               /\ size' = Len(Content(left, name')) /\ onDisk' = Len(Content(left, name'))
               /\ DOMAIN left \subseteq DOMAIN files
               /\ \A g \in DOMAIN left : left[g] \in Seq(Nat)
BY Left DEF Restart

LEMMA RestartTypes == TypeOK /\ FileIsOpen /\ Restart => TypeOK'
<1> SUFFICES ASSUME TypeOK, FileIsOpen, Restart PROVE TypeOK'
  OBVIOUS
<1>1. PICK left \in LeftBehind :
          /\ name' = calc_filename(clock, 0) /\ files' = Opened(left, name')
          /\ size' = Len(Content(left, name')) /\ onDisk' = Len(Content(left, name'))
          /\ DOMAIN left \subseteq DOMAIN files
          /\ \A g \in DOMAIN left : left[g] \in Seq(Nat)
  BY Restarted
<1>2. /\ name' = <<clock, 0>> /\ name' \in Names
      /\ \A g : g \in DOMAIN files' <=> g \in DOMAIN left \/ g = name'
      /\ Content(left, name') \in Seq(Nat)
      /\ files'[name'] \in Seq(Nat)
      /\ \A g \in DOMAIN left : g # name' => files'[g] = left[g]
  BY <1>1, Anew
<1>3. name' \in Seconds \X {0} /\ name'[1] <= clock'
  <2>1. name'[1] = clock /\ clock' = clock /\ clock <= clock
    BY <1>2, Constants DEF Restart, TypeOK, Seconds
  <2> QED
    BY <1>2, <2>1 DEF TypeOK
<1>4. DOMAIN files' \subseteq Names /\ \A f \in DOMAIN files' : files'[f] \in Seq(Nat)
  BY <1>1, <1>2 DEF TypeOK
<1>5. size' \in Nat /\ onDisk' \in Nat
  BY <1>1, <1>2, LenProperties
<1>6. at' \in 0 .. Idle /\ restarts' \in Nat
  BY Constants DEF Restart, TypeOK
<1> QED
  BY <1>3, <1>4, <1>5, <1>6 DEF TypeOK, Restart

-----------------------------------------------------------------------------
(* The bounds of the files.                                                *)

\* _currentSize counts every message of the open file, and all but one header.
OpenCounted == at = Idle => /\ Len(files[name]) <= size + 1
                            /\ Cardinality(Messages(files[name])) <= size

Fits(c, r) == /\ Len(c) <= MaxSize + 1 + r
              /\ Cardinality(Messages(c)) <= MaxSize

SizeInv == TypeOK /\ FileIsOpen /\ OpenCounted /\ SizeBounded

LEMMA Fitting == SizeBounded <=> \A f \in DOMAIN files : Fits(files[f], restarts)
BY DEF SizeBounded, Fits

LEMMA SizeInit == Init => SizeInv
<1> SUFFICES ASSUME Init PROVE SizeInv
  OBVIOUS
<1>1. TypeOK
  BY LogInit
<1>2. DOMAIN files = {name} /\ files[name] = <<Header>> /\ name \in DOMAIN files
  BY InitialFile
<1>3. Len(files[name]) = 1 /\ Cardinality(Messages(files[name])) = 0
  BY <1>2, MessagesOfNew
<1>4. size = 0 /\ restarts = 0
  BY DEF Init
<1>5. FileIsOpen /\ OpenCounted
  BY <1>2, <1>3, <1>4 DEF FileIsOpen, OpenCounted, Exists
<1>6. SizeBounded
  <2>1. Fits(files[name], restarts)
    BY <1>3, <1>4, Constants DEF Fits
  <2> QED
    BY <1>2, <2>1, Fitting
<1> QED
  BY <1>1, <1>5, <1>6 DEF SizeInv

LEMMA WriteSize == SizeInv /\ Write => SizeInv'
<1> SUFFICES ASSUME SizeInv, Write PROVE SizeInv'
  OBVIOUS
<1>1. TypeOK'
  BY WriteTypes DEF SizeInv
<1>2. /\ at = Idle /\ ~MustRotate /\ files' = Put(name, Append(files[name], next), files)
      /\ size' = size + 1 /\ UNCHANGED <<name, at, restarts>>
  BY DEF Write
<1>3. PICK c : c = files[name]
  OBVIOUS
<1>4. PICK d : d = Append(c, next)
  OBVIOUS
<1>5. name \in DOMAIN files /\ c \in Seq(Nat) /\ next \in Nat /\ size \in Nat /\ restarts \in Nat
  BY <1>2, <1>3 DEF SizeInv, FileIsOpen, Exists, TypeOK
<1>6. /\ \A g : g \in DOMAIN files' <=> g \in DOMAIN files \/ g = name
      /\ files'[name] = d
      /\ \A g \in DOMAIN files : g # name => files'[g] = files[g]
  <2>1. files' = Put(name, d, files)
    BY <1>2, <1>3, <1>4
  <2> QED
    BY <2>1, PutFacts
<1>7. /\ Len(c) \in Nat /\ Len(d) = Len(c) + 1
      /\ Cardinality(Messages(c)) \in Nat /\ Cardinality(Messages(d)) \in Nat
      /\ Cardinality(Messages(d)) <= Cardinality(Messages(c)) + 1
  <2>1. Len(c) \in Nat /\ Len(d) = Len(c) + 1 /\ d \in Seq(Nat)
    BY <1>4, <1>5
  <2>2. Cardinality(Messages(d)) <= Cardinality(Messages(c)) + 1
    BY <1>4, <1>5, MessagesOfAppend
  <2> QED
    BY <1>5, <2>1, <2>2, MessagesFinite
<1>8. Len(c) <= size + 1 /\ Cardinality(Messages(c)) <= size
  BY <1>2, <1>3 DEF SizeInv, OpenCounted
<1>9. Cardinality(Messages(c)) <= Len(c)
  BY <1>5, MessagesFinite
<1>10. size + 1 <= MaxSize \/ Len(c) = 0
  BY <1>2, <1>3, <1>5, <1>7, Constants DEF MustRotate
<1>11. Fits(d, restarts)
  BY <1>5, <1>7, <1>8, <1>9, <1>10, Constants DEF Fits
<1>12. SizeBounded'
  <2>1. \A f \in DOMAIN files' : Fits(files'[f], restarts')
    BY <1>2, <1>6, <1>11, Fitting DEF SizeInv
  <2> QED
    BY <2>1 DEF SizeBounded, Fits
<1>13. OpenCounted'
  <2>1. PICK n \in Nat : n = size + 1
    BY <1>5
  <2>2. Len(d) <= n + 1 /\ Cardinality(Messages(d)) <= n
    BY <1>5, <1>7, <1>8, <2>1
  <2> QED
    BY <1>2, <1>6, <2>1, <2>2 DEF OpenCounted
<1>14. FileIsOpen'
  BY <1>2, <1>6 DEF FileIsOpen, Exists
<1> QED
  BY <1>1, <1>12, <1>13, <1>14 DEF SizeInv

LEMMA RenameSize == SizeInv /\ Rename => SizeInv'
<1> SUFFICES ASSUME SizeInv, Rename PROVE SizeInv'
  OBVIOUS
<1>1. TypeOK'
  BY RenameTypes DEF SizeInv
<1>2. at' # Idle /\ UNCHANGED restarts
  BY Constants DEF Rename
<1>3. \A f \in DOMAIN files' : Fits(files'[f], restarts)
  BY Turn, Fitting DEF SizeInv, Exists
<1>4. SizeBounded'
  BY <1>2, <1>3 DEF SizeBounded, Fits
<1> QED
  BY <1>1, <1>2, <1>4 DEF SizeInv, FileIsOpen, OpenCounted, Idle

LEMMA RenameFailsSize == SizeInv /\ RenameFails => SizeInv'
<1> SUFFICES ASSUME SizeInv, RenameFails PROVE SizeInv'
  OBVIOUS
<1>1. TypeOK'
  BY RenameFailsTypes DEF SizeInv
<1>2. size' = 0 /\ UNCHANGED <<name, restarts>>
  BY DEF RenameFails
<1>3. PICK c : c = <<>>
  OBVIOUS
<1>4. /\ name \in DOMAIN files' /\ files'[name] = c
      /\ \A g \in DOMAIN files' : g # name => g \in DOMAIN files /\ files'[g] = files[g]
  BY <1>3, Failed DEF SizeInv
<1>5. Len(c) = 0 /\ Cardinality(Messages(c)) = 0
  BY <1>3, MessagesOfNew
<1>6. Fits(c, restarts)
  BY <1>5, Constants DEF Fits, SizeInv, TypeOK
<1>7. \A f \in DOMAIN files' : Fits(files'[f], restarts)
  BY <1>4, <1>6, Fitting DEF SizeInv
<1>8. SizeBounded'
  BY <1>2, <1>7 DEF SizeBounded, Fits
<1>9. OpenCounted' /\ FileIsOpen'
  BY <1>2, <1>4, <1>5 DEF OpenCounted, FileIsOpen, Exists
<1> QED
  BY <1>1, <1>8, <1>9 DEF SizeInv

LEMMA FinishRotationSize == SizeInv /\ FinishRotation => SizeInv'
<1> SUFFICES ASSUME SizeInv, FinishRotation PROVE SizeInv'
  OBVIOUS
<1>1. TypeOK'
  BY FinishRotationTypes DEF SizeInv
<1>2. size' = 1 /\ UNCHANGED <<name, restarts>>
  BY DEF FinishRotation
<1>3. PICK d : d = Reopened
  OBVIOUS
<1>4. /\ \A g : g \in DOMAIN files' <=> g \in DOMAIN files \/ g = name
      /\ files'[name] = d
      /\ \A g \in DOMAIN files : g # name => files'[g] = files[g]
  <2>1. files' = Put(name, d, files)
    BY <1>3 DEF FinishRotation
  <2> QED
    BY <2>1, PutFacts
<1>5. Len(d) = 2 /\ Cardinality(Messages(d)) <= 1 /\ Cardinality(Messages(d)) \in Nat
  <2>1. next \in Nat /\ d = <<Header, next>>
    BY <1>3 DEF Reopened, SizeInv, TypeOK
  <2> QED
    BY <2>1, MessagesOfNew
<1>6. Fits(d, restarts)
  BY <1>5, Constants DEF Fits, SizeInv, TypeOK
<1>7. \A f \in DOMAIN files' : Fits(files'[f], restarts)
  BY <1>4, <1>6, Fitting DEF SizeInv
<1>8. SizeBounded'
  BY <1>2, <1>7 DEF SizeBounded, Fits
<1>9. OpenCounted' /\ FileIsOpen'
  BY <1>2, <1>4, <1>5 DEF OpenCounted, FileIsOpen, Exists
<1> QED
  BY <1>1, <1>8, <1>9 DEF SizeInv

LEMMA RestartSize == SizeInv /\ Restart => SizeInv'
<1> SUFFICES ASSUME SizeInv, Restart PROVE SizeInv'
  OBVIOUS
<1>1. TypeOK'
  BY RestartTypes DEF SizeInv
<1>2. PICK left \in LeftBehind :
          /\ name' = calc_filename(clock, 0) /\ files' = Opened(left, name')
          /\ size' = Len(Content(left, name'))
          /\ DOMAIN left \subseteq DOMAIN files
          /\ \A g \in DOMAIN left : left[g] \in Seq(Nat)
  BY Restarted DEF SizeInv
<1>3. PICK f : f = name'
  OBVIOUS
<1>4. PICK c : c = Content(left, f)
  OBVIOUS
<1>5. PICK d : d = Append(c, Header)
  OBVIOUS
<1>6. /\ f \in DOMAIN files' /\ files'[f] = d /\ c \in Seq(Nat)
      /\ \A g \in DOMAIN files' : g # f => g \in DOMAIN left /\ files'[g] = left[g]
  BY <1>2, <1>3, <1>4, <1>5, Anew DEF SizeInv
<1>7. ASSUME NEW g \in DOMAIN left PROVE Fits(left[g], restarts)
  <2>1. /\ g \in DOMAIN files
        /\ Len(left[g]) <= Len(files[g])
        /\ Cardinality(Messages(left[g])) <= Cardinality(Messages(files[g]))
    BY <1>2, Left DEF SizeInv
  <2>2. Fits(files[g], restarts)
    BY <2>1, Fitting DEF SizeInv
  <2>3. /\ Len(left[g]) \in Nat /\ Cardinality(Messages(left[g])) \in Nat
        /\ Len(files[g]) \in Nat /\ Cardinality(Messages(files[g])) \in Nat
    BY <1>2, <2>1, MessagesFinite, LenProperties DEF SizeInv, TypeOK
  <2>4. restarts \in Nat
    BY DEF SizeInv, TypeOK
  <2> QED
    BY <2>1, <2>2, <2>3, <2>4, Constants DEF Fits
<1>8. restarts' = restarts + 1 /\ restarts \in Nat
  BY DEF Restart, SizeInv, TypeOK
<1>9. Fits(c, restarts)
  <2>1. ASSUME c = <<>> PROVE Fits(c, restarts)
    <3>1. Len(c) = 0 /\ Cardinality(Messages(c)) = 0
      BY <2>1, MessagesOfNew
    <3> QED
      BY <1>8, <3>1, Constants DEF Fits
  <2> QED
    BY <1>4, <1>7, <2>1 DEF Content
<1>10. /\ Len(c) \in Nat /\ Len(d) = Len(c) + 1
       /\ Cardinality(Messages(d)) = Cardinality(Messages(c))
       /\ Cardinality(Messages(c)) <= Len(c) /\ Cardinality(Messages(c)) \in Nat
  <2>1. Len(c) \in Nat /\ Len(d) = Len(c) + 1 /\ d \in Seq(Nat)
    BY <1>5, <1>6 DEF Header
  <2>2. Cardinality(Messages(d)) = Cardinality(Messages(c))
    BY <1>5, <1>6, MessagesOfAppend DEF Header
  <2> QED
    BY <1>6, <2>1, <2>2, MessagesFinite
<1>11. PICK r \in Nat : r = restarts + 1
  BY <1>8
<1>12. Fits(d, r) /\ \A g \in DOMAIN left : Fits(left[g], r)
  <2>1. Fits(d, r)
    BY <1>8, <1>9, <1>10, <1>11, Constants DEF Fits
  <2>2. ASSUME NEW g \in DOMAIN left PROVE Fits(left[g], r)
    <3>1. Fits(left[g], restarts) /\ Len(left[g]) \in Nat
      BY <1>2, <1>7, LenProperties
    <3> QED
      BY <1>8, <1>11, <3>1, Constants DEF Fits
  <2> QED
    BY <2>1, <2>2
<1>13. SizeBounded'
  <2>1. \A g \in DOMAIN files' : Fits(files'[g], r)
    BY <1>6, <1>12
  <2> QED
    BY <1>8, <1>11, <2>1 DEF SizeBounded, Fits
<1>14. OpenCounted' /\ FileIsOpen'
  <2>1. PICK n : n = Len(c)
    OBVIOUS
  <2>2. n \in Nat /\ Len(d) <= n + 1 /\ Cardinality(Messages(d)) <= n
    BY <1>10, <2>1
  <2> QED
    BY <1>2, <1>3, <1>4, <1>6, <2>1, <2>2 DEF OpenCounted, FileIsOpen, Exists
<1> QED
  BY <1>1, <1>13, <1>14 DEF SizeInv

LEMMA QuietSize == SizeInv /\ (Tick \/ StartRotation \/ UNCHANGED vars) => SizeInv'
<1> SUFFICES ASSUME SizeInv, Tick \/ StartRotation \/ UNCHANGED vars PROVE SizeInv'
  OBVIOUS
<1>1. /\ UNCHANGED <<files, name, size, restarts>>
      /\ at' = at \/ at' # Idle
  BY Constants DEF Tick, StartRotation, vars
<1>2. TypeOK'
  BY TickTypes, StartRotationTypes DEF SizeInv, TypeOK, vars
<1>3. SizeBounded'
  BY <1>1 DEF SizeInv, SizeBounded
<1>4. OpenCounted' /\ FileIsOpen'
  BY <1>1 DEF SizeInv, OpenCounted, FileIsOpen, Exists, Idle
<1> QED
  BY <1>2, <1>3, <1>4 DEF SizeInv

LEMMA SizeStep == SizeInv /\ [Next]_vars => SizeInv'
BY QuietSize, WriteSize, RenameSize, RenameFailsSize, FinishRotationSize, RestartSize DEF Next

\* Every state of the log is well typed.
THEOREM LogTypeCorrect == Spec => []TypeOK
<1>1. SizeInv => TypeOK
  BY DEF SizeInv
<1> QED
  BY <1>1, SizeInit, SizeStep, PTL DEF Spec

\* No file holds more than MaxSize messages, and none is longer than that and the
\* headers that _currentSize does not count: the test of sink_it_ before every
\* write keeps every file in its bounds, whatever a rotation has met.
THEOREM FilesAreBounded == Spec => []SizeBounded
<1>1. SizeInv => SizeBounded
  BY DEF SizeInv
<1> QED
  BY <1>1, SizeInit, SizeStep, PTL DEF Spec

-----------------------------------------------------------------------------
(* What a rotation spares.                                                 *)

\* No file is named after a second to come.
Past == \A f \in DOMAIN files : f[1] <= clock

\* Of the files with index 0, the open one is the youngest.
Youngest == \A f \in DOMAIN files : f[2] = 0 /\ f # name => f[1] < name[1]

\* The place to which a rotation moves the next file is free, once it has moved
\* or removed what had the last index.
Vacated == at \in 1 .. MaxFiles /\ at < MaxFiles => <<clock, at>> \notin DOMAIN files

\* A file that the rotation cannot drop.
Safe(f) == f # name /\ (at = MaxFiles => f[2] < MaxFiles)

Held == \A m \in others : \E f \in DOMAIN files : Safe(f) /\ m \in Range(files[f])

SurvivalInv == TypeOK /\ FileIsOpen /\ Past /\ Youngest /\ Vacated /\ Held

LEMMA HeldSurvive == SurvivalInv => OthersSurvive
<1> SUFFICES ASSUME SurvivalInv, NEW m \in others PROVE m \in MessagesIn(DOMAIN files)
  BY DEF OthersSurvive
<1>1. PICK f \in DOMAIN files : m \in Range(files[f])
  BY DEF SurvivalInv, Held
<1>2. m # Header
  BY DEF SurvivalInv, TypeOK
<1> QED
  BY <1>1, <1>2 DEF MessagesIn

LEMMA NamesAre ==
    ASSUME TypeOK, NEW f \in DOMAIN files
    PROVE  /\ f = <<f[1], f[2]>> /\ f[1] \in Nat /\ f[2] \in 0 .. MaxFiles
           /\ clock \in Nat /\ name = <<name[1], 0>> /\ name[1] \in Nat /\ name[1] <= clock
           /\ MaxFiles \in Nat
BY Constants DEF TypeOK, Names, Seconds

LEMMA InitSurvival == Init => SurvivalInv
<1> SUFFICES ASSUME Init PROVE SurvivalInv
  OBVIOUS
<1>1. TypeOK /\ DOMAIN files = {name} /\ name = <<0, 0>>
  BY LogInit, InitialFile DEF Init, calc_filename
<1>2. FileIsOpen /\ Past /\ Youngest /\ Held
  BY <1>1 DEF Init, FileIsOpen, Exists, Past, Youngest, Held
<1>3. Vacated
  BY Constants DEF Init, Vacated
<1> QED
  BY <1>1, <1>2, <1>3 DEF SurvivalInv

LEMMA TickSurvival == SurvivalInv /\ Tick => SurvivalInv'
<1> SUFFICES ASSUME SurvivalInv, Tick PROVE SurvivalInv'
  OBVIOUS
<1>1. TypeOK'
  BY TickTypes DEF SurvivalInv
<1>2. clock' = clock + 1 /\ UNCHANGED <<files, name, at, others>>
  BY DEF Tick
<1>3. ASSUME NEW f \in DOMAIN files PROVE f[1] <= clock /\ f[1] < clock'
  <2>1. f[1] <= clock /\ f[1] \in Nat /\ clock \in Nat
    BY NamesAre DEF SurvivalInv, Past
  <2> QED
    BY <1>2, <2>1
<1>4. Past'
  <2> SUFFICES ASSUME NEW f \in DOMAIN files PROVE f[1] <= clock'
    BY <1>2 DEF Past
  <2>1. f[1] \in Nat /\ clock \in Nat
    BY NamesAre DEF SurvivalInv
  <2> QED
    BY <1>2, <1>3, <2>1
<1>5. Vacated'
  <2>1. <<clock', at>> \in DOMAIN files => <<clock', at>>[1] <= clock
    BY <1>3
  <2>2. clock \in Nat
    BY Constants DEF SurvivalInv, TypeOK, Seconds
  <2> QED
    BY <1>2, <2>1, <2>2 DEF Vacated
<1>6. FileIsOpen' /\ Youngest' /\ Held'
  BY <1>2 DEF SurvivalInv, FileIsOpen, Exists, Youngest, Held, Safe
<1> QED
  BY <1>1, <1>4, <1>5, <1>6 DEF SurvivalInv

\* A step that changes only the open file, and leaves the rotation as far as it
\* was or ends it.
LEMMA OpenFileOnly ==
    ASSUME SurvivalInv, TypeOK', UNCHANGED <<clock, name, others>>,
           at' = Idle \/ (at' = at /\ at # Idle),
           \A g : g \in DOMAIN files' <=> g \in DOMAIN files \/ g = name,
           \A g \in DOMAIN files : g # name => files'[g] = files[g]
    PROVE  SurvivalInv'
<1>1. FileIsOpen'
  BY DEF FileIsOpen, Exists
<1>2. Past'
  BY Constants DEF SurvivalInv, Past, TypeOK, Seconds
<1>3. Youngest'
  BY DEF SurvivalInv, Youngest
<1>4. Vacated'
  <2> SUFFICES ASSUME at' \in 1 .. MaxFiles, at' < MaxFiles
               PROVE  <<clock, at'>> \notin DOMAIN files'
    BY DEF Vacated
  <2>1. at' = at
    BY Constants
  <2>2. <<clock, at>> # name
    BY <2>1, OpenName DEF SurvivalInv
  <2> QED
    BY <2>1, <2>2 DEF SurvivalInv, Vacated
<1>5. Held'
  <2> SUFFICES ASSUME NEW m \in others
               PROVE  \E f \in DOMAIN files' : Safe(f)' /\ m \in Range(files'[f])
    BY DEF Held
  <2>1. PICK f \in DOMAIN files : Safe(f) /\ m \in Range(files[f])
    BY DEF SurvivalInv, Held
  <2>2. f # name /\ f \in DOMAIN files' /\ files'[f] = files[f]
    BY <2>1 DEF Safe
  <2>3. Safe(f)'
    BY <2>1, Constants DEF Safe
  <2> QED
    BY <2>1, <2>2, <2>3
<1> QED
  BY <1>1, <1>2, <1>3, <1>4, <1>5 DEF SurvivalInv

LEMMA WriteSurvival == SurvivalInv /\ Write => SurvivalInv'
<1> SUFFICES ASSUME SurvivalInv, Write PROVE SurvivalInv'
  OBVIOUS
<1>1. TypeOK'
  BY WriteTypes DEF SurvivalInv
<1>2. PICK d : d = Append(files[name], next)
  OBVIOUS
<1>3. files' = Put(name, d, files) /\ at = Idle /\ UNCHANGED <<clock, name, at, others>>
  BY <1>2 DEF Write
<1>4. /\ \A g : g \in DOMAIN files' <=> g \in DOMAIN files \/ g = name
      /\ \A g \in DOMAIN files : g # name => files'[g] = files[g]
  BY <1>3, PutFacts
<1> QED
  BY <1>1, <1>3, <1>4, OpenFileOnly

LEMMA FinishRotationSurvival == SurvivalInv /\ FinishRotation => SurvivalInv'
<1> SUFFICES ASSUME SurvivalInv, FinishRotation PROVE SurvivalInv'
  OBVIOUS
<1>1. TypeOK'
  BY FinishRotationTypes DEF SurvivalInv
<1>2. PICK d : d = Reopened
  OBVIOUS
<1>3. files' = Put(name, d, files) /\ at' = Idle /\ UNCHANGED <<clock, name, others>>
  BY <1>2 DEF FinishRotation
<1>4. /\ \A g : g \in DOMAIN files' <=> g \in DOMAIN files \/ g = name
      /\ \A g \in DOMAIN files : g # name => files'[g] = files[g]
  BY <1>3, PutFacts
<1> QED
  BY <1>1, <1>3, <1>4, OpenFileOnly

LEMMA StartRotationSurvival == SurvivalInv /\ StartRotation => SurvivalInv'
<1> SUFFICES ASSUME SurvivalInv, StartRotation PROVE SurvivalInv'
  OBVIOUS
<1>1. TypeOK'
  BY StartRotationTypes DEF SurvivalInv
<1>2. at' = MaxFiles /\ UNCHANGED <<clock, files, name>>
  BY DEF StartRotation
<1>3. FileIsOpen' /\ Past' /\ Youngest' /\ Vacated'
  BY <1>2, Constants DEF SurvivalInv, FileIsOpen, Past, Youngest, Vacated
<1>4. Held'
  <2> SUFFICES ASSUME NEW m \in others'
               PROVE  \E f \in DOMAIN files : Safe(f)' /\ m \in Range(files[f])
    BY <1>2 DEF Held
  <2>1. PICK f \in {g \in DOMAIN files \ {name} : g[2] < MaxFiles} : m \in Range(files[f])
    BY DEF StartRotation, MessagesIn
  <2>2. Safe(f)'
    BY <1>2, <2>1 DEF Safe
  <2> QED
    BY <2>1, <2>2
<1> QED
  BY <1>1, <1>3, <1>4 DEF SurvivalInv

\* What had the place to which a file is moved was not safe: it has the last
\* index, or there is nothing.
LEMMA TargetIsNotSafe ==
    ASSUME SurvivalInv, at \in 1 .. MaxFiles, NEW second \in Nat, second >= clock,
           NEW f \in DOMAIN files, f = <<second, at>>
    PROVE  ~Safe(f)
<1>1. f[1] = second /\ f[2] = at /\ f[1] <= clock /\ clock \in Nat
  BY NamesAre DEF SurvivalInv, Past
<1>2. f = <<clock, at>>
  BY <1>1
<1>3. ~(at < MaxFiles)
  BY <1>2 DEF SurvivalInv, Vacated
<1> QED
  BY <1>1, <1>3, Constants DEF Safe

LEMMA RenameSurvival == SurvivalInv /\ Rename => SurvivalInv'
<1> SUFFICES ASSUME SurvivalInv, Rename PROVE SurvivalInv'
  OBVIOUS
<1>1. TypeOK'
  BY RenameTypes DEF SurvivalInv
<1>2. /\ at \in 1 .. MaxFiles /\ at' = at - 1 /\ UNCHANGED <<name, others>>
      /\ clock' \in Nat /\ clock \in Nat /\ clock' >= clock
      /\ MaxFiles \in Nat /\ at' # Idle /\ at' < MaxFiles
  BY Turn, Constants DEF Rename, SurvivalInv, TypeOK, Seconds
<1>3. PICK source, target : source = <<clock, at - 1>> /\ target = <<clock', at>>
  OBVIOUS
<1>4. /\ source # target
      /\ IF Exists(source)
         THEN /\ \A g : g \in DOMAIN files' <=> g \in DOMAIN files \ {source} \/ g = target
              /\ files'[target] = files[source]
              /\ \A g \in DOMAIN files' : g # target => files'[g] = files[g]
         ELSE UNCHANGED <<clock, files>>
  BY <1>3, Turn DEF SurvivalInv
<1>5. target # name /\ target[1] = clock' /\ target[2] = at /\ at # 0
  BY <1>2, <1>3, OpenName DEF SurvivalInv
<1>6. FileIsOpen'
  BY <1>2 DEF FileIsOpen, Idle
<1>7. Past'
  <2> SUFFICES ASSUME NEW f \in DOMAIN files' PROVE f[1] <= clock'
    BY DEF Past
  <2>1. CASE f = target
    BY <1>2, <1>5, <2>1
  <2>2. CASE f # target
    <3>1. f \in DOMAIN files
      BY <1>4, <2>2
    <3>2. f[1] <= clock /\ f[1] \in Nat
      BY <3>1, NamesAre DEF SurvivalInv, Past
    <3> QED
      BY <1>2, <3>2
  <2> QED
    BY <2>1, <2>2
<1>8. Youngest'
  <2> SUFFICES ASSUME NEW f \in DOMAIN files', f[2] = 0, f # name PROVE f[1] < name[1]
    BY <1>2 DEF Youngest
  <2>1. f # target
    BY <1>5
  <2> QED
    BY <1>4, <2>1 DEF SurvivalInv, Youngest
<1>9. Vacated'
  <2> SUFFICES ASSUME <<clock', at - 1>> \in DOMAIN files' PROVE FALSE
    BY <1>2 DEF Vacated
  <2>1. PICK f : f = <<clock', at - 1>>
    OBVIOUS
  <2>2. f # target /\ f \in DOMAIN files /\ f \in DOMAIN files'
    BY <1>2, <1>3, <1>4, <2>1
  <2>3. f[1] = clock' /\ f[1] <= clock
    BY <2>1, <2>2 DEF SurvivalInv, Past
  <2>4. f = source
    BY <1>2, <1>3, <2>1, <2>3
  <2> QED
    BY <1>4, <2>2, <2>4 DEF Exists
<1>10. Held'
  <2> SUFFICES ASSUME NEW m \in others
               PROVE  \E f \in DOMAIN files' : f # name /\ m \in Range(files'[f])
    BY <1>2 DEF Held, Safe
  <2>1. PICK f \in DOMAIN files : Safe(f) /\ m \in Range(files[f])
    BY DEF SurvivalInv, Held
  <2>2. f # name
    BY <2>1 DEF Safe
  <2>3. CASE ~Exists(source)
    BY <1>4, <2>1, <2>2, <2>3
  <2>4. CASE Exists(source) /\ f = source
    BY <1>4, <1>5, <2>1, <2>4
  <2>5. CASE Exists(source) /\ f # source
    <3>1. f # target
      BY <1>2, <1>3, <2>1, TargetIsNotSafe
    <3>2. f \in DOMAIN files' /\ files'[f] = files[f]
      BY <1>4, <2>5, <3>1
    <3> QED
      BY <2>1, <2>2, <3>2
  <2> QED
    BY <2>3, <2>4, <2>5
<1> QED
  BY <1>1, <1>6, <1>7, <1>8, <1>9, <1>10 DEF SurvivalInv

LEMMA RenameFailsSurvival == SurvivalInv /\ RenameFails => SurvivalInv'
<1> SUFFICES ASSUME SurvivalInv, RenameFails PROVE SurvivalInv'
  OBVIOUS
<1>1. TypeOK'
  BY RenameFailsTypes DEF SurvivalInv
<1>2. /\ at \in 1 .. MaxFiles /\ at' = Idle /\ UNCHANGED <<name, others>>
      /\ clock' \in Nat /\ clock \in Nat /\ clock' >= clock
  BY Failed, Constants DEF RenameFails, SurvivalInv, TypeOK, Seconds
<1>3. PICK target : target = <<clock', at>>
  OBVIOUS
<1>4. /\ \A g : g \in DOMAIN files' <=> g \in DOMAIN files \ {target} \/ g = name
      /\ \A g \in DOMAIN files' : g # name => files'[g] = files[g]
  BY <1>3, Failed DEF SurvivalInv
<1>5. FileIsOpen' /\ Vacated'
  BY <1>2, <1>4, Constants DEF FileIsOpen, Exists, Vacated
<1>6. Past'
  <2> SUFFICES ASSUME NEW f \in DOMAIN files' PROVE f[1] <= clock'
    BY DEF Past
  <2>1. name[1] <= clock /\ name[1] \in Nat
    BY Constants DEF SurvivalInv, TypeOK, Seconds
  <2>2. f # name => f[1] <= clock /\ f[1] \in Nat
    BY <1>4, NamesAre DEF SurvivalInv, Past
  <2> QED
    BY <1>2, <2>1, <2>2
<1>7. Youngest'
  BY <1>2, <1>4 DEF SurvivalInv, Youngest
<1>8. Held'
  <2> SUFFICES ASSUME NEW m \in others
               PROVE  \E f \in DOMAIN files' : f # name /\ m \in Range(files'[f])
    BY <1>2, Constants DEF Held, Safe
  <2>1. PICK f \in DOMAIN files : Safe(f) /\ m \in Range(files[f])
    BY DEF SurvivalInv, Held
  <2>2. f # target
    BY <1>2, <1>3, <2>1, TargetIsNotSafe
  <2>3. f # name /\ f \in DOMAIN files' /\ files'[f] = files[f]
    BY <1>4, <2>1, <2>2 DEF Safe
  <2> QED
    BY <2>1, <2>3
<1> QED
  BY <1>1, <1>5, <1>6, <1>7, <1>8 DEF SurvivalInv

LEMMA RestartSurvival == SurvivalInv /\ Restart => SurvivalInv'
<1> SUFFICES ASSUME SurvivalInv, Restart PROVE SurvivalInv'
  OBVIOUS
<1>1. TypeOK'
  BY RestartTypes DEF SurvivalInv
<1>2. at' = Idle /\ UNCHANGED <<clock, others>>
  BY DEF Restart
<1>3. PICK left \in LeftBehind :
          /\ name' = calc_filename(clock, 0) /\ files' = Opened(left, name')
          /\ DOMAIN left \subseteq DOMAIN files
          /\ \A g \in DOMAIN left : left[g] \in Seq(Nat)
  BY Restarted DEF SurvivalInv
<1>4. PICK opened : opened = name'
  OBVIOUS
<1>5. /\ opened = <<clock, 0>>
      /\ \A g : g \in DOMAIN files' <=> g \in DOMAIN left \/ g = opened
      /\ \A g \in DOMAIN left : g # opened => files'[g] = left[g]
  BY <1>3, <1>4, Anew DEF SurvivalInv
<1>6. /\ \A g \in DOMAIN files : g \in DOMAIN left \/ (at \in 1 .. MaxFiles /\ g = <<clock, at>>)
      /\ \A g \in DOMAIN left : g # name => left[g] = files[g]
  BY <1>3, Left DEF SurvivalInv
<1>7. clock \in Nat /\ name = <<name[1], 0>> /\ name[1] \in Nat /\ name[1] <= clock
  BY OpenName, Constants DEF SurvivalInv, TypeOK, Seconds
<1>8. FileIsOpen' /\ Vacated'
  BY <1>2, <1>4, <1>5, Constants DEF FileIsOpen, Exists, Vacated
<1>9. Past'
  <2> SUFFICES ASSUME NEW f \in DOMAIN files' PROVE f[1] <= clock
    BY <1>2 DEF Past
  <2>1. f = opened => f[1] <= clock
    BY <1>5, <1>7
  <2> QED
    BY <1>3, <1>5, <2>1 DEF SurvivalInv, Past
<1>10. ASSUME NEW f \in DOMAIN files, f[2] = 0, f # opened PROVE f[1] < clock
  <2>1. f = <<f[1], f[2]>> /\ f[1] \in Nat
    BY NamesAre DEF SurvivalInv
  <2>2. CASE f = name
    <3>1. f[1] # clock
      BY <1>5, <1>10, <2>1
    <3> QED
      BY <1>7, <2>1, <2>2, <3>1
  <2>3. CASE f # name
    BY <1>7, <1>10, <2>1, <2>3 DEF SurvivalInv, Youngest
  <2> QED
    BY <2>2, <2>3
<1>11. Youngest'
  <2> SUFFICES ASSUME NEW f \in DOMAIN files', f[2] = 0, f # opened PROVE f[1] < opened[1]
    BY <1>4 DEF Youngest
  <2>1. f \in DOMAIN files
    BY <1>3, <1>5
  <2> QED
    BY <1>5, <1>10, <2>1
<1>12. Held'
  <2> SUFFICES ASSUME NEW m \in others
               PROVE  \E f \in DOMAIN files' : f # opened /\ m \in Range(files'[f])
    BY <1>2, <1>4, Constants DEF Held, Safe
  <2>1. PICK f \in DOMAIN files : Safe(f) /\ m \in Range(files[f])
    BY DEF SurvivalInv, Held
  <2>2. f # name
    BY <2>1 DEF Safe
  <2>3. f # opened
    <3>1. f = opened => f[2] = 0 /\ f[1] = clock
      BY <1>5
    <3>2. f[2] = 0 => f[1] < name[1]
      BY <2>2 DEF SurvivalInv, Youngest
    <3>3. f[1] \in Nat
      BY NamesAre DEF SurvivalInv
    <3> QED
      BY <1>7, <3>1, <3>2, <3>3
  <2>4. f \in DOMAIN left
    <3>1. at \in 1 .. MaxFiles /\ f = <<clock, at>> => ~Safe(f)
      BY <1>7, TargetIsNotSafe
    <3> QED
      BY <1>6, <2>1, <3>1
  <2>5. f \in DOMAIN files' /\ files'[f] = files[f]
    BY <1>5, <1>6, <2>2, <2>3, <2>4
  <2> QED
    BY <2>1, <2>3, <2>5
<1> QED
  BY <1>1, <1>8, <1>9, <1>11, <1>12 DEF SurvivalInv

LEMMA SurvivalStep == SurvivalInv /\ [Next]_vars => SurvivalInv'
<1> SUFFICES ASSUME SurvivalInv, [Next]_vars PROVE SurvivalInv'
  OBVIOUS
<1>1. CASE UNCHANGED vars
  BY <1>1 DEF vars, SurvivalInv, TypeOK, FileIsOpen, Exists, Past, Youngest, Vacated, Held, Safe
<1> QED
  BY <1>1, TickSurvival, WriteSurvival, StartRotationSurvival, RenameSurvival,
     RenameFailsSurvival, FinishRotationSurvival, RestartSurvival DEF Next

\* No rotation drops a message of a file other than the open one and those with
\* the last index, for every number of files: not when the second changes while it
\* computes the names, not when a rename fails and not when the process ends
\* between two renames.
THEOREM OthersDoSurvive == Spec => []OthersSurvive
BY InitSurvival, SurvivalStep, HeldSurvive, PTL DEF Spec

================================================================================
