------------------------- MODULE FileManagerProofs -------------------------
(***************************************************************************)
(* FileManager for every list of files.                                    *)
(***************************************************************************)
EXTENDS FileManager, WellFoundedInduction, TLAPS

\* A nonempty set of naturals has a least element.
LEMMA LeastElement ==
  ASSUME NEW S \in SUBSET Nat, S # {}
  PROVE  \E i \in S : \A j \in S : i <= j
<1> DEFINE R == OpToRel(<, Nat)
<1>1. \A x, y \in Nat : x < y => <<x, y>> \in R
  BY DEF OpToRel
<1>2. IsWellFoundedOn(R, Nat)
  BY NatLessThanWellFounded
<1> HIDE DEF R
<1>3. PICK x \in S : \A y \in S : ~ (<<y, x>> \in R)
  BY <1>2, WFMin
<1>4. ASSUME NEW y \in S
      PROVE  x <= y
  <2>1. x \in Nat /\ y \in Nat
    OBVIOUS
  <2>2. ~ (y < x)
    BY <1>1, <1>3, <2>1
  <2> QED BY <2>1, <2>2
<1> QED BY <1>3, <1>4

start_off(i) == files_[i].start_off

\* The invariant of the loop of write: the current file is the one in which
\* the rest of the data starts, or ends just where the data starts.
LoopInv ==
  call # Blank =>
    /\ offset = data[1]
    /\ data[1] < data[2] /\ data[2] <= get_total_length
    /\ start_off(file_index) <= offset /\ offset <= End(file_index)

\* The inductive invariant.
FileInv ==
  /\ files_ \in Layouts
  /\ content = [i \in Files |-> content[i]]
  /\ data \in Nat \X Nat
  /\ offset \in Nat
  /\ TypeOK
  /\ LoopInv
-----------------------------------------------------------------------------
(* Layouts *)

\* What the constructor and parse_info say of the files.
LEMMA LayoutFacts ==
  ASSUME files_ \in Layouts
  PROVE  /\ Len(files_) \in Nat \ {0} /\ Files = 1 .. Len(files_)
         /\ \A i \in Files : /\ start_off(i) \in Nat /\ files_[i].length \in Nat
                             /\ End(i) = start_off(i) + files_[i].length
                             /\ End(i) \in Nat
         /\ start_off(1) = 0
         /\ \A i \in 1 .. Len(files_) - 1 : start_off(i + 1) = End(i)
         /\ get_total_length = End(Len(files_))
         /\ get_total_length \in Nat \ {0}
<1>1. IsLayout(files_)
  BY LayoutsAssumption
<1>2. /\ files_ \in Seq([start_off : Nat, length : Nat]) /\ files_ # <<>>
      /\ files_[1].start_off = 0
      /\ \A i \in 1 .. Len(files_) - 1 :
           files_[i + 1].start_off = files_[i].start_off + files_[i].length
      /\ files_[Len(files_)].start_off + files_[Len(files_)].length > 0
  BY <1>1 DEF IsLayout
<1>3. Len(files_) \in Nat \ {0}
  BY <1>2
<1>4. \A i \in 1 .. Len(files_) : files_[i] \in [start_off : Nat, length : Nat]
  <2> DEFINE R == [start_off : Nat, length : Nat]
  <2>1. files_ \in Seq(R)
    BY <1>2
  <2> HIDE DEF R
  <2>2. \A i \in 1 .. Len(files_) : files_[i] \in R
    BY <2>1
  <2> QED BY <2>2 DEF R
<1> QED BY <1>2, <1>3, <1>4 DEF Files, End, start_off, get_total_length

\* A file ends before the later ones start.
LEMMA FilesInOrder ==
  ASSUME files_ \in Layouts, NEW i \in Files, NEW j \in Files, i < j
  PROVE  End(i) <= start_off(j)
<1> DEFINE S == {k \in Files : i < k /\ ~ (End(i) <= start_off(k))}
<1>1. SUFFICES ASSUME S # {} PROVE FALSE
  OBVIOUS
<1>2. S \in SUBSET Nat
  BY LayoutFacts
<1>3. PICK k \in S : \A l \in S : k <= l
  BY <1>1, <1>2, LeastElement
<1>4. /\ k \in 1 .. Len(files_) /\ i \in 1 .. Len(files_) /\ i < k
      /\ ~ (End(i) <= start_off(k)) /\ Len(files_) \in Nat
  BY <1>3, LayoutFacts
<1>5. k - 1 \in 1 .. Len(files_) - 1 /\ k - 1 \in Files /\ (k - 1) + 1 = k
      /\ k - 1 >= i /\ k - 1 \notin S
  BY <1>3, <1>4, LayoutFacts
<1>6. start_off(k) = End(k - 1) /\ End(k - 1) >= start_off(k - 1)
      /\ End(k - 1) \in Nat /\ start_off(k - 1) \in Nat /\ End(i) \in Nat
  <2>1. start_off((k - 1) + 1) = End(k - 1)
    BY <1>5, LayoutFacts
  <2>2. End(k - 1) = start_off(k - 1) + files_[k - 1].length
        /\ start_off(k - 1) \in Nat /\ files_[k - 1].length \in Nat
        /\ End(i) \in Nat
    BY <1>5, LayoutFacts
  <2> QED BY <1>5, <2>1, <2>2
<1>7. CASE k - 1 = i
  BY <1>4, <1>6, <1>7
<1>8. CASE k - 1 > i
  <2>1. End(i) <= start_off(k - 1)
    BY <1>5, <1>8
  <2> QED BY <1>4, <1>6, <2>1
<1> QED BY <1>4, <1>5, <1>7, <1>8

\* Every offset of the torrent lies in exactly one file.
LEMMA FileOfOffset ==
  ASSUME files_ \in Layouts, NEW o \in 0 .. get_total_length - 1
  PROVE  /\ FileOf(o) \in Files
         /\ start_off(FileOf(o)) <= o /\ o < End(FileOf(o))
         /\ \A i \in Files : start_off(i) <= o /\ o < End(i) => i = FileOf(o)
<1> DEFINE S == {i \in Files : o < End(i)}
<1>0. o \in Nat /\ o < get_total_length
  BY LayoutFacts
<1>1. Len(files_) \in S /\ S \in SUBSET Nat
  BY <1>0, LayoutFacts
<1>2. PICK i \in S : \A j \in S : i <= j
  BY <1>1, LeastElement
<1>3. i \in Files /\ o < End(i) /\ i \in 1 .. Len(files_) /\ Len(files_) \in Nat
  BY <1>2, LayoutFacts
<1>4. start_off(i) <= o
  <2>1. CASE i = 1
    BY <1>0, <2>1, LayoutFacts
  <2>2. CASE i > 1
    <3>1. i - 1 \in 1 .. Len(files_) - 1 /\ i - 1 \in Files /\ i - 1 \notin S
          /\ (i - 1) + 1 = i
      BY <1>2, <1>3, <2>2, LayoutFacts
    <3>2. start_off((i - 1) + 1) = End(i - 1) /\ End(i - 1) \in Nat
      BY <3>1, LayoutFacts
    <3> QED BY <1>0, <3>1, <3>2
  <2> QED BY <1>3, <2>1, <2>2
<1>5. \E k \in Files : files_[k].start_off <= o /\ o < End(k)
  BY <1>3, <1>4 DEF start_off
<1>6. FileOf(o) \in Files /\ start_off(FileOf(o)) <= o /\ o < End(FileOf(o))
  BY <1>5 DEF FileOf, start_off
<1>7. ASSUME NEW k \in Files, start_off(k) <= o, o < End(k)
      PROVE  k = FileOf(o)
  <2> DEFINE m == FileOf(o)
  <2>1. /\ k \in Nat /\ m \in Nat /\ start_off(k) \in Nat /\ End(k) \in Nat
        /\ start_off(m) \in Nat /\ End(m) \in Nat
    BY <1>6, LayoutFacts
  <2> HIDE DEF m
  <2>2. ~ (k < m)
    BY <1>0, <1>6, <1>7, <2>1, FilesInOrder DEF m
  <2>3. ~ (m < k)
    BY <1>0, <1>6, <1>7, <2>1, FilesInOrder DEF m
  <2> QED BY <2>1, <2>2, <2>3 DEF m
<1> QED BY <1>6, <1>7

\* The search of write ends at a file that holds the offset, or that ends
\* just there.
LEMMA FirstFileCorrect ==
  ASSUME files_ \in Layouts, NEW o \in 0 .. get_total_length - 1
  PROVE  /\ FirstFile(o) \in Files
         /\ start_off(FirstFile(o)) <= o /\ o <= End(FirstFile(o))
<1> DEFINE S == {i \in Files : o <= End(i)}
           F(i) == o <= End(i) /\ \A j \in 1 .. i - 1 : o > End(j)
<1>0. o \in Nat /\ o < get_total_length
  BY LayoutFacts
<1>1. Len(files_) \in S /\ S \in SUBSET Nat
  BY <1>0, LayoutFacts
<1>2. PICK i \in S : \A j \in S : i <= j
  BY <1>1, LeastElement
<1>3. ASSUME NEW j \in 1 .. i - 1
      PROVE  o > End(j)
  <2>1. i \in 1 .. Len(files_) /\ Len(files_) \in Nat
    BY <1>2, LayoutFacts
  <2>2. j \in 1 .. Len(files_) /\ ~ (i <= j)
    BY <2>1
  <2>3. j \in Files /\ j \notin S /\ End(j) \in Nat
    BY <1>2, <2>2, LayoutFacts
  <2> QED BY <1>0, <2>3
<1>4. \E k \in Files : F(k)
  BY <1>2, <1>3
<1> DEFINE f == FirstFile(o)
<1>5. f \in Files /\ F(f)
  BY <1>4 DEF FirstFile
<1> HIDE DEF f
<1>6. f \in 1 .. Len(files_) /\ Len(files_) \in Nat
  BY <1>5, LayoutFacts
<1>7. start_off(f) <= o
  <2>1. CASE f = 1
    BY <1>0, <2>1, LayoutFacts
  <2>2. CASE f > 1
    <3>1. f - 1 \in 1 .. Len(files_) - 1 /\ f - 1 \in 1 .. f - 1
          /\ (f - 1) + 1 = f /\ f - 1 \in Files
      BY <1>6, <2>2, LayoutFacts
    <3>2. start_off((f - 1) + 1) = End(f - 1) /\ End(f - 1) \in Nat
          /\ o > End(f - 1)
      BY <1>5, <3>1, LayoutFacts
    <3> QED BY <1>0, <3>1, <3>2
  <2> QED BY <1>6, <2>1, <2>2
<1> QED BY <1>5, <1>7 DEF f
-----------------------------------------------------------------------------
(* One file is written *)

\* How much of the data goes to the current file: at least nothing, at most
\* what is left of the data and of the file.
LEMMA TakenBounds ==
  ASSUME FileInv, call # Blank
  PROVE  /\ file_index \in Files
         /\ data[1] \in Nat /\ data[2] \in Nat /\ data = <<data[1], data[2]>>
         /\ data[2] <= get_total_length /\ offset = data[1]
         /\ start_off(file_index) <= offset
         /\ write_size \in Nat /\ taken \in Nat
         /\ data[1] + taken <= End(file_index)
         /\ data[1] + taken <= data[2]
         /\ data[1] + taken = data[2] \/ data[1] + taken = End(file_index)
         /\ taken # data[2] - data[1] =>
              offset + write_size = End(file_index) /\ taken = write_size
<1>1. /\ file_index \in Files /\ offset \in Nat
      /\ data[1] \in Nat /\ data[2] \in Nat /\ data = <<data[1], data[2]>>
      /\ offset = data[1] /\ data[1] < data[2] /\ data[2] <= get_total_length
      /\ start_off(file_index) <= offset /\ offset <= End(file_index)
  BY DEF FileInv, TypeOK, LoopInv
<1>2. End(file_index) \in Nat
  BY <1>1, LayoutFacts DEF FileInv
<1> QED BY <1>1, <1>2 DEF write_size, taken

\* The first n bytes of the data end up where they belong, and no other byte
\* of the torrent changes.
LEMMA WrittenCorrect ==
  ASSUME FileInv, call # Blank, NEW n \in 0 .. taken,
         content' = Written(n), files_' = files_
  PROVE  /\ content' = [i \in Files |-> content'[i]]
         /\ \A i \in Files : \A k \in DOMAIN content'[i] :
              k \in 0 .. files_[i].length - 1
         /\ \A o \in 0 .. get_total_length - 1 :
              Stored(o)' = IF data[1] <= o /\ o < data[1] + n
                           THEN <<call, o>> ELSE Stored(o)
<1> DEFINE fi == file_index
           at == offset - files_[fi].start_off
           pos == at .. at + n - 1
           old == content[fi]
           new == [k \in pos \cup DOMAIN old |->
                     IF k \in pos THEN <<call, data[1] + (k - at)>> ELSE old[k]]
<1>1. /\ fi \in Files /\ offset = data[1] /\ data[1] \in Nat /\ n \in Nat
      /\ start_off(fi) <= offset /\ start_off(fi) \in Nat
      /\ files_[fi].length \in Nat /\ at \in Nat
      /\ End(fi) = start_off(fi) + files_[fi].length
      /\ data[1] + n <= End(fi) /\ taken \in Nat /\ End(fi) \in Nat
  BY TakenBounds, LayoutFacts DEF FileInv, start_off
<1>2. content' = [content EXCEPT ![fi] = new]
  BY DEF Written
<1>3. content = [i \in Files |-> content[i]]
  BY DEF FileInv
<1>4. /\ content' = [i \in Files |-> content'[i]]
      /\ content'[fi] = new
      /\ \A i \in Files : i # fi => content'[i] = content[i]
  <2> HIDE DEF new
  <2> QED BY <1>1, <1>2, <1>3
<1>5. \A i \in Files : \A k \in DOMAIN content[i] :
        k \in 0 .. files_[i].length - 1
  BY DEF FileInv, TypeOK
<1>6. DOMAIN new = pos \cup DOMAIN old
  OBVIOUS
<1>7. \A k \in pos : k \in 0 .. files_[fi].length - 1
  BY <1>1 DEF start_off
<1>8. ASSUME NEW i \in Files, NEW k \in DOMAIN content'[i]
      PROVE  k \in 0 .. files_[i].length - 1
  <2>1. CASE i = fi
    BY <1>1, <1>4, <1>5, <1>6, <1>7, <1>8, <2>1
  <2>2. CASE i # fi
    BY <1>4, <1>5, <1>8, <2>2
  <2> QED BY <2>1, <2>2
<1>9. ASSUME NEW o \in 0 .. get_total_length - 1
      PROVE  Stored(o)' = IF data[1] <= o /\ o < data[1] + n
                          THEN <<call, o>> ELSE Stored(o)
  <2> DEFINE i == FileOf(o)
             k == o - files_[i].start_off
  <2>1. /\ i \in Files /\ start_off(i) <= o /\ o < End(i) /\ o \in Nat
        /\ start_off(i) \in Nat /\ End(i) \in Nat /\ k \in Nat
    BY FileOfOffset, LayoutFacts DEF FileInv, start_off
  <2>2. Stored(o)' = IF k \in DOMAIN content'[i] THEN content'[i][k] ELSE Blank
    <3>1. FileOf(o)' = FileOf(o)
      BY DEF FileOf, Files, End
    <3> QED BY <3>1 DEF Stored
  <2>3. Stored(o) = IF k \in DOMAIN content[i] THEN content[i][k] ELSE Blank
    BY DEF Stored
  <2>4. CASE i = fi
    <3>1. k \in pos <=> data[1] <= o /\ o < data[1] + n
      BY <1>1, <2>1, <2>4 DEF start_off
    <3>2. data[1] + (k - at) = o
      BY <1>1, <2>1, <2>4 DEF start_off
    <3>3. content'[i] = new
      BY <1>4, <2>4
    <3>4. CASE k \in pos
      <4>1. k \in DOMAIN new /\ new[k] = <<call, data[1] + (k - at)>>
        BY <3>4
      <4> HIDE DEF new, k, at
      <4> QED BY <2>2, <3>1, <3>2, <3>3, <3>4, <4>1
    <3>5. CASE k \notin pos
      <4>1. /\ k \in DOMAIN new <=> k \in DOMAIN old
            /\ k \in DOMAIN old => new[k] = old[k]
        BY <3>5
      <4>2. content[i] = old
        BY <2>4
      <4> HIDE DEF new, k, old
      <4> QED BY <2>2, <2>3, <3>1, <3>3, <3>5, <4>1, <4>2
    <3> QED BY <3>4, <3>5
  <2>5. CASE i # fi
    <3>1. ~ (data[1] <= o /\ o < data[1] + n)
      <4>1. ~ (start_off(fi) <= o /\ o < End(fi))
        BY <1>1, <2>5, FileOfOffset DEF FileInv
      <4> QED BY <1>1, <2>1, <4>1
    <3>2. content'[i] = content[i]
      BY <1>4, <2>1, <2>5
    <3> QED BY <2>2, <2>3, <3>1, <3>2
  <2> QED BY <2>4, <2>5
<1> QED BY <1>4, <1>8, <1>9
-----------------------------------------------------------------------------
(* The inductive invariant *)

\* The constructor establishes it.
LEMMA FileInvInit == Init => FileInv
<1> SUFFICES ASSUME Init PROVE FileInv
  OBVIOUS
<1>1. content = [i \in Files |-> content[i]]
      /\ \A i \in Files : DOMAIN content[i] = {}
  BY DEF Init
<1>2. TypeOK /\ LoopInv
  BY <1>1 DEF Init, TypeOK, LoopInv
<1>3. files_ \in Layouts /\ data \in Nat \X Nat /\ offset \in Nat
  BY DEF Init
<1> QED BY <1>1, <1>2, <1>3 DEF FileInv

\* A call of write starts the loop at the right file.
LEMMA WriteStep ==
  ASSUME FileInv, NEW w \in Writes, NEW from \in 0 .. get_total_length,
         NEW to \in 0 .. get_total_length, Write(w, from, to)
  PROVE  FileInv'
<1>1. /\ from < to /\ call' = w /\ data' = <<from, to>> /\ offset' = from
      /\ file_index' = FirstFile(from)
      /\ files_' = files_ /\ content' = content /\ broken' = broken
  BY DEF Write
<1>2. files_ \in Layouts /\ get_total_length \in Nat
  BY LayoutFacts DEF FileInv
<1>3. from \in 0 .. get_total_length - 1 /\ from \in Nat /\ to \in Nat
      /\ to <= get_total_length
  BY <1>1, <1>2
<1>4. FirstFile(from) \in Files /\ start_off(FirstFile(from)) <= from
      /\ from <= End(FirstFile(from))
  BY <1>2, <1>3, FirstFileCorrect
<1>5. data' \in Nat \X Nat /\ offset' \in Nat /\ files_' \in Layouts
  BY <1>1, <1>2, <1>3
<1>6. data'[1] = from /\ data'[2] = to
  BY <1>1
<1>7. content' = [i \in Files' |-> content'[i]]
  BY <1>1 DEF FileInv, Files
<1>8. TypeOK'
  BY <1>1, <1>4 DEF FileInv, TypeOK, Files
<1>9. LoopInv'
  BY <1>1, <1>3, <1>4, <1>6 DEF LoopInv, start_off, End, get_total_length
<1> QED BY <1>5, <1>7, <1>8, <1>9 DEF FileInv

\* An iteration that leaves data behind leaves it at the start of the next
\* file, which exists because the data ends inside the torrent.
LEMMA IterationStep ==
  ASSUME FileInv, Iteration
  PROVE  FileInv'
<1>1. /\ call # Blank /\ content' = Written(taken)
      /\ data' = <<data[1] + taken, data[2]>>
      /\ offset' = offset + write_size /\ file_index' = file_index + 1
      /\ call' = IF data[1] + taken = data[2] THEN Blank ELSE call
      /\ files_' = files_ /\ broken' = broken
  BY DEF Iteration
<1>2. /\ file_index \in Files
      /\ data[1] \in Nat /\ data[2] \in Nat
      /\ data[2] <= get_total_length /\ offset = data[1]
      /\ write_size \in Nat /\ taken \in Nat
      /\ data[1] + taken <= data[2]
      /\ data[1] + taken = data[2] \/ data[1] + taken = End(file_index)
      /\ taken # data[2] - data[1] =>
           offset + write_size = End(file_index) /\ taken = write_size
  BY <1>1, TakenBounds
<1>3. taken \in 0 .. taken
  BY <1>2
<1>4. /\ content' = [i \in Files |-> content'[i]]
      /\ \A i \in Files : \A k \in DOMAIN content'[i] :
           k \in 0 .. files_[i].length - 1
  BY <1>1, <1>3, WrittenCorrect
<1>5. data' \in Nat \X Nat /\ offset' \in Nat /\ files_' \in Layouts
      /\ data'[1] = data[1] + taken /\ data'[2] = data[2]
  BY <1>1, <1>2 DEF FileInv
<1>6. Len(files_) \in Nat /\ Files = 1 .. Len(files_)
      /\ get_total_length = End(Len(files_)) /\ get_total_length \in Nat
  BY LayoutFacts DEF FileInv
<1>7. ASSUME data[1] + taken # data[2]
      PROVE  /\ file_index + 1 \in Files
             /\ offset' = data[1] + taken
             /\ start_off(file_index + 1) = offset'
             /\ offset' <= End(file_index + 1)
             /\ data[1] + taken < data[2]
  <2>1. /\ taken # data[2] - data[1]
        /\ data[1] + taken = End(file_index) /\ data[1] + taken < data[2]
    BY <1>2, <1>7
  <2>2. file_index # Len(files_)
    BY <1>2, <1>6, <2>1
  <2>3. file_index \in 1 .. Len(files_) - 1 /\ file_index + 1 \in Files
    BY <1>2, <1>6, <2>2
  <2>4. start_off(file_index + 1) = End(file_index)
        /\ End(file_index + 1) = start_off(file_index + 1)
                                   + files_[file_index + 1].length
        /\ files_[file_index + 1].length \in Nat
        /\ End(file_index) \in Nat
    BY <2>3, LayoutFacts DEF FileInv
  <2> QED BY <1>1, <1>2, <2>1, <2>3, <2>4
<1>8. TypeOK'
  <2>1. call' \in Writes \cup {Blank}
    BY <1>1 DEF FileInv, TypeOK
  <2>2. call' # Blank => file_index' \in Files
    BY <1>1, <1>7
  <2> QED BY <1>1, <1>4, <2>1, <2>2 DEF TypeOK, Files
<1>9. LoopInv'
  <2> SUFFICES ASSUME call' # Blank
               PROVE  /\ offset' = data'[1] /\ data'[1] < data'[2]
                      /\ data'[2] <= get_total_length
                      /\ start_off(file_index)' <= offset'
                      /\ offset' <= End(file_index)'
    BY <1>1 DEF LoopInv, get_total_length, End
  <2>1. data[1] + taken # data[2]
    BY <1>1
  <2>2. start_off(file_index)' = start_off(file_index + 1)
        /\ End(file_index)' = End(file_index + 1)
    BY <1>1 DEF start_off, End
  <2> QED BY <1>2, <1>5, <1>7, <2>1, <2>2
<1>10. content' = [i \in Files' |-> content'[i]]
  BY <1>1, <1>4 DEF Files
<1> QED BY <1>5, <1>8, <1>9, <1>10 DEF FileInv

\* A write that throws leaves the loop.
LEMMA FailStep ==
  ASSUME FileInv, NEW n \in 0 .. get_total_length, WriteFails(n)
  PROVE  FileInv' /\ n \in 0 .. taken
<1>1. /\ call # Blank /\ content' = Written(n)
      /\ data' = <<data[1] + n, data[2]>> /\ call' = Blank
      /\ files_' = files_ /\ offset' = offset /\ file_index' = file_index
      /\ IF file_index \in broken THEN n = 0 ELSE n <= taken
  BY DEF WriteFails
<1>2. taken \in Nat /\ data[1] \in Nat /\ data[2] \in Nat /\ n \in Nat
  BY <1>1, TakenBounds, LayoutFacts DEF FileInv
<1>3. n \in 0 .. taken
  BY <1>1, <1>2
<1>4. /\ content' = [i \in Files |-> content'[i]]
      /\ \A i \in Files : \A k \in DOMAIN content'[i] :
           k \in 0 .. files_[i].length - 1
  BY <1>1, <1>3, WrittenCorrect
<1>5. TypeOK' /\ LoopInv'
  BY <1>1, <1>4 DEF TypeOK, LoopInv, Files
<1>6. content' = [i \in Files' |-> content'[i]]
  BY <1>1, <1>4 DEF Files
<1>7. data' \in Nat \X Nat /\ offset' \in Nat /\ files_' \in Layouts
  BY <1>1, <1>2 DEF FileInv
<1> QED BY <1>3, <1>5, <1>6, <1>7 DEF FileInv

\* Every step keeps the invariant.
LEMMA FileInvStep == FileInv /\ [Next]_vars => FileInv'
<1> SUFFICES ASSUME FileInv, [Next]_vars PROVE FileInv'
  OBVIOUS
<1>1. CASE UNCHANGED vars
  BY <1>1 DEF vars, callVars, FileInv, TypeOK, LoopInv, Files, End, start_off,
     get_total_length
<1> QED BY <1>1, WriteStep, IterationStep, FailStep DEF Next

\* The invariant holds throughout.
LEMMA FileInvAlways == Spec => []FileInv
BY FileInvInit, FileInvStep, PTL DEF Spec

\* write stays inside files_, and inside each file.
THEOREM FileTypeCorrect == Spec => []TypeOK
<1>1. FileInv => TypeOK
  BY DEF FileInv
<1> QED BY <1>1, FileInvAlways, PTL

\* For every list of files, FileManager implements one flat array of bytes.
THEOREM FilesRefineFlatStore == Spec => ImplementsFlatStore
<1> DEFINE size == get_total_length
           disk == [o \in 0 .. size - 1 |-> Stored(o)]
<1>1. Init => Flat!Init
  <2> SUFFICES ASSUME Init PROVE Flat!Init
    OBVIOUS
  <2>1. FileInv
    BY FileInvInit
  <2>2. size \in Nat
    BY <2>1, LayoutFacts DEF FileInv
  <2>3. ASSUME NEW o \in 0 .. size - 1
        PROVE  Stored(o) = Blank
    <3>1. FileOf(o) \in Files
      BY <2>1, FileOfOffset DEF FileInv
    <3>2. DOMAIN content[FileOf(o)] = {}
      BY <3>1 DEF Init
    <3> QED BY <3>2 DEF Stored
  <2>4. call = Blank /\ data[1] = 0 /\ data[2] = 0
    BY DEF Init
  <2> QED BY <2>2, <2>3, <2>4 DEF Flat!Init
<1>2. FileInv /\ [Next]_vars => [Flat!Next]_(Flat!vars)
  <2> SUFFICES ASSUME FileInv, [Next]_vars
               PROVE  Flat!Next \/ UNCHANGED Flat!vars
    OBVIOUS
  <2>1. size \in Nat
    BY LayoutFacts DEF FileInv
  <2>2. ASSUME NEW n \in 0 .. taken, call # Blank, content' = Written(n),
               files_' = files_, data' = <<data[1] + n, data[2]>>
        PROVE  /\ Flat!LayDown(data[1] + n) /\ size' = size
               /\ data'[1] = data[1] + n /\ data'[2] = data[2]
               /\ data[1] + n \in 0 .. size
    <3>1. size' = size
      BY <2>2 DEF get_total_length, End
    <3>2. /\ data[1] \in Nat /\ data[2] \in Nat /\ taken \in Nat
          /\ data[1] + taken <= data[2] /\ data[2] <= size
      BY <2>2, TakenBounds
    <3>3. data'[1] = data[1] + n /\ data'[2] = data[2]
      BY <2>2
    <3>4. disk' = [o \in 0 .. size - 1 |->
                     IF data[1] <= o /\ o < data[1] + n THEN <<call, o>>
                     ELSE disk[o]]
      <4>1. disk' = [o \in 0 .. size - 1 |-> Stored(o)']
        BY <3>1
      <4>2. \A o \in 0 .. size - 1 :
              Stored(o)' = IF data[1] <= o /\ o < data[1] + n
                           THEN <<call, o>> ELSE Stored(o)
        BY <2>2, WrittenCorrect
      <4> QED BY <4>1, <4>2
    <3> QED BY <2>1, <2>2, <3>1, <3>2, <3>3, <3>4 DEF Flat!LayDown
  <2>3. ASSUME NEW w \in Writes, NEW from \in 0 .. size, NEW to \in 0 .. size,
               Write(w, from, to)
        PROVE  Flat!Call(w, from, to)
    <3>1. files_' = files_ /\ content' = content
      BY <2>3 DEF Write
    <3>2. size' = size
      BY <3>1 DEF get_total_length, End
    <3>3. disk' = disk
      BY <3>1, <3>2 DEF Stored, FileOf, Files, End
    <3>4. data'[1] = from /\ data'[2] = to /\ call = Blank /\ call' = w
          /\ from < to
      BY <2>3 DEF Write
    <3> QED BY <2>1, <3>2, <3>3, <3>4 DEF Flat!Call
  <2>4. CASE Iteration
    <3>1. /\ call # Blank /\ content' = Written(taken) /\ files_' = files_
          /\ data' = <<data[1] + taken, data[2]>>
          /\ call' = IF data[1] + taken = data[2] THEN Blank ELSE call
      BY <2>4 DEF Iteration
    <3>2. taken \in 0 .. taken
      BY <3>1, TakenBounds
    <3>3. /\ Flat!LayDown(data[1] + taken) /\ size' = size
          /\ data'[2] = data[2] /\ data[1] + taken \in 0 .. size
      BY <2>2, <3>1, <3>2
    <3>4. CASE data[1] + taken = data[2]
      <4>1. Flat!Return
        BY <3>1, <3>3, <3>4 DEF Flat!Return
      <4> QED BY <4>1 DEF Flat!Next
    <3>5. CASE data[1] + taken # data[2]
      <4>1. Flat!Continue(data[1] + taken)
        BY <3>1, <3>3, <3>5 DEF Flat!Continue
      <4> QED BY <3>3, <4>1 DEF Flat!Next
    <3> QED BY <3>4, <3>5
  <2>5. ASSUME NEW n \in 0 .. size, WriteFails(n)
        PROVE  Flat!Next
    <3>1. /\ call # Blank /\ content' = Written(n) /\ files_' = files_
          /\ data' = <<data[1] + n, data[2]>> /\ call' = Blank
      BY <2>5 DEF WriteFails
    <3>2. n \in 0 .. taken
      BY <2>5, FailStep
    <3>3. /\ Flat!LayDown(data[1] + n) /\ size' = size
          /\ data'[2] = data[2] /\ data[1] + n \in 0 .. size
      BY <2>2, <3>1, <3>2
    <3>4. Flat!Throw(data[1] + n)
      BY <3>1, <3>3 DEF Flat!Throw
    <3> QED BY <3>3, <3>4 DEF Flat!Next
  <2>6. CASE UNCHANGED vars
    BY <2>6 DEF vars, callVars, Flat!vars, get_total_length, Stored, FileOf,
       Files, End
  <2> QED BY <2>3, <2>4, <2>5, <2>6 DEF Next, Flat!Next
<1> QED BY <1>1, <1>2, FileInvAlways, PTL
     DEF Spec, ImplementsFlatStore, Flat!Spec
=============================================================================
