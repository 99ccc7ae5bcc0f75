---------------------------- MODULE FileManager ----------------------------
(***************************************************************************)
(* class FileManager: the bytes of the torrent, spread over its files.     *)
(*                                                                         *)
(* files_ gives each file its start_off and length, as parse_info and the  *)
(* constructor set them; content[i] maps the positions of file i that have *)
(* been written to bytes.  write is a loop over files and is modelled one  *)
(* iteration a step.  The byte of write w that belongs at offset o of the  *)
(* torrent is <<w, o>>.                                                    *)
(***************************************************************************)
EXTENDS Integers, Sequences

CONSTANTS
  Layouts,  \* the lists of files to consider
  Writes,   \* names of the calls of write
  Blank     \* no byte, no call

\* The files follow one another without a gap, as parse_info lays them out:
\* cur_offset starts at zero and grows by each length.  There is some data.
IsLayout(f) ==
  /\ f \in Seq([start_off : Nat, length : Nat])
  /\ f # <<>>
  /\ f[1].start_off = 0
  /\ \A i \in 1 .. Len(f) - 1 :
       f[i + 1].start_off = f[i].start_off + f[i].length
  /\ f[Len(f)].start_off + f[Len(f)].length > 0

ASSUME LayoutsAssumption == \A f \in Layouts : IsLayout(f)
ASSUME BlankAssumption == Blank \notin Writes

VARIABLES
  files_,      \* the layout
  content,     \* the bytes in each file
  broken,      \* files whose stream has failed
  call,        \* the write in progress, or Blank
  data,        \* [from, to): the offsets the rest of data belongs at
  offset,      \* the variables of write
  file_index

callVars == <<call, data, offset, file_index>>
vars == <<files_, content, broken, callVars>>

Files == 1 .. Len(files_)
End(i) == files_[i].start_off + files_[i].length

\* get_total_length: the lengths add up to the end of the last file.
get_total_length == End(Len(files_))

Init ==
  /\ files_ \in Layouts
  /\ content = [i \in Files |-> [k \in {} |-> Blank]]
  /\ broken = {}
  /\ call = Blank
  /\ data = <<0, 0>>
  /\ offset = 0
  /\ file_index = 1

\* Mutant: the length of the file is left out of the comparison.
FirstFile_NoLength(o) ==
  CHOOSE i \in Files : /\ o <= files_[i].start_off \/ i = Len(files_)
                       /\ \A j \in 1 .. i - 1 : o > files_[j].start_off

\* Where the loop that looks for the first file stops.
FirstFile(o) ==
  CHOOSE i \in Files : /\ o <= End(i)
                       /\ \A j \in 1 .. i - 1 : o > End(j)

\* write is called with data for the offsets from .. to - 1, as receive_block
\* does: the data is not empty and lies inside the torrent.
Write(w, from, to) ==
  /\ call = Blank
  /\ from < to
  /\ call' = w
  /\ data' = <<from, to>>
  /\ offset' = from
  /\ file_index' = FirstFile(from)
  /\ UNCHANGED <<files_, content, broken>>

\* Mutant: the whole length of the file, wherever in it the write starts.
write_size_Whole == files_[file_index].length

write_size == End(file_index) - offset

\* How many bytes of the data go to the current file.
taken == IF write_size < data[2] - data[1] THEN write_size
                                           ELSE data[2] - data[1]

\* File::write of the first n bytes of the data.
Written(n) ==
  LET at  == offset - files_[file_index].start_off
      pos == at .. at + n - 1
      old == content[file_index]
  IN [content EXCEPT ![file_index] =
       [k \in pos \cup DOMAIN old |->
          IF k \in pos THEN <<call, data[1] + (k - at)>> ELSE old[k]]]

\* Mutant: the loop stays at its file.
Iteration_SameFile ==
  /\ call # Blank
  /\ file_index \notin broken
  /\ content' = Written(taken)
  /\ data' = <<data[1] + taken, data[2]>>
  /\ offset' = offset + write_size
  /\ file_index' = file_index
  /\ call' = IF data[1] + taken = data[2] THEN Blank ELSE call
  /\ UNCHANGED <<files_, broken>>

\* One iteration of the loop over the files; the call returns when no data is
\* left.
Iteration ==
  /\ call # Blank
  /\ file_index \notin broken
  /\ content' = Written(taken)
  /\ data' = <<data[1] + taken, data[2]>>
  /\ offset' = offset + write_size
  /\ file_index' = file_index + 1
  /\ call' = IF data[1] + taken = data[2] THEN Blank ELSE call
  /\ UNCHANGED <<files_, broken>>

\* File::write throws, with n bytes in the file: the stream has failed, now or
\* in an earlier call, and stays so.
WriteFails(n) ==
  /\ call # Blank
  /\ IF file_index \in broken THEN n = 0 ELSE n <= taken
  /\ content' = Written(n)
  /\ broken' = broken \cup {file_index}
  /\ data' = <<data[1] + n, data[2]>>
  /\ call' = Blank
  /\ UNCHANGED <<files_, offset, file_index>>

Next ==
  \/ \E w \in Writes, from, to \in 0 .. get_total_length : Write(w, from, to)
  \/ Iteration
  \/ \E n \in 0 .. get_total_length : WriteFails(n)

\* File::write throws at once on a stream that has failed before.
WriteRefused == file_index \in broken /\ WriteFails(0)

\* The thread that is in write keeps running; a stream need not fail.
Spec == Init /\ [][Next]_vars /\ WF_vars(Iteration) /\ WF_vars(WriteRefused)
-----------------------------------------------------------------------------
(* Properties *)

\* The loop never indexes past files_, and no file is written outside the
\* length that the torrent gives it (File::write would extend the file).
TypeOK ==
  /\ call \in Writes \cup {Blank}
  /\ call # Blank => file_index \in Files
  /\ \A i \in Files : \A k \in DOMAIN content[i] :
       k \in 0 .. files_[i].length - 1

\* The file that holds offset o of the torrent.
FileOf(o) == CHOOSE i \in Files : files_[i].start_off <= o /\ o < End(i)

Stored(o) ==
  LET i == FileOf(o)
      k == o - files_[i].start_off
  IN IF k \in DOMAIN content[i] THEN content[i][k] ELSE Blank

Flat == INSTANCE FlatStore WITH
  size <- get_total_length,
  disk <- [o \in 0 .. get_total_length - 1 |-> Stored(o)],
  next <- data[1],
  stop <- data[2]

\* The files together behave as one array of bytes, for data that starts,
\* ends or crosses anywhere, empty files included, and when a write fails.
ImplementsFlatStore == Flat!Spec

\* Every call of write comes to an end.
WriteReturns == call # Blank ~> call = Blank
=============================================================================
