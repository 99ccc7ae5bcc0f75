--------------------------- MODULE FileManagerMC ---------------------------
(***************************************************************************)
(* FileManager on every list of up to MaxFiles files of at most MaxLength  *)
(* bytes, empty ones included.                                             *)
(***************************************************************************)
EXTENDS FileManager

CONSTANTS MaxFiles, MaxLength

\* cur_offset of parse_info in front of file i.
StartOff(lengths, i) ==
  LET off[j \in 1 .. i] == IF j = 1 THEN 0 ELSE off[j - 1] + lengths[j - 1]
  IN off[i]

MCLayouts ==
  UNION {{[i \in 1 .. n |-> [start_off |-> StartOff(l, i), length |-> l[i]]] :
            l \in [1 .. n -> 0 .. MaxLength] \ {[i \in 1 .. n |-> 0]}} : n \in 1 .. MaxFiles}
=============================================================================
