----------------------------- MODULE FormatsMC -----------------------------
(***************************************************************************)
(* The formats of the client: a behaviour either puts texts and torrent    *)
(* files to the parsers or follows the bytes of one connection.            *)
(*                                                                         *)
(* For the connection: numbers whose bytes all differ; handshakes that     *)
(* differ from ours where they may and where they must not; messages       *)
(* without payload, with an empty one, and with one that is longer than a  *)
(* byte can say.                                                           *)
(***************************************************************************)
EXTENDS Wire, Codec

Hash == [n \in 1 .. 20 |-> n]
PeerId == [n \in 1 .. 20 |-> 50 + n]

Ours == [protocol |-> Protocol, reserved |-> [n \in 1 .. 8 |-> 0], hash |-> Hash, id |-> PeerId]

SomeGreetings ==
  {[Ours EXCEPT !.reserved[8] = 5, !.id[1] = 77],
   [Ours EXCEPT !.protocol[1] = 18], [Ours EXCEPT !.protocol[20] = 18],
   [Ours EXCEPT !.hash[1] = 77], [Ours EXCEPT !.hash[20] = 77]}

SomeMessages ==
  {KeepAlive, Message(ID.UNCHOKE, <<>>, <<>>),
   Message(ID.HAVE_, <<<<4, 3, 2, 1>>>>, <<>>),
   Message(ID.PIECE, <<<<4, 3, 2, 1>>, <<0, 64, 0, 0>>>>, [n \in 1 .. 300 |-> n % 256])}

SomeInfos == {<<<<4, 3, 2, 1>>, <<0, 64, 0, 0>>, <<0, 0, 64, 0>>>>,
              <<<<255, 0, 0, 0>>, <<0, 0, 0, 0>>, <<1, 2, 0, 0>>>>}

FormatsInit == Init /\ WireInit

FormatsNext ==
  \/ WireInit /\ Next /\ UNCHANGED wireVars
  \/ Init /\ WireNext /\ UNCHANGED vars

FormatsSpec == FormatsInit /\ [][FormatsNext]_<<vars, wireVars>>
=============================================================================
