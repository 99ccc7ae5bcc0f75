------------------------------ MODULE Bencode ------------------------------
(***************************************************************************)
(* BDecode.  The input is a sequence of characters, and a character is a   *)
(* TLA+ string; what is inside a bencoded string may be any symbol, so     *)
(* that a name of the torrent format is one character here.  Positions are *)
(* counted from 1, and an exception is the result Invalid.                 *)
(*                                                                         *)
(* The end of the input needs no flags: each of the ways in which the      *)
(* stream can end early makes some later read fail, and so throws.  Texts  *)
(* are short: no number leaves the range of BencodeInt.                    *)
(***************************************************************************)
EXTENDS Integers, Sequences, SequencesExt

CONSTANT MAX_STRING_LEN

ASSUME BencodeAssumption == MAX_STRING_LEN \in Nat

Digits == <<"0", "1", "2", "3", "4", "5", "6", "7", "8", "9">>
IsDigit(c) == c \in {"0", "1", "2", "3", "4", "5", "6", "7", "8", "9"}

Invalid == [type |-> "invalid"]

\* A BencodeItem: what it holds, and where it lies in the input.
Item(type, val, start, next) ==
  [type |-> type, val |-> val, start |-> start, len |-> next - start]
EndOf(item) == item.start + item.len

\* The value of a sequence of digits.
Number(s) ==
  FoldLeft(LAMBDA n, c : 10 * n + (CHOOSE d \in 0 .. 9 : Digits[d + 1] = c), 0, s)

\* std::from_chars has used up all of a token.
IsNumber(s) == s # <<>> /\ \A k \in DOMAIN s : IsDigit(s[k])
IsInteger(s) == IsNumber(IF s # <<>> /\ s[1] = "-" THEN Tail(s) ELSE s)

\* The first position from i on that holds c, or 0.
Find(s, c, i) ==
  LET places == {k \in i .. Len(s) : s[k] = c}
  IN IF places = {} THEN 0 ELSE Min(places)

\* i is the position of the "i" or of the first digit.
parse_int(s, i) ==
  LET e     == Find(s, "e", i + 1)
      token == SubSeq(s, i + 1, e - 1)
  IN IF e = 0 \/ ~ IsInteger(token) THEN Invalid
     ELSE Item("int", IF token[1] = "-" THEN - Number(Tail(token)) ELSE Number(token),
               i, e + 1)

parse_string(s, i) ==
  LET colon  == Find(s, ":", i)
      token  == SubSeq(s, i, colon - 1)
      next   == colon + 1 + Number(token)
  IN IF \/ colon = 0 \/ ~ IsNumber(token)
        \/ Number(token) > MAX_STRING_LEN
        \/ next > Len(s) + 1
     THEN Invalid
     ELSE Item("string", SubSeq(s, colon + 1, next - 1), i, next)

RECURSIVE parse(_, _), parse_items(_, _, _), parse_pairs(_, _, _)

\* The items from position i up to an "e": what the loop of parse_list has
\* collected then, and the position of the "e", or 0 if it throws.
parse_items(s, i, items) ==
  IF i > Len(s) THEN <<items, 0>>
  ELSE IF s[i] = "e" THEN <<items, i>>
  ELSE LET item == parse(s, i)
       IN IF item = Invalid THEN <<items, 0>>
          ELSE parse_items(s, EndOf(item), Append(items, item))

\* unordered_map::insert keeps the item that is there.
Inserted(dict, key, item) ==
  [k \in DOMAIN dict \cup {key} |-> IF k \in DOMAIN dict THEN dict[k] ELSE item]

\* The same for parse_dict: an item, which has to be a string, and another.
parse_pairs(s, i, dict) ==
  IF i > Len(s) THEN <<dict, 0>>
  ELSE IF s[i] = "e" THEN <<dict, i>>
  ELSE LET key == parse(s, i)
       IN IF key.type # "string" THEN <<dict, 0>>
          ELSE LET item == parse(s, EndOf(key))
               IN IF item = Invalid THEN <<dict, 0>>
                  ELSE parse_pairs(s, EndOf(item), Inserted(dict, key.val, item))

\* Mutant: the place of a list is taken after its "l".
parse_list_Late(s, i) ==
  LET r == parse_items(s, i + 1, <<>>)
  IN IF r[2] = 0 THEN Invalid ELSE Item("list", r[1], i + 1, r[2] + 1)

parse_list(s, i) ==
  LET r == parse_items(s, i + 1, <<>>)
  IN IF r[2] = 0 THEN Invalid ELSE Item("list", r[1], i, r[2] + 1)

parse_dict(s, i) ==
  LET r == parse_pairs(s, i + 1, << >>)
  IN IF r[2] = 0 THEN Invalid ELSE Item("dict", r[1], i, r[2] + 1)

parse(s, i) ==
  CASE i > Len(s)  -> Invalid
    [] i <= Len(s) /\ s[i] = "i" -> parse_int(s, i)
    [] i <= Len(s) /\ s[i] = "l" -> parse_list(s, i)
    [] i <= Len(s) /\ s[i] = "d" -> parse_dict(s, i)
    [] i <= Len(s) /\ IsDigit(s[i]) -> parse_string(s, i)
    [] OTHER -> Invalid

\* Mutant: bytes after the item are ignored.
BDecode_Prefix(s) == parse(s, 1)

BDecode(s) ==
  LET item == parse(s, 1)
  IN IF item = Invalid \/ EndOf(item) # Len(s) + 1 THEN Invalid ELSE item
-----------------------------------------------------------------------------
(* What bencoding is, said without a parser *)

\* All ways to cut s into two parts that are not empty.
Cuts(s) == {<<SubSeq(s, 1, k), SubSeq(s, k + 1, Len(s))>> : k \in 1 .. Len(s) - 1}

IsString(s) ==
  \E k \in DOMAIN s :
    /\ s[k] = ":"
    /\ IsNumber(SubSeq(s, 1, k - 1))
    /\ Number(SubSeq(s, 1, k - 1)) = Len(s) - k
    /\ Len(s) - k <= MAX_STRING_LEN

RECURSIVE IsItem(_), AreItems(_), ArePairs(_)

\* s is an item, a sequence of items, a sequence of strings and items.
IsItem(s) ==
  \/ IsString(s)
  \/ /\ Len(s) >= 2
     /\ s[Len(s)] = "e"
     /\ LET inner == SubSeq(s, 2, Len(s) - 1)
        IN \/ s[1] = "i" /\ IsInteger(inner)
           \/ s[1] = "l" /\ AreItems(inner)
           \/ s[1] = "d" /\ ArePairs(inner)

AreItems(s) ==
  s = <<>> \/ IsItem(s) \/ \E c \in Cuts(s) : IsItem(c[1]) /\ AreItems(c[2])

ArePairs(s) ==
  s = <<>> \/ \E c \in Cuts(s) :
    /\ IsString(c[1])
    /\ IsItem(c[2]) \/ \E r \in Cuts(c[2]) : IsItem(r[1]) /\ ArePairs(r[2])

\* item and everything inside it.
RECURSIVE Within(_)
Within(item) ==
  {item} \cup CASE item.type = "list" -> UNION {Within(x) : x \in ToSet(item.val)}
                [] item.type = "dict" -> UNION {Within(item.val[k]) : k \in DOMAIN item.val}
                [] OTHER -> {}

\* What an item holds, without its place.
RECURSIVE Content(_)
Content(item) ==
  CASE item.type = "list" -> <<"list", [n \in DOMAIN item.val |-> Content(item.val[n])]>>
    [] item.type = "dict" -> <<"dict", [k \in DOMAIN item.val |-> Content(item.val[k])]>>
    [] OTHER -> <<item.type, item.val>>

Slice(s, item) == SubSeq(s, item.start, EndOf(item) - 1)
=============================================================================
