------------------------------- MODULE Codec -------------------------------
(***************************************************************************)
(* The parsers of the client, put to use on bounded inputs: texts for      *)
(* BDecode, every sequence of characters up to a length; and torrent       *)
(* files, as what each of their fields may look like.                      *)
(***************************************************************************)
EXTENDS TorrentMetadata

CONSTANTS
  Characters,  \* of the texts
  MaxText,     \* bound on their length
  NoTorrent

VARIABLES text, torrent

vars == <<text, torrent>>

Init == text = <<>> /\ torrent = NoTorrent

Type(c) ==
  /\ torrent = NoTorrent
  /\ Len(text) < MaxText
  /\ text' = Append(text, c)
  /\ UNCHANGED torrent

\* What a field of a torrent file may look like.
Field == {"good", "wrong", "absent"}
Contents == {"length", "wrong length", "files", "wrong file", "length and files", "none"}
Torrents ==
  [announce : Field, list : Field, name : Field, pieces : Field,
   content : Contents, info : {"first", "last", "wrong"}]

OpenTorrent(t) ==
  /\ text = <<>> /\ torrent = NoTorrent
  /\ torrent' = t
  /\ UNCHANGED text

\* What has been parsed is put away.
Close ==
  /\ Len(text) = MaxText \/ torrent # NoTorrent
  /\ text' = <<>> /\ torrent' = NoTorrent

Next ==
  \/ \E c \in Characters : Type(c)
  \/ \E t \in Torrents : OpenTorrent(t)
  \/ Close

Spec == Init /\ [][Next]_vars
-----------------------------------------------------------------------------
(* Torrent files *)

IntText(n) == <<"i", Digits[n + 1], "e">>
Str(c) == <<"1", ":", c>>
List(items) == <<"l">> \o FlattenSeq(items) \o <<"e">>
Dict(pairs) == <<"d">> \o FlattenSeq(pairs) \o <<"e">>

\* A field and its value, of the right kind, of another, or not there.
Pair(field, is, good, wrong) ==
  CASE is = "good" -> Str(field) \o good
    [] is = "wrong" -> Str(field) \o wrong
    [] is = "absent" -> <<>>

File(n, path) ==
  Dict(<<Str("length") \o IntText(n), Str("path") \o List(<<Str("dir"), path>>)>>)

ContentText(content) ==
  LET length == Str("length") \o IntText(5)
      files  == Str("files") \o List(<<File(2, Str("a")), File(3, Str("b")), File(1, Str("c"))>>)
  IN CASE content = "length" -> length
       [] content = "wrong length" -> Str("length") \o Str("5")
       [] content = "files" -> files
       [] content = "wrong file" -> Str("files") \o List(<<File(2, Str("a")), File(3, IntText(1))>>)
       [] content = "length and files" -> files \o length
       [] content = "none" -> <<>>

InfoText(t) ==
  Dict(<<Pair("name", t.name, Str("n"), IntText(1)), Str("piece length") \o IntText(4),
         Pair("pieces", t.pieces, Str("h"), List(<<>>)), ContentText(t.content)>>)

TorrentText(t) ==
  LET announce == Pair("announce", t.announce, Str("u"), IntText(0))
      list == Pair("announce-list", t.list, List(<<List(<<Str("u"), Str("v")>>)>>),
                   List(<<Str("u")>>))
      info == Str("info") \o IF t.info = "wrong" THEN Str("x") ELSE InfoText(t)
  IN IF t.info = "last" THEN Dict(<<announce, list, info>>)
     ELSE Dict(<<info, announce, list, Str("info") \o IntText(7)>>)
-----------------------------------------------------------------------------
(* Properties *)

\* BDecode accepts a text exactly when it is an item of the grammar: numbers
\* and lengths are taken to their ends, lists and dictionaries are closed, keys
\* are strings, nothing follows.
AcceptsGrammar == BDecode(text) # Invalid <=> IsItem(text)

\* start() and len() of every item inside an item delimit a text that decodes
\* to the same content, which is what the info hash is computed from.
SpansExact ==
  BDecode(text) # Invalid =>
    \A item \in Within(BDecode(text)) :
      LET again == BDecode(Slice(text, item))
      IN again # Invalid /\ Content(again) = Content(item)

\* A torrent file is read if "announce" and "info" are what they have to be,
\* in any order and although a later field repeats "info"; an announce-list of
\* the wrong shape is dropped.  Then the hash is that of the text of "info",
\* and the files follow each other from offset 0, as FileManager expects.
TorrentRead ==
  torrent # NoTorrent =>
    LET t == torrent
        r == parse_torrent_file(TorrentText(t))
        readable == /\ t.announce = "good" /\ t.info # "wrong"
                    /\ t.name = "good" /\ t.pieces = "good"
                    /\ t.content \in {"length", "files", "length and files"}
    IN IF ~ readable THEN r = Rejected
       ELSE /\ r # Rejected
            /\ r.info_hash = InfoText(t)
            /\ r.announce_list = IF t.list = "good" THEN << << <<"u">>, <<"v">> >> >> ELSE <<>>
            /\ r.files[1].start_off = 0
            /\ Len(r.files) = IF t.content = "files" THEN 3 ELSE 1
            /\ \A n \in 2 .. Len(r.files) :
                 r.files[n].start_off = r.files[n - 1].start_off + r.files[n - 1].length
=============================================================================
