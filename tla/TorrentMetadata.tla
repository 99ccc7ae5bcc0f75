-------------------------- MODULE TorrentMetadata --------------------------
(***************************************************************************)
(* parse_torrent_file, on the text of a torrent file.  An exception is the *)
(* result Rejected; paths are the sequences of their parts, and the hash   *)
(* of a text is the text.                                                  *)
(***************************************************************************)
EXTENDS Bencode

Rejected == [rejected |-> TRUE]

\* check_field
Has(dict, field, type) == <<field>> \in DOMAIN dict /\ dict[<<field>>].type = type

\* check_field_type and std::get, for all parts of a list
All(list, type) == \A n \in DOMAIN list : list[n].type = type

\* parse_file_entry throws for anything else.
IsFileEntry(item) ==
  /\ item.type = "dict"
  /\ Has(item.val, "length", "int")
  /\ Has(item.val, "path", "list")
  /\ All(item.val[<<"path">>].val, "string")

\* cur_offset before the n-th file
Offset(list, n) ==
  FoldLeft(LAMBDA off, entry : off + entry.val[<<"length">>].val, 0, SubSeq(list, 1, n - 1))

\* parse_info throws for anything else.  A "length" hides "files".
IsInfo(info) ==
  /\ Has(info, "name", "string")
  /\ Has(info, "piece length", "int")
  /\ Has(info, "pieces", "string")
  /\ IF <<"length">> \in DOMAIN info THEN Has(info, "length", "int")
     ELSE /\ Has(info, "files", "list")
          /\ \A n \in DOMAIN info[<<"files">>].val : IsFileEntry(info[<<"files">>].val[n])

Files(info) ==
  LET name == info[<<"name">>].val
      list == info[<<"files">>].val
      file(n) ==
        [path |-> name \o FlattenSeq([m \in DOMAIN list[n].val[<<"path">>].val |->
                                        list[n].val[<<"path">>].val[m].val]),
         start_off |-> Offset(list, n),
         length |-> list[n].val[<<"length">>].val]
  IN IF <<"length">> \in DOMAIN info
     THEN <<[path |-> name, start_off |-> 0, length |-> info[<<"length">>].val]>>
     ELSE [n \in DOMAIN list |-> file(n)]

\* parse_announce_list; whatever it throws leaves the list empty.
AnnounceList(torrent) ==
  LET groups == torrent[<<"announce-list">>].val
  IN IF /\ Has(torrent, "announce-list", "list")
        /\ All(groups, "list")
        /\ \A g \in DOMAIN groups : All(groups[g].val, "string")
     THEN [g \in DOMAIN groups |->
             [n \in DOMAIN groups[g].val |-> groups[g].val[n].val]]
     ELSE <<>>

\* Mutant: the hash is that of the values in "info", without its ends.
get_info_hash_Inner(s, info) == SubSeq(s, info.start + 1, EndOf(info) - 2)

\* The text between the start and the end of the item.
get_info_hash(s, info) == Slice(s, info)

IsTorrent(item) ==
  /\ item.type = "dict"
  /\ Has(item.val, "announce", "string")
  /\ Has(item.val, "info", "dict")
  /\ IsInfo(item.val[<<"info">>].val)

parse_torrent_file(s) ==
  LET item    == BDecode(s)
      torrent == item.val
      info    == torrent[<<"info">>]
  IN IF ~ IsTorrent(item) THEN Rejected
     ELSE [name          |-> info.val[<<"name">>].val,
           announce      |-> torrent[<<"announce">>].val,
           announce_list |-> AnnounceList(torrent),
           piece_hashes  |-> info.val[<<"pieces">>].val,
           piece_length  |-> info.val[<<"piece length">>].val,
           files         |-> Files(info.val),
           info_hash     |-> get_info_hash(s, info)]
=============================================================================
