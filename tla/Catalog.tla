------------------------------- MODULE Catalog -------------------------------
(***************************************************************************)
(* The adapters' pure parts: data/adapters/base.py (queries and limits),   *)
(* osm.py (Overpass queries and the dataset ids that record them), stac.py *)
(* (items and assets) and transport.py (plans for archives).               *)
(*                                                                         *)
(* Text that is taken apart again is a sequence of symbols: a key, a       *)
(* letter, or one of the separators ";", "=" and "&bbox=".  A box is one   *)
(* symbol; its numbers survive printing and parsing.                       *)
(***************************************************************************)
EXTENDS Integers, Sequences, SequencesExt, FiniteSets, FiniteSetsExt

CONSTANTS
  TagKeys,     \* ALLOWLISTED_TAG_KEYS
  SmallBoxes,  \* boxes within the area cap
  LargeBoxes,  \* boxes beyond it
  None         \* nothing

Boxes == SmallBoxes \cup LargeBoxes
BBoxMark == "&bbox="
TagMark == ";"
ValueMark == "="

\* Separators are no keys and no boxes.
ASSUME SymbolsAssumption ==
  /\ TagKeys \cap {TagMark, ValueMark, BBoxMark, "long"} = {}
  /\ BBoxMark \notin Boxes

-------------------------------------------------------------------------------
(* Overpass                                                                  *)

\* Values are cut off at 100 characters; "long" stands for a stretch beyond that.
TooLong(value) == Contains(value, "long")

\* build_overpass_ql accepts; the query it makes is the box and the tags themselves.
QueryBuilt(tags, box) ==
  /\ box \in SmallBoxes
  /\ tags # <<>>
  /\ \A i \in DOMAIN tags : tags[i].key \in TagKeys /\ ~TooLong(tags[i].value)

\* "key=value"
TagText(tag) == <<tag.key, ValueMark>> \o tag.value

\* "key=value;key=value&bbox=x0,y0,x1,y1"
EncodeDatasetId(tags, box) ==
  LET joined[n \in 0 .. Len(tags)] ==
        IF n = 0 THEN <<>>
        ELSE IF n = 1 THEN TagText(tags[1])
        ELSE joined[n - 1] \o <<TagMark>> \o TagText(tags[n])
  IN joined[Len(tags)] \o <<BBoxMark, box>>

\* A separator begins a new part, any other symbol belongs to the last one.
Scanned(parts, symbol, separator) ==
  IF symbol = separator THEN Append(parts, <<>>)
  ELSE Append(Front(parts), Append(Last(parts), symbol))

\* str.split: the parts between separators, empty ones included.
Split(text, separator) ==
  LET parts[k \in 0 .. Len(text)] ==
        IF k = 0 THEN << <<>> >> ELSE Scanned(parts[k - 1], text[k], separator)
  IN parts[Len(text)]

\* Position of the first separator: str.partition.
Cut(text, separator) == Min({i \in DOMAIN text : text[i] = separator})

\* Mutant: a piece is taken apart at every "=", and must have two parts.
PieceOfTwo(piece) ==
  /\ Len(Split(piece, ValueMark)) = 2
  /\ \E key \in TagKeys : Split(piece, ValueMark)[1] = <<key>>
  /\ Split(piece, ValueMark)[2] # <<>>
  /\ ~TooLong(piece)

\* A piece that is a key of the allowlist, "=", and a value of a proper length.
TagPiece(piece) ==
  /\ Contains(piece, ValueMark)
  /\ \E key \in TagKeys : SubSeq(piece, 1, Cut(piece, ValueMark) - 1) = <<key>>
  /\ Cut(piece, ValueMark) < Len(piece)
  /\ ~TooLong(piece)

\* What follows the first mark must be a box and nothing else, what precedes it pieces.
Decodable(id) ==
  LET at == Cut(id, BBoxMark)
      pieces == Split(SubSeq(id, 1, at - 1), TagMark)
  IN /\ at + 1 = Len(id)
     /\ id[at + 1] \in Boxes
     /\ \A n \in DOMAIN pieces : TagPiece(pieces[n])

\* The query of an id that is not rejected.
DecodeDatasetId(id) ==
  LET at == Cut(id, BBoxMark)
      pieces == Split(SubSeq(id, 1, at - 1), TagMark)
  IN [tags |-> [n \in DOMAIN pieces |->
                  [key |-> pieces[n][1], value |-> SubSeq(pieces[n], 3, Len(pieces[n]))]],
      box |-> id[at + 1]]

\* get_metadata: an id that cannot be decoded has no assets, and nothing to download.
HasAsset(id) == Decodable(id)

\* An element of an answer: its kind, whether its id and coordinates can be read, and
\* for a way its points, given inline or as ids of nodes.  Mutant: nodes are looked up
\* among those before the way.
NodesBefore(elements, i) == {elements[j].id : j \in {k \in 1 .. i : elements[k].kind = "node" /\ elements[k].ok}}

\* Nodes are collected first, from the whole answer.
NodesFor(elements, i) == {elements[j].id : j \in {k \in DOMAIN elements : elements[k].kind = "node" /\ elements[k].ok}}

\* The references that are among the nodes, in their order.
Known(refs, nodes) ==
  LET line[k \in 0 .. Len(refs)] ==
        IF k = 0 THEN <<>>
        ELSE IF refs[k] \in nodes THEN Append(line[k - 1], refs[k]) ELSE line[k - 1]
  IN line[Len(refs)]

LineOf(elements, i) ==
  IF elements[i].inline # <<>> THEN SelectSeq(elements[i].inline, LAMBDA p : p # None)
  ELSE Known(elements[i].refs, NodesFor(elements, i))

\* overpass_json_to_geojson: points for nodes, lines for ways that keep two points;
\* relations are counted and skipped, whatever cannot be read is passed over.  Features
\* are told apart by the position of their element.
Feature(elements, i) ==
  IF elements[i].kind = "node" THEN [id |-> elements[i].id, line |-> <<>>]
  ELSE [id |-> elements[i].id, line |-> LineOf(elements, i)]

Converted(elements) ==
  LET kept == {i \in DOMAIN elements :
                 /\ elements[i].ok
                 /\ \/ elements[i].kind = "node"
                    \/ elements[i].kind = "way" /\ Len(LineOf(elements, i)) >= 2}
  IN [i \in kept |-> Feature(elements, i)]

-------------------------------------------------------------------------------
(* STAC                                                                      *)

\* An item's asset as _asset_href sees it: whether its media type and its address are
\* allowed, and the size the item declares for it (None: none).
AssetAccepted(asset, maxBytes) ==
  /\ asset # None
  /\ asset.media
  /\ asset.host
  /\ asset.declared = None \/ asset.declared <= maxBytes

-------------------------------------------------------------------------------
(* Archives (safe_extract_zip)                                               *)

\* A member: whether _member_safe accepts its name, its size as declared and as
\* packed, and how much its data really yield.
Total(sizes) ==
  LET sum[i \in 0 .. Len(sizes)] == IF i = 0 THEN 0 ELSE sum[i - 1] + sizes[i]
  IN sum[Len(sizes)]

\* The plan is made from declared sizes.
ArchiveAccepted(members, maxMembers, maxBytes, maxRatio) ==
  LET unpacked == Total([i \in DOMAIN members |-> members[i].declared])
      packed == Total([i \in DOMAIN members |-> members[i].packed])
  IN /\ Len(members) <= maxMembers
     /\ \A i \in DOMAIN members : members[i].safe
     /\ unpacked <= maxBytes
     /\ packed > 0 => unpacked <= maxRatio * packed

\* Mutant: a member is copied to its end.
WrittenToEnd(member) == member.real

\* At most the declared size is written, whatever the data yield.
Written(member) == IF member.real < member.declared THEN member.real ELSE member.declared
================================================================================
