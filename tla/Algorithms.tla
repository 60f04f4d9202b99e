------------------------------ MODULE Algorithms ------------------------------
(***************************************************************************)
(* Questions to the computations that keep no state: what MerkleTiles,     *)
(* DataTiles, EntryCodec and DomainFilter answer for any tree, any range,  *)
(* any tile and any options.                                               *)
(***************************************************************************)
EXTENDS MerkleTiles, DomainFilter

CONSTANTS
    Entries,        \* what may be a leaf
    Trees,          \* sequences of leaves
    DataWidth,      \* entries in a data tile
    Radix, Group,   \* digits of a tile path, and how many are in an element of it
    Tiles,          \* sequences of log entries, with their fields
    OptionSets,     \* sets of -domain options
    Names,          \* names in a certificate
    DomainNames,    \* domains to select
    MaxBlanks       \* blanks on either side of an option

Data == INSTANCE DataTiles WITH TileWidth <- DataWidth
Codec == INSTANCE EntryCodec

ASSUME AlgorithmConstants ==
    /\ \A t \in Trees : t \in Seq(Entries) /\ Len(t) <= TwoTo[MaxHeight]    \* uint40
    /\ \A o \in OptionSets : \A s \in o : s \in Seq(Char)

ASSUME DataConstants ==
    /\ {DataWidth, Group} \subseteq Nat \ {0} /\ Radix \in Nat \ {0, 1}
    /\ Data!Error \notin Seq(Entries)
    /\ \A es \in Tiles : es \in Seq(Codec!LogEntry)

\* A domain has letters, and a dot only between other characters.
ASSUME NameConstants ==
    /\ \A n \in Names : n \in Seq(Char)
    /\ \A d \in DomainNames : /\ d \in Seq(Char \ {" ", "*"}) /\ d # <<>>
                              /\ d[1] # "." /\ d[Len(d)] # "."
    /\ MaxBlanks \in Nat

VARIABLE question

Asked(kind) == question.kind = kind

\* A tree, the size of an older one and the index of an entry.
TreeQuestions ==
    UNION {[kind : {"tree"}, leaves : {t}, prefix : 0 .. Len(t), target : 0 .. (Len(t) - 1)] :
              t \in Trees}

\* A range of a checkpoint, from a log that has grown since and has some partial tiles left.
RangeQuestions ==
    {q \in UNION {[kind : {"range"}, leaves : {t}, size : 1 .. Len(t), from : 0 .. Len(t),
                   to : 0 .. Len(t), partials : SUBSET (1 .. (DataWidth - 1))] : t \in Trees} :
        q.from <= q.to /\ q.to < q.size}

\* The entries of a data tile, and how much of it arrives.
TileQuestions ==
    UNION {[kind : {"tile"}, entries : {es}, cut : 0 .. Len(Codec!DataTile(es))] : es \in Tiles}

DomainQuestions == [kind : {"domain"}, options : OptionSets]

\* A name in a certificate, and how an option that means a domain is written.
SelectQuestions ==
    [kind : {"select"}, name : Names, domain : DomainNames, before : 0 .. MaxBlanks,
     after : 0 .. MaxBlanks, dot : BOOLEAN, star : BOOLEAN, root : BOOLEAN]

-----------------------------------------------------------------------------
\* What a log with these leaves answers to a client that asks for these tiles.
Fetched(leaves, paths) ==
    [path \in {p \in paths : HasTile(leaves, p)} |-> Tile(leaves, path)]

\* The tiles of a tree give the RFC 6962 root of every tree it contains, itself
\* included, up to the largest the hash levels reach (checkpoint.go:16): what the
\* client compares with the signed root and with the previous checkpoint.
PrefixRootIsOldRoot ==
    Asked("tree") =>
        LET leaves == question.leaves
            size == Len(leaves)
        IN  RangeRoot(0, question.prefix, size,
                      Fetched(leaves, RangeTiles(0, question.prefix, size)))
                = TreeHash(SubSeq(leaves, 1, question.prefix))

\* The entry at an index leads to the root, and no other does.
InclusionIsExact ==
    Asked("tree") =>
        LET leaves == question.leaves
            size == Len(leaves)
            tiles == Fetched(leaves, InclusionTiles(0, size, question.target, size))
        IN  \A e \in Entries :
                RootWithLeaf(0, size, question.target, LeafHash(e), size, tiles)
                    = TreeHash(leaves)
                <=> e = leaves[question.target + 1]

\* A range that crosses tiles, begins and ends inside them and reaches into the partial
\* one is read in its order and without a gap or a repetition, through paths the log
\* understands (GetRawEntries); it fails exactly where the log has neither the partial
\* tile any more nor the full one yet.
RangeReadsItself ==
    Asked("range") =>
        LET leaves == question.leaves
            gone == /\ question.size % DataWidth \notin question.partials
                    /\ DataWidth * (question.to \div DataWidth + 1) > Len(leaves)
        IN  Data!GetRawEntries(question.from, question.to, question.size,
                               [leaves |-> leaves, partials |-> question.partials])
                = IF gone THEN Data!Error
                  ELSE SubSeq(leaves, question.from + 1, question.to + 1)

\* What certparser finds in an entry of a data tile is what the log put there, the leaf
\* is the one the tree hashes, and a tile that is cut off gives nothing, unless the cut
\* is between two entries (parseDataTile).
TileReadsBack ==
    Asked("tile") =>
        LET entries == question.entries
            parsed == Codec!ParseDataTile(SubSeq(Codec!DataTile(entries), 1, question.cut))
            whole == {n \in 0 .. Len(entries) :
                         question.cut = Len(Codec!DataTile(SubSeq(entries, 1, n)))}
        IN  /\ parsed.ok <=> whole # {}
            /\ parsed.ok => whole = {Len(parsed.entries)}
            /\ parsed.ok => \A i \in DOMAIN parsed.entries :
                 LET e == entries[i]
                     raw == parsed.entries[i]
                 IN  /\ raw.leaf = Codec!MerkleTreeLeaf(e)
                     /\ Codec!ParseMerkleTreeLeaf(raw.leaf, raw.extra)
                          = [timestamp |-> e.timestamp,
                             isPrecert |-> e.type = Codec!Precert,
                             certificate |-> e.cert]

\* A state file that is accepted for the domains of this run was written under the same
\* filter: the selection hash tells apart whatever the parser tells apart.
BindingDeterminesFilter ==
    Asked("domain") =>
        \A others \in OptionSets :
            Selection(question.options) = Selection(others)
                => Filter(question.options) = Filter(others)

\* The domains a name belongs to: itself, and what is left behind each of its dots.
DomainsOf(name) ==
    {SubSeq(name, i + 1, Len(name)) : i \in {0} \cup {j \in DOMAIN name : name[j] = "."}}

Blanks(n) == [i \in 1 .. n |-> " "]

\* The option of a question.
Option(q) ==
    Blanks(q.before)
      \o (IF q.dot THEN Dot ELSE <<>>) \o (IF q.star THEN Wildcard ELSE <<>>)
      \o q.domain \o (IF q.root THEN Dot ELSE <<>>) \o Blanks(q.after)

\* An option selects exactly the names that belong to its domain (matchesDomain), however
\* it is written: blanks, capitals, a dot in front or behind, a wildcard in front of it or
\* of the name.
SelectsSubdomains ==
    Asked("select") =>
        (Selected({question.name}, {}, {Option(question)})
            <=> Lower(question.domain)
                    \in DomainsOf(TrimPrefix(Lower(question.name), Wildcard)))
=============================================================================
