------------------------------ MODULE EntryCodec ------------------------------
(***************************************************************************)
(* The two parsers an entry of a Static CT log goes through:               *)
(* staticct/tile.go takes a data tile apart into leaves and extra data in  *)
(* the form of RFC 6962, and certparser/parser.go finds the certificate in *)
(* these.                                                                  *)
(*                                                                         *)
(* Data is a sequence of cells.  A field of fixed width (timestamp, type,  *)
(* length, issuer key hash, a fingerprint, a version) is one cell, the     *)
(* contents of a variable field are as many as its length says; a cut      *)
(* inside a field of fixed width is a cut in front of it.                  *)
(***************************************************************************)
EXTENDS Integers, Sequences

X509 == 0
Precert == 1

\* What a field is that cannot be read, and a certificate that is not found.
Unread == [value |-> <<>>, next |-> 0]
NoCertificate == <<>>
Cut(data, from, to) == SubSeq(data, from, to)
From(data, pos) == SubSeq(data, pos, Len(data))

\* readOpaque24 (not empty, least = 1) and readOpaque16 (least = 0): a length and as
\* many cells, from pos on; pos is 0 behind a field that could not be read.
ReadOpaque(data, pos, least) ==
    IF pos = 0 \/ pos > Len(data) \/ data[pos] < least \/ pos + data[pos] > Len(data)
    THEN Unread
    ELSE [value |-> Cut(data, pos + 1, pos + data[pos]), next |-> pos + data[pos] + 1]

-----------------------------------------------------------------------------
(* parseDataTile                                                           *)

\* Mutant: the extensions do not belong to the leaf.
LeafUpToCert(data, pos, signed, extensions) == <<0, 0>> \o Cut(data, pos, signed.next - 1)

\* The MerkleTreeLeaf of RFC 6962: version, leaf type and the TimestampedEntry.
Leaf(data, pos, signed, extensions) == <<0, 0>> \o Cut(data, pos, extensions.next - 1)

HasType(data, pos) == pos <= Len(data) /\ data[pos] \in {X509, Precert}

\* The entry that starts at pos, and where the next one starts.
ReadEntry(data, pos) ==
    IF ~HasType(data, pos + 1) THEN Unread
    ELSE LET precert == data[pos + 1] = Precert
             signed == ReadOpaque(data, IF precert THEN pos + 3 ELSE pos + 2, 1)
             extensions == ReadOpaque(data, signed.next, 0)
             cert == IF precert THEN ReadOpaque(data, extensions.next, 1) ELSE extensions
             chain == ReadOpaque(data, cert.next, 0)
         IN  [next |-> chain.next,
              value |-> [leaf |-> Leaf(data, pos, signed, extensions),
                         \* the pre-certificate with its length, and an empty chain
                         extra |-> Append(Cut(data, extensions.next, cert.next - 1), 0),
                         fingerprints |-> chain.value]]

ParseDataTile(data) ==
    LET Parse[left \in 0 .. Len(data)] ==
          IF left = 0 THEN [ok |-> TRUE, entries |-> <<>>]
          ELSE LET entry == ReadEntry(data, Len(data) - left + 1)
                   rest == Parse[Len(data) - entry.next + 1]
               IN  IF entry.next = 0 THEN [ok |-> FALSE, entries |-> <<>>]
                   ELSE [ok |-> rest.ok, entries |-> <<entry.value>> \o rest.entries]
    IN  Parse[Len(data)]

-----------------------------------------------------------------------------
(* parseMerkleTreeLeaf and what it calls                                   *)

\* A length and that many cells; anything may follow.
ParseX509Entry(data) == ReadOpaque(data, 1, 1).value

\* Behind the issuer key hash is the TBS certificate, which only has to be there; the
\* certificate is that of the extra data.
ParsePrecertEntry(data, extra) ==
    IF ReadOpaque(data, 2, 1) = Unread THEN NoCertificate ELSE ParseX509Entry(extra)

\* Behind version and leaf type are the timestamp and the type.
ParseMerkleTreeLeaf(leaf, extra) ==
    IF ~HasType(leaf, 4) THEN [certificate |-> NoCertificate]
    ELSE [timestamp |-> leaf[3],
          isPrecert |-> leaf[4] = Precert,
          certificate |-> IF leaf[4] = X509 THEN ParseX509Entry(From(leaf, 5))
                          ELSE ParsePrecertEntry(From(leaf, 5), extra)]

-----------------------------------------------------------------------------
(* What a log writes: the TileLeaf of the Static CT API, and the leaf that *)
(* RFC 6962 hashes.                                                        *)

LogEntry ==
    [type : {X509}, timestamp : Nat, cert : Seq(Nat) \ {<<>>}, extensions : Seq(Nat),
     chain : Seq(Nat)]
    \cup
    [type : {Precert}, timestamp : Nat, hash : Nat, tbs : Seq(Nat) \ {<<>>},
     cert : Seq(Nat) \ {<<>>}, extensions : Seq(Nat), chain : Seq(Nat)]

Opaque(s) == <<Len(s)>> \o s

Timestamped(e) ==
    <<e.timestamp, e.type>>
      \o (IF e.type = X509 THEN Opaque(e.cert) ELSE <<e.hash>> \o Opaque(e.tbs))
      \o Opaque(e.extensions)

TileLeaf(e) ==
    Timestamped(e) \o (IF e.type = Precert THEN Opaque(e.cert) ELSE <<>>) \o Opaque(e.chain)

MerkleTreeLeaf(e) == <<0, 0>> \o Timestamped(e)

DataTile(entries) ==
    LET First[n \in Nat] == IF n = 0 THEN <<>> ELSE First[n - 1] \o TileLeaf(entries[n])
    IN  First[Len(entries)]
=============================================================================
