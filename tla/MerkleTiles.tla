----------------------------- MODULE MerkleTiles -----------------------------
(***************************************************************************)
(* staticct/merkle.go: Merkle tree heads computed from the hash tiles of a *)
(* Static CT log.  A tile of level n holds up to TileWidth hashes, each of *)
(* a complete subtree of TileWidth^n leaves; the code has TileHeight = 8   *)
(* and MaxLevel = 5, so trees of up to 2^40 leaves.                        *)
(*                                                                         *)
(* Hashes are the terms they are hashes of, so that two are equal only if  *)
(* what was hashed is equal.                                               *)
(***************************************************************************)
EXTENDS Integers, SequencesExt

CONSTANTS TileHeight, MaxLevel

ASSUME TileConstants == TileHeight \in Nat \ {0} /\ MaxLevel \in Nat

\* 2^i, by which trees and tiles are cut.
TwoTo[i \in Nat] == IF i = 0 THEN 1 ELSE 2 * TwoTo[i - 1]

TileWidth == TwoTo[TileHeight]

\* The largest height of a node: trees have at most TwoTo[MaxHeight] leaves.
MaxHeight == TileHeight * MaxLevel

EmptyHash == <<>>
LeafHash(e) == <<e>>
Error == <<"error", "error", "error">>
Children(l, r) == IF Error \in {l, r} THEN Error ELSE <<l, r>>

Stretch(from, to) == from .. (to - 1)

\* A tile path is <<level, index, width>>; a full tile is served without a width.
FullPath(path) == <<path[1], path[2], TileWidth>>
IsPartial(path) == path[3] < TileWidth

-----------------------------------------------------------------------------
\* The powers of two up to n, and more.
Powers(n) == {TwoTo[i] : i \in 0 .. n}

\* largestPowerOfTwoLessThan, for n > 1.
SplitBelow(n) == CHOOSE k \in Powers(n) : k < n /\ n <= 2 * k

\* A range that is one node of the tree.
IsNode(start, count) == count \in Powers(count) /\ start % count = 0

HeightOf(count) == CHOOSE i \in 0 .. count : count = TwoTo[i]

-----------------------------------------------------------------------------
(* nodeHash: a node of the given height is folded out of one tile.         *)

LevelHashes(size, level) == size \div TwoTo[level * TileHeight]

\* Mutant: the last tile of a level is taken to be full.
FullTileAt(height, index, size) ==
    LET level == height \div TileHeight
        base == index * TwoTo[height % TileHeight]
    IN  <<level, base \div TileWidth, TileWidth>>

TileAt(height, index, size) ==
    LET level == height \div TileHeight
        base == index * TwoTo[height % TileHeight]
        tile == base \div TileWidth
    IN  <<level, tile, Min({TileWidth, LevelHashes(size, level) - tile * TileWidth})>>

\* What is left of the hashes behind an offset after so many rounds of hashing pairs.
FoldPairs(hashes, offset, rounds) ==
    LET work[k \in Nat] ==
          [i \in Nat |-> IF k = 0 THEN hashes[offset + i]
                         ELSE Children(work[k - 1][2 * i - 1], work[k - 1][2 * i])]
    IN  work[rounds][1]

\* The tree size does not hold the node, or no tile does.
Unavailable(height, index, size) ==
    LET level == height \div TileHeight
        count == TwoTo[height % TileHeight]
        base == index * count
    IN  \/ height > MaxHeight
        \/ base + count > LevelHashes(size, level)
        \/ (base % TileWidth) + count > TileAt(height, index, size)[3]

\* tiles maps the paths of the tiles there are to the hashes in them.
NodeHash(height, index, size, tiles) ==
    LET rounds == height % TileHeight
        offset == (index * TwoTo[rounds]) % TileWidth
        path == TileAt(height, index, size)
    IN  IF Unavailable(height, index, size) \/ path \notin DOMAIN tiles THEN Error
        ELSE FoldPairs(tiles[path], offset, rounds)

-----------------------------------------------------------------------------
(* rangeRoot and rootWithLeaf: the roots of n leaves behind the first s.   *)

RangeRoots(size, tiles) ==
    LET root[n \in Nat] ==
          [s \in Nat |->
              IF n = 0 THEN EmptyHash
              ELSE IF IsNode(s, n) THEN NodeHash(HeightOf(n), s \div n, size, tiles)
              ELSE LET k == SplitBelow(n)
                   IN  Children(root[k][s], root[n - k][s + k])]
    IN  root

RangeRoot(start, count, size, tiles) == RangeRoots(size, tiles)[count][start]

\* Mutant: the leaf and its sibling are hashed in the wrong order.
RootWithLeafSwapped(start, count, target, leaf, size, tiles) ==
    LET root[n \in Nat] ==
          [s \in Nat |->
              IF target \notin Stretch(s, s + n) THEN Error
              ELSE IF n = 1 THEN leaf
              ELSE LET k == SplitBelow(n)
                   IN  IF target < s + k
                       THEN Children(root[k][s], RangeRoot(s + k, n - k, size, tiles))
                       ELSE Children(root[n - k][s + k], RangeRoot(s, k, size, tiles))]
    IN  root[count][start]

RootWithLeaf(start, count, target, leaf, size, tiles) ==
    LET root[n \in Nat] ==
          [s \in Nat |->
              IF target \notin Stretch(s, s + n) THEN Error
              ELSE IF n = 1 THEN leaf
              ELSE LET k == SplitBelow(n)
                   IN  IF target < s + k
                       THEN Children(root[k][s], RangeRoot(s + k, n - k, size, tiles))
                       ELSE Children(RangeRoot(s, k, size, tiles), root[n - k][s + k])]
    IN  root[count][start]

-----------------------------------------------------------------------------
(* The tiles these computations read, which the client must have fetched.  *)

RangeTiles(start, count, size) ==
    LET read[n \in Nat] ==
          [s \in Nat |->
              IF n = 0 THEN {}
              ELSE IF IsNode(s, n) THEN {TileAt(HeightOf(n), s \div n, size)}
              ELSE LET k == SplitBelow(n) IN read[k][s] \cup read[n - k][s + k]]
    IN  read[count][start]

InclusionTiles(start, count, target, size) ==
    LET read[n \in Nat] ==
          [s \in Nat |->
              IF n <= 1 THEN {}
              ELSE LET k == SplitBelow(n)
                   IN  IF target < s + k
                       THEN read[k][s] \cup RangeTiles(s + k, n - k, size)
                       ELSE RangeTiles(s, k, size) \cup read[n - k][s + k]]
    IN  read[count][start]

-----------------------------------------------------------------------------
(* The definitions the above has to meet: the Merkle tree hash of RFC 6962 *)
(* section 2.1 and the tiles of the Static CT API.                         *)

\* Of n leaves behind the first s.
SubtreeHashes(leaves) ==
    LET hash[n \in Nat] ==
          [s \in Nat |->
              IF n = 0 THEN EmptyHash
              ELSE IF n = 1 THEN LeafHash(leaves[s + 1])
              ELSE LET k == Max(Powers(n) \cap (1 .. (n - 1)))
                   IN  <<hash[k][s], hash[n - k][s + k]>>]
    IN  hash

TreeHash(leaves) == SubtreeHashes(leaves)[Len(leaves)][0]

\* What a log that holds leaves serves under a path: nothing if it has no such tile.
HasTile(leaves, path) ==
    path[2] * TileWidth + path[3] <= LevelHashes(Len(leaves), path[1])

Tile(leaves, path) ==
    LET weight == TwoTo[path[1] * TileHeight]
        first == path[2] * TileWidth
    IN  [i \in 1 .. path[3] |->
            TreeHash(SubSeq(leaves, (first + i - 1) * weight + 1, (first + i) * weight))]
=============================================================================
