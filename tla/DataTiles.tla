------------------------------ MODULE DataTiles ------------------------------
(***************************************************************************)
(* How GetRawEntries (staticct/client.go) reads a range of entries out of  *)
(* the data tiles of a Static CT log: which tiles, under which path, of    *)
(* which width, and what of each.  A tile is the sequence of its entries.  *)
(***************************************************************************)
EXTENDS Integers, Sequences

CONSTANTS
    TileWidth,      \* 256
    Radix,          \* 10
    Group           \* digits in an element of a path: 3

\* An entry no log has.
Error == <<-1>>

Digits[n \in Nat] ==
    IF n < Radix THEN <<n>> ELSE Append(Digits[n \div Radix], n % Radix)

Padded(digits) ==
    [i \in 1 .. ((Group - (Len(digits) % Group)) % Group) |-> 0] \o digits

\* tileIndexPath: the elements of the path, all but the last of them marked.
TileIndexPath(index) ==
    LET s == Padded(Digits[index])
    IN  [k \in 1 .. (Len(s) \div Group) |->
            [x |-> k * Group < Len(s),
             digits |-> SubSeq(s, (k - 1) * Group + 1, k * Group)]]

DataTilePath(index, width) ==
    [index |-> TileIndexPath(index), width |-> IF width < TileWidth THEN width ELSE 0]

\* Mutant: every tile is asked for as a full one.
WidthOfFull(tile, size) == TileWidth

\* Only the tile behind the full ones is partial, if there is one.
WidthOf(tile, size) ==
    IF tile = size \div TileWidth /\ size % TileWidth > 0 THEN size % TileWidth ELSE TileWidth

\* How many entries one pass of the loop takes.
Take(current, end, size) ==
    LET available == WidthOf(current \div TileWidth, size) - (current % TileWidth)
    IN  IF end - current + 1 < available THEN end - current + 1 ELSE available

-----------------------------------------------------------------------------
(* The log: paths as the Static CT API writes them, a tile per path.       *)

\* Elements of Group digits, with an x on all but the last and none that is all zeros in
\* front.
IsIndexPath(path) ==
    /\ path # <<>>
    /\ \A k \in DOMAIN path : Len(path[k].digits) = Group /\ path[k].x = (k < Len(path))
    /\ Len(path) > 1 => \E i \in 1 .. Group : path[1].digits[i] # 0

\* The number an index path stands for, digit by digit.
IndexOf(path) ==
    LET Value[n \in Nat] ==
          IF n = 0 THEN 0
          ELSE Radix * Value[n - 1]
                 + path[((n - 1) \div Group) + 1].digits[((n - 1) % Group) + 1]
    IN  Value[Group * Len(path)]

\* What a log serves that has these leaves, and still has the partial tiles of some
\* widths.
Serve(log, path) ==
    LET width == IF path.width = 0 THEN TileWidth ELSE path.width
        first == IndexOf(path.index) * TileWidth
    IN  IF /\ IsIndexPath(path.index)
           /\ first + width <= Len(log.leaves)
           /\ path.width # 0 => path.width \in log.partials
        THEN SubSeq(log.leaves, first + 1, first + width)
        ELSE Error

-----------------------------------------------------------------------------
(* The client.                                                             *)

\* getDataTile: a partial tile that is gone is looked for in the full one.
GetDataTile(tile, width, log) ==
    LET body == Serve(log, DataTilePath(tile, width))
        full == Serve(log, DataTilePath(tile, TileWidth))
    IN  IF body # Error
        THEN IF Len(body) = width THEN body ELSE Error
        ELSE IF width < TileWidth /\ full # Error /\ Len(full) >= width
             THEN SubSeq(full, 1, width) ELSE Error

\* The loop of GetRawEntries over an inclusive range of a tree of the given size.
GetRawEntries(start, end, size, log) ==
    LET Read[left \in 0 .. (end - start + 1)] ==
          IF left = 0 THEN <<>>
          ELSE LET current == end - left + 1
                   tile == current \div TileWidth
                   offset == current % TileWidth
                   take == Take(current, end, size)
                   entries == GetDataTile(tile, WidthOf(tile, size), log)
                   rest == Read[left - take]
               IN  IF entries = Error \/ rest = Error THEN Error
                   ELSE SubSeq(entries, offset + 1, offset + take) \o rest
    IN  Read[end - start + 1]
=============================================================================
