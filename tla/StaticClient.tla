---------------------------- MODULE StaticClient ----------------------------
(***************************************************************************)
(* staticct.Client, the verifying reader of one Static CT log: checkpoints *)
(* are accepted only if the hash tiles reconstruct their root and contain  *)
(* the previous tree, entries are returned only if they lead to the root   *)
(* of the accepted checkpoint, and hash tiles are kept in a bounded cache  *)
(* that all calls share.                                                   *)
(*                                                                         *)
(* The runner asks for a tree head while no worker reads entries (scrape   *)
(* and poll do one after the other), and several workers read entries at   *)
(* once.  What the log answers is free: tiles of any of its views, a body  *)
(* of the wrong length, an error.  Requests are taken with all their       *)
(* retries; signatures are taken to be valid, and a checkpoint is the tree *)
(* whose root it signs.                                                    *)
(***************************************************************************)
EXTENDS MerkleTiles

CONSTANTS
    Workers,    \* the goroutines that read entries
    Poller,     \* the caller of GetTreeHead
    Views,      \* sequences of leaves the log may sign the prefixes of
    Honest,     \* the view it serves once it works properly
    CacheMax,   \* maxStaticCacheEntries
    MaxRange,   \* bound: the most entries of one request
    Garbled,    \* the bodies of the wrong length the log may answer with
    None

Values == UNION {Range(v) : v \in Views}

ASSUME ClientConstants ==
    /\ Poller \notin Workers
    /\ Honest \in Views /\ <<>> \notin Views
    /\ CacheMax \in Nat \ {0}
    /\ None \notin Seq(Values)
    /\ \A v \in Views : v \in Seq(Values) /\ Len(v) <= TwoTo[MaxHeight]   \* uint40

VARIABLES
    current,    \* the accepted checkpoint of this process, or None
    anchor,     \* the checkpoint consistency is verified against, or None
    saved,      \* the tree head in the runner's state file, or None
    cache,      \* [path -> body]: the hash tiles kept
    cacheOrder, \* their paths, oldest first
    calls,      \* [Callers -> what the call is doing]
    sound       \* the log has come to work properly, for good

vars == <<current, anchor, saved, cache, cacheOrder, calls, sound>>

Callers == Workers \cup {Poller}
Idle == [at |-> "idle"]
Nothing == [p \in {} |-> <<>>]      \* no tiles

\* Another tile.
With(tiles, path, body) ==
    [p \in DOMAIN tiles \cup {path} |-> IF p = path THEN body ELSE tiles[p]]

Init == /\ current = None /\ anchor = None /\ saved = None
        /\ cache = Nothing /\ cacheOrder = <<>>
        /\ calls = [c \in Callers |-> Idle]
        /\ sound = FALSE

Become(c, call) == calls' = [calls EXCEPT ![c] = call]
KeepCheckpoints == UNCHANGED <<current, anchor, saved, sound>>
KeepCache == UNCHANGED <<cache, cacheOrder>>

-----------------------------------------------------------------------------
(* getCached and getHashTile: a call reads the tiles it needs, one by one. *)

\* The bodies the log may answer a path with.
Bodies(path) ==
    {Tile(v, path) : v \in {w \in IF sound THEN {Honest} ELSE Views : HasTile(w, path)}}
        \cup (IF sound THEN {} ELSE Garbled)

\* A full tile is complete, a partial one may be the prefix of a longer body.
Usable(want, body) == IF IsPartial(want) THEN Len(body) >= want[3] ELSE Len(body) = TileWidth

\* The call with the hashes of a tile it wanted, or at its end if they are unusable.
WithTile(call, want, body) ==
    IF Usable(want, body)
    THEN [call EXCEPT !.need = @ \ {want},
                      !.got = With(@, want, SubSeq(body, 1, want[3])),
                      !.ask = None]
    ELSE Idle

Reading(c) == calls[c].at \in {"root", "prefix", "proof"}

\* A tile found in the cache.
CacheHit(c) ==
    /\ Reading(c) /\ calls[c].ask = None
    /\ \E want \in calls[c].need \cap DOMAIN cache :
         Become(c, WithTile(calls[c], want, cache[want]))
    /\ KeepCheckpoints /\ KeepCache

\* A tile missed in the cache is asked for, without a lock.
CacheMiss(c) ==
    /\ Reading(c) /\ calls[c].ask = None
    /\ \E want \in calls[c].need \ DOMAIN cache :
         Become(c, [calls[c] EXCEPT !.ask = [want |-> want, url |-> want]])
    /\ KeepCheckpoints /\ KeepCache

\* The body is kept, for the oldest one if the cache is full.
CacheWith(url, body) ==
    /\ cache' = LET full == Len(cacheOrder) >= CacheMax
                    kept == IF full THEN DOMAIN cache \ {cacheOrder[1]} ELSE DOMAIN cache
                IN  With([p \in kept |-> cache[p]], url, body)
    /\ cacheOrder' = Append(IF Len(cacheOrder) >= CacheMax THEN Tail(cacheOrder)
                            ELSE cacheOrder, url)

\* Mutant: the answer is stored without looking at the cache again.
TileArrivesBlind(c) ==
    /\ Reading(c) /\ calls[c].ask # None
    /\ LET want == calls[c].ask.want
           url == calls[c].ask.url
       IN  \E body \in Bodies(url) : /\ CacheWith(url, body)
                                     /\ Become(c, WithTile(calls[c], want, body))
    /\ KeepCheckpoints

\* The answer, which yields to one another call has stored meanwhile.
TileArrives(c) ==
    /\ Reading(c) /\ calls[c].ask # None
    /\ LET want == calls[c].ask.want
           url == calls[c].ask.url
       IN  \/ /\ url \in DOMAIN cache
              /\ Become(c, WithTile(calls[c], want, cache[url]))
              /\ KeepCache
           \/ /\ url \notin DOMAIN cache
              /\ \E body \in Bodies(url) : /\ CacheWith(url, body)
                                           /\ Become(c, WithTile(calls[c], want, body))
    /\ KeepCheckpoints

\* No answer, after all retries: a partial tile is looked for in the full one, which
\* may be cached.
TileFails(c) ==
    /\ Reading(c) /\ calls[c].ask # None
    /\ sound => ~HasTile(Honest, calls[c].ask.url)
    /\ LET want == calls[c].ask.want
           full == FullPath(want)
       IN  \/ /\ IsPartial(want) /\ calls[c].ask.url = want
              /\ IF full \in DOMAIN cache
                 THEN Become(c, WithTile(calls[c], want, cache[full]))
                 ELSE Become(c, [calls[c] EXCEPT !.ask.url = full])
           \/ /\ ~IsPartial(want) \/ calls[c].ask.url = full
              /\ Become(c, Idle)
    /\ KeepCheckpoints /\ KeepCache

Complete(c) == calls[c].need = {}

-----------------------------------------------------------------------------
(* GetTreeHead                                                             *)

Call(at, tree, need) ==
    [at |-> at, tree |-> tree, need |-> need, got |-> Nothing, ask |-> None]

\* What verifyConsistency compares with.
Previous == IF current # None THEN current ELSE anchor

\* A signed checkpoint arrives.
FetchCheckpoint ==
    /\ \A c \in Callers : calls[c] = Idle
    /\ \E view \in IF sound THEN {Honest} ELSE Views :
         \E size \in IF sound THEN {Len(Honest)} ELSE 0 .. Len(view) :
           Become(Poller, Call("root", SubSeq(view, 1, size), RangeTiles(0, size, size)))
    /\ KeepCheckpoints /\ KeepCache

Accept == /\ current' = calls[Poller].tree /\ anchor' = calls[Poller].tree
          /\ Become(Poller, Idle)
Refuse == Become(Poller, Idle) /\ UNCHANGED <<current, anchor>>

\* The tiles reconstruct the signed root; then the checkpoint is accepted if there is
\* no other to be consistent with, or if it is the same again.
CheckRoot ==
    LET call == calls[Poller]
        size == Len(call.tree)
    IN  /\ call.at = "root" /\ Complete(Poller)
        /\ IF RangeRoot(0, size, size, call.got) # TreeHash(call.tree) THEN Refuse
           ELSE \/ Previous = None /\ Accept
                \/ /\ Previous # None /\ Len(Previous) > size
                   /\ Refuse
                \/ /\ Previous # None /\ Len(Previous) = size
                   /\ IF TreeHash(Previous) = TreeHash(call.tree) THEN Accept ELSE Refuse
                \/ /\ Previous # None /\ Len(Previous) < size
                   /\ Become(Poller, Call("prefix", call.tree,
                                        RangeTiles(0, Len(Previous), size)))
                   /\ UNCHANGED <<current, anchor>>
        /\ KeepCache /\ UNCHANGED <<saved, sound>>

\* A larger tree must contain the previous one.
CheckPrefix ==
    LET call == calls[Poller]
    IN  /\ call.at = "prefix" /\ Complete(Poller)
        /\ IF RangeRoot(0, Len(Previous), Len(call.tree), call.got) = TreeHash(Previous)
           THEN Accept ELSE Refuse
        /\ KeepCache /\ UNCHANGED <<saved, sound>>

-----------------------------------------------------------------------------
(* GetRawEntries                                                           *)

\* The entries of a range are taken from the data tiles, which are not cached; the
\* log may answer with anything that has the right number of entries.
ReadEntries(w) ==
    /\ calls[w] = Idle /\ calls[Poller] = Idle
    /\ current # None
    /\ \E from, to \in Stretch(0, Len(current)) :
         /\ from <= to /\ to - from < MaxRange
         /\ \E data \in [from .. to -> Values] :
              /\ sound => \A i \in from .. to : data[i] = Honest[i + 1]
              /\ Become(w, [at |-> "proof", tree |-> current,
                            need |-> UNION {InclusionTiles(0, Len(current), i, Len(current)) :
                                               i \in from .. to},
                            got |-> Nothing, ask |-> None, data |-> data])
    /\ KeepCheckpoints /\ KeepCache

\* Mutant: the loop stops before the last entry of the range.
AuthenticButLast(call) ==
    LET size == Len(call.tree)
    IN  \A i \in DOMAIN call.data \ {Max(DOMAIN call.data)} :
            RootWithLeaf(0, size, i, LeafHash(call.data[i]), size, call.got)
                = TreeHash(call.tree)

\* Every entry leads to the root of the checkpoint.
Authentic(call) ==
    LET size == Len(call.tree)
    IN  \A i \in DOMAIN call.data :
            RootWithLeaf(0, size, i, LeafHash(call.data[i]), size, call.got)
                = TreeHash(call.tree)

VerifyEntries(w) ==
    /\ calls[w].at = "proof" /\ Complete(w)
    /\ Become(w, IF Authentic(calls[w]) THEN [calls[w] EXCEPT !.at = "served"] ELSE Idle)
    /\ KeepCheckpoints /\ KeepCache

\* The worker takes the entries.
Take(w) == /\ calls[w].at = "served"
           /\ Become(w, Idle)
           /\ KeepCheckpoints /\ KeepCache

-----------------------------------------------------------------------------
(* The runner's state file and the next process                            *)

SaveHead == /\ \A c \in Callers : calls[c] = Idle
            /\ current # None
            /\ saved' = current
            /\ UNCHANGED <<current, anchor, cache, cacheOrder, calls, sound>>

\* Mutant: the saved head is not seeded.
RestartUnseeded ==
    /\ current' = None /\ anchor' = None
    /\ cache' = Nothing /\ cacheOrder' = <<>>
    /\ calls' = [c \in Callers |-> Idle]
    /\ UNCHANGED <<saved, sound>>

\* A new process seeds the anchor with what was saved.
Restart ==
    /\ current' = None /\ anchor' = saved
    /\ cache' = Nothing /\ cacheOrder' = <<>>
    /\ calls' = [c \in Callers |-> Idle]
    /\ UNCHANGED <<saved, sound>>

\* From now on the log answers every request, and with the truth.
LogRecovers == /\ ~sound /\ sound' = TRUE
               /\ UNCHANGED <<current, anchor, saved, cache, cacheOrder, calls>>

-----------------------------------------------------------------------------
\* Each tile once in a computation; the code asks getCached again for every node.
ReadTile(c) == CacheHit(c) \/ CacheMiss(c) \/ TileArrives(c) \/ TileFails(c)

Poll == FetchCheckpoint \/ ReadTile(Poller) \/ CheckRoot \/ CheckPrefix

Running == \/ Poll
           \/ \E w \in Workers : ReadTile(w) \/ ReadEntries(w) \/ VerifyEntries(w) \/ Take(w)
           \/ SaveHead

Next == Running \/ Restart

Spec == Init /\ [][Next]_vars

\* One process that polls again and again, while the log comes to work properly.
FairSpec == Init /\ [][Running \/ LogRecovers]_vars /\ WF_vars(Poll)

-----------------------------------------------------------------------------
\* maxStaticCacheEntries bounds the map and not only its order: the map and the order
\* hold the same paths, each once, whichever calls miss and store at the same time.
CacheBounded == /\ Cardinality(DOMAIN cache) <= CacheMax
                /\ DOMAIN cache = Range(cacheOrder) /\ IsInjective(cacheOrder)

\* "per-entry inclusion" (README.md:18): what a worker gets are the entries of the
\* checkpoint the client has accepted, at their indices, whatever tiles the log has
\* served and the cache has kept.
ServedIsSigned ==
    \A w \in Workers : calls[w].at = "served" =>
        \A i \in DOMAIN calls[w].data : calls[w].data[i] = calls[w].tree[i + 1]

\* "append-only consistency" (README.md:18), over restarts: an accepted checkpoint
\* extends the tree head in the state file.
SavedIsPrefix == (current # None /\ saved # None) => IsPrefix(saved, current)

\* A call ends whose tiles are those of the tree of its checkpoint.
Genuine(call) == /\ call.at \in {"root", "prefix"}
                 /\ \A p \in DOMAIN call.got : call.got[p] = Tile(call.tree, p)

\* What the next accepted checkpoint has to contain: the last one, or the saved one.
Before == IF current # None THEN current ELSE saved

\* From a log that backs a new checkpoint with the tiles of that very tree, only
\* checkpoints that contain the one before are accepted, over restarts too.
HeadsExtend ==
    [][(Before # None /\ current' # None /\ Genuine(calls[Poller]))
        => IsPrefix(Before, current')]_current

\* "a failed monitor delta retains the previous position and is retried on a later
\* poll" (README.md:235): once the log answers properly, the retries get through.
RetriesRecover == sound ~> current = Honest
=============================================================================
