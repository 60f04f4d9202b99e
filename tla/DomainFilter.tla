----------------------------- MODULE DomainFilter -----------------------------
(***************************************************************************)
(* Which certificates the -domain options select (certparser/parser.go),   *)
(* and what of these options a state file is bound to                      *)
(* (runner.normalizeSelectionDomains): two normalizations of the same      *)
(* strings.  A string is a sequence of one-letter strings.                 *)
(***************************************************************************)
EXTENDS Integers, SequencesExt

CONSTANTS
    Char,       \* the characters of names and options
    Upper       \* the letters, [upper case -> lower case]

ASSUME CharConstants ==
    /\ {" ", ".", "*"} \subseteq Char
    /\ \A c \in DOMAIN Upper : {c, Upper[c]} \subseteq Char \ {" ", ".", "*"}

Lower(s) == [i \in DOMAIN s |-> IF s[i] \in DOMAIN Upper THEN Upper[s[i]] ELSE s[i]]

TrimSpace(s) ==
    LET kept == {i \in DOMAIN s : s[i] # " "}
    IN  IF kept = {} THEN <<>> ELSE SubSeq(s, Min(kept), Max(kept))

TrimPrefix(s, p) == IF IsPrefix(p, s) THEN SubSeq(s, Len(p) + 1, Len(s)) ELSE s
TrimSuffix(s, p) == IF IsSuffix(p, s) THEN SubSeq(s, 1, Len(s) - Len(p)) ELSE s

Dot == <<".">>
Wildcard == <<"*", ".">>

\* Mutant: the wildcard goes before the dot does.
FilterDomainStarFirst(s) ==
    TrimPrefix(TrimPrefix(TrimSuffix(Lower(TrimSpace(s)), Dot), Wildcard), Dot)

\* normalizeFilterDomain
FilterDomain(s) ==
    TrimPrefix(TrimPrefix(TrimSuffix(Lower(TrimSpace(s)), Dot), Dot), Wildcard)

\* Mutant: every leading dot is cut, as strings.TrimLeft would.
SelectionDomainTrimLeft(s) ==
    LET t == TrimSpace(s)
        kept == {i \in DOMAIN t : t[i] # "."}
    IN  Lower(IF kept = {} THEN <<>> ELSE SubSeq(t, Min(kept), Len(t)))

\* normalizeSelectionDomains, of one domain
SelectionDomain(s) == Lower(TrimPrefix(TrimSpace(s), Dot))

\* certparser.New, and the domains in the selection hash: empty ones do not count.
Filter(domains) == {FilterDomain(s) : s \in domains} \ {<<>>}
Selection(domains) == {SelectionDomain(s) : s \in domains} \ {<<>>}

MatchesDomain(name, filter) ==
    \/ name = filter
    \/ IsSuffix(Dot \o filter, name)
    \/ /\ IsPrefix(Wildcard, name)
       /\ LET base == TrimPrefix(name, Wildcard)
          IN  base = filter \/ IsSuffix(Dot \o filter, base)

\* A certificate with these names (its addresses compare as they are) under these
\* options; buildResult puts the names in lower case.
Selected(names, addresses, domains) ==
    \/ Filter(domains) = {}
    \/ \E name \in names, filter \in Filter(domains) : MatchesDomain(Lower(name), filter)
    \/ addresses \cap Filter(domains) # {}
=============================================================================
