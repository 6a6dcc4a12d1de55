------------------------------ MODULE AMPCache -------------------------------
(***************************************************************************)
(* amp/cache.go: the URL under which an AMP cache serves a publisher's     *)
(* page.  A host name and a component of a path are sequences of           *)
(* characters, a path is a sequence of components.  Host names are ASCII,  *)
(* which the conversions to Unicode and Punycode leave as they are.        *)
(***************************************************************************)
EXTENDS Integers, Sequences, Loops

CONSTANTS
    Character, \* characters of host names and paths
    MaxLabel   \* characters of a valid DNS label: 63

ASSUME AMPCacheAssumption ==
    /\ {"-", ".", "0", "c", "s"} \subseteq Character /\ "hash" \notin Character
    /\ MaxLabel \in Nat

\* Host names: labels neither begin nor end with a hyphen, and no top-level domain is "0" or "s".
HostName(h) ==
    LET labelStart(i) == i = 1 \/ h[i - 1] = "."
        labelEnd(i) == i = Len(h) \/ h[i + 1] = "."
    IN  /\ h \in Seq(Character) \ {<<>>}
        /\ \A i \in DOMAIN h : labelStart(i) \/ labelEnd(i) => h[i] \notin {"-", "."}
        /\ labelStart(Len(h)) => h[Len(h)] \notin {"0", "s"}

-----------------------------------------------------------------------------
(* domainPrefix *)

\* Mutant of Hyphens: hyphens are not doubled.
HyphensSingle(c) == IF c = "." THEN <<"-">> ELSE <<c>>

\* Steps 2 and 3: a hyphen is doubled, a dot becomes a hyphen.
Hyphens(c) ==
    CASE c = "-" -> <<"-", "-">>
      [] c = "." -> <<"-">>
      [] OTHER -> <<c>>

Replaced(domain) == Concat([i \in DOMAIN domain |-> Hyphens(domain[i])])

domainPrefixBasic(domain) ==
    LET prefix == Replaced(domain)
    IN  IF Len(prefix) >= 4 /\ prefix[3] = "-" /\ prefix[4] = "-"
        THEN <<"0", "-">> \o prefix \o <<"-", "0">>
        ELSE prefix

\* The hash of a domain is another one for every domain.
domainPrefixFallback(domain) == <<"hash">> \o domain

domainPrefix(domain) ==
    IF Len(domainPrefixBasic(domain)) <= MaxLabel THEN domainPrefixBasic(domain)
                                                  ELSE domainPrefixFallback(domain)

-----------------------------------------------------------------------------
(* CacheURL *)

\* CacheURL returns an error.  A port is the scheme it is the default of, if any, or empty.
CacheURLFails(pub, cache) ==
    \/ pub.scheme \notin {"http", "https"}
    \/ pub.user
    \/ pub.port \notin {"", pub.scheme}
    \/ pub.host = <<>>
    \/ cache.query \/ cache.fragment

\* path.Join leaves empty components out.
Join(path) == Selected(path, Seq(Character) \ {<<>>}, Len(path))

\* Host and path of the result; the content type is "c".
CacheURL(pub, cache) ==
    [host |-> <<domainPrefix(pub.host), cache.host>>,
     path |-> Join(cache.path \o << <<"c">> >>
                   \o (IF pub.scheme = "https" THEN << <<"s">> >> ELSE <<>>)
                   \o <<pub.host>> \o pub.path)]
=============================================================================
