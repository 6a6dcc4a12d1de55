----------------------------- MODULE MCExchange ------------------------------
(* Small instances of Exchange. *)
EXTENDS Exchange, SequencesExt

\* Lengths around those at which the prefix grows, and one that is too long.
MCDataLen == (0 .. Half + 2) \cup (Half * More - 1 .. Half * More + 1) \cup {TooLong - 1, TooLong}

MCPadLen == 1 .. 2 * PaddingBuffer + 1

\* No armor, an unknown version, a stray end tag, and an element in another.
MCPage ==
    { << <<"markup">> >>,
      << <<"pre">>, <<"char", <<0>>, 1>>, <<"/pre">> >>,
      << <<"/pre">>, <<"pre">>, <<"version">>, <<"/pre">> >>,
      << <<"pre">>, <<"version">>, <<"pre">>, <<"/pre">> >> }

MCHost == { h \in BoundedSeq({"a", "0", "-", "."}, 5) : HostName(h) }

\* A plain URL of a server, and all that CacheURL and decodeRequest tell apart.
MCServer(h) == [scheme |-> "http", user |-> FALSE, port |-> "", host |-> h, path |-> <<>>]

MCServerURL ==
    { MCServer(h) : h \in MCHost }
    \cup [scheme : {"http", "https", "ftp"}, user : BOOLEAN, port : {"", "http", "https", "other"},
          host : {<<>>, <<"a">>}, path : {<<>>, << <<>> >>, << <<"x">> >>}]

MCCacheAddr ==
    [host : { <<"c">> }, path : {<<>>, << <<"x">>, <<>> >>}, query : {FALSE}, fragment : {FALSE}]
    \cup [host : { <<"c">> }, path : {<<>>}, query : BOOLEAN, fragment : BOOLEAN]
=============================================================================
