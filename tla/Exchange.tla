------------------------------ MODULE Exchange -------------------------------
(***************************************************************************)
(* One poll: what PollingPacketConn or the server's Handler has written    *)
(* with the package encapsulation goes to the other side and is read       *)
(* there, as a request (exchangeAMP, the AMP cache, decodeRequest) or as a *)
(* response (the armor, exchangeAMP, processIncoming).  The network, and   *)
(* the AMP cache in it, are external: they may end a response anywhere and *)
(* answer with a page of their own.                                        *)
(***************************************************************************)
EXTENDS Encapsulation, Armor, AMPCache

CONSTANTS
    MaxResponseBody, \* what processIncoming reads at most: 1 MB
    Page,            \* pages that are not the server's
    ServerURL,       \* URLs of servers: records of scheme, user, port, host and path
    CacheAddr,       \* URLs of AMP caches: records of host, path, query and fragment
    Direct,          \* no AMP cache
    ResponseBytes,   \* bound: bytes of a response
    RequestBytes     \* bound: bytes of a request, without the ClientID

ASSUME ExchangeAssumption ==
    /\ MaxResponseBody \in Nat \ {0} /\ ResponseBytes \in Nat /\ RequestBytes \in Nat
    /\ {"breaker", "payload"} \subseteq Character
    /\ ServerURL \subseteq [scheme : STRING, user : BOOLEAN, port : STRING,
                            host : Seq(Character), path : Seq(Seq(Character))]
    /\ \A server \in ServerURL : server.host = <<>> \/ HostName(server.host)
    /\ CacheAddr \subseteq [host : Seq(Character), path : Seq(Seq(Character)), query : BOOLEAN, fragment : BOOLEAN]
    /\ Direct \notin CacheAddr
    \* No other page is armor: there is no data in it, and it does not end like armor.
    /\ \A text \in Page : NewDecoder(text).bytes = <<>> /\ NewDecoder(text).tail # "EOF"

VARIABLES
    via,      \* how the stream arrives: "reader", "response" or "request"
    request   \* history: the URLs of server and cache a request was made with

exchangeVars == <<vars, via, request>>

ExchangeInit == Init /\ via = "reader" /\ request = [cache |-> Direct]

-----------------------------------------------------------------------------
(* Responses *)

\* The answer's text arrives, up to some point, and exchangeAMP and processIncoming begin.
Respond ==
    /\ mode = "write" /\ Len(stream) <= ResponseBytes
    /\ \E text \in Page \cup { SubSeq(Armored(stream), 1, k) : k \in 0 .. Len(Armored(stream)) } :
          LET dec == NewDecoder(text)
              n == IF Len(dec.bytes) < MaxResponseBody THEN Len(dec.bytes) ELSE MaxResponseBody
          IN  /\ stream' = SubSeq(dec.bytes, 1, n)
              /\ cut' = n
              /\ tail' = IF n = MaxResponseBody THEN "EOF" ELSE dec.tail
              /\ mode' = IF dec.refused THEN "end" ELSE "read"
              /\ err' = IF dec.refused THEN dec.tail ELSE "nil"
    /\ via' = "response"
    /\ UNCHANGED <<chunks, data, request>>

\* RoundTrip fails, or a status or a Location says that the answer is not the server's.
NoResponse ==
    /\ mode = "write" /\ Len(stream) <= ResponseBytes
    /\ mode' = "end" /\ err' \in {"RoundTrip", "ErrCacheQuota", "status"}
    /\ cut' = 0 /\ tail' = "none"
    /\ via' = "response"
    /\ UNCHANGED <<stream, chunks, data, request>>

\* The error processIncoming returns in the end.
processIncoming ==
    CASE err = "EOF" /\ cut = MaxResponseBody -> "exceeded"
      [] err = "EOF" /\ cut # MaxResponseBody -> "nil"
      [] OTHER -> err

-----------------------------------------------------------------------------
(* Requests *)

Breaker == <<"0", "breaker">>
Payload == <<"payload">>   \* the encoding of the ClientID and the stream

\* serverURL.ResolveReference: path is that of the server's URL up to its last slash.
RequestURL(server) == [server EXCEPT !.path = @ \o <<Breaker, Payload>>]

\* exchangeAMP's request: the host it names and its path; the front replaces neither.
exchangeAMP(server, cache) ==
    IF cache = Direct THEN [host |-> <<server.host>>, path |-> RequestURL(server).path]
                      ELSE CacheURL(RequestURL(server), cache)

\* The page that is asked for in the end, which an AMP cache reads off the path.
Fetched(server, cache) ==
    LET sent == exchangeAMP(server, cache)
        p == SubSeq(sent.path, Len(Join(cache.path)) + 2, Len(sent.path))
        s == p[1] = <<"s">>
        q == IF s THEN Tail(p) ELSE p
    IN  IF cache = Direct THEN [scheme |-> server.scheme, host |-> server.host, path |-> sent.path]
        ELSE [scheme |-> IF s THEN "https" ELSE "http", host |-> q[1], path |-> Tail(q)]

\* decodeRequest finds the ClientID and the stream: a "0" leads, the last component is the payload.
decodeRequest(path) ==
    /\ path # <<>> /\ path[1] # <<>> /\ path[1][1] = "0"
    /\ (IF Len(path) = 1 THEN Tail(path[1]) ELSE path[Len(path)]) = Payload

\* The request cannot be made: CacheURL, or net/http for a direct one, returns an error.
Refused(server, cache) ==
    IF cache = Direct THEN server.scheme \notin {"http", "https"} \/ server.host = <<>>
                      ELSE CacheURLFails(RequestURL(server), cache)

\* A request is sent, unless it is refused, and the server decodes it.
Send ==
    /\ mode = "write" /\ Len(stream) <= RequestBytes
    /\ \E server \in ServerURL, cache \in CacheAddr \cup {Direct} :
          LET refused == Refused(server, cache)
              decoded == ~ refused /\ decodeRequest(Fetched(server, cache).path)
          IN  /\ mode' = IF decoded THEN "read" ELSE "end"
              /\ cut' = IF decoded THEN Len(stream) ELSE 0
              /\ tail' = IF decoded THEN "EOF" ELSE "none"
              /\ err' = IF refused THEN "refused" ELSE IF decoded THEN "nil" ELSE "undecoded"
              /\ request' = [server |-> server, cache |-> cache]
    /\ via' = "request"
    /\ UNCHANGED <<stream, chunks, data>>

ExchangeNext ==
    \/ (WriteData \/ WritePadding \/ Arrive \/ ReadData) /\ UNCHANGED <<via, request>>
    \/ Respond \/ NoResponse
    \/ Send

ExchangeSpec == ExchangeInit /\ [][ExchangeNext]_exchangeVars

-----------------------------------------------------------------------------
(* Properties *)

(***************************************************************************)
(* A response is complete or an error is seen: if processIncoming returns  *)
(* no error, it has read all the data the server wrote.  An answer that is *)
(* cut off anywhere, between two pre elements too, one that reaches the    *)
(* limit, and a page that is no armor do not pass for a shorter response.  *)
(***************************************************************************)
ResponseComplete ==
    mode = "end" /\ via = "response" /\ processIncoming = "nil" =>
        data = Selected(chunks, Nat, Len(chunks))

\* The prefixes of all hosts.
Prefix == [host \in {server.host : server \in ServerURL} |-> domainPrefix(host)]

(***************************************************************************)
(* A request arrives where it should: if it is sent to a server at the     *)
(* root of its host, then the server decodes it, the AMP cache fetches the *)
(* page the client means, and the host it is asked at is that of no other  *)
(* publisher.                                                              *)
(***************************************************************************)
RequestArrives ==
    via = "request" /\ err # "refused" /\ request.server.path = <<>> =>
        LET page == Fetched(request.server, request.cache)
            host == exchangeAMP(request.server, request.cache).host
        IN  /\ err # "undecoded"
            /\ page.scheme = request.server.scheme /\ page.host = request.server.host
            /\ request.cache # Direct =>
                  \A h \in DOMAIN Prefix : Prefix[h] = host[1] => h = request.server.host
=============================================================================
