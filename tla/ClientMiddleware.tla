-------------------------- MODULE ClientMiddleware --------------------------
(* A client assembled from middleware, without_http/client.py:                *)
(*     stack(bearer_auth(...), follow_redirects(), cookies(jar))(pool)        *)
(* used by several callers at once.  What the pool and the network do is an   *)
(* answer that comes or a failure.  A host is the sequence of its labels, a   *)
(* path the sequence of its characters.                                       *)
EXTENDS Integers, Sequences, FiniteSets, FiniteSetsExt, SequencesExt

CONSTANTS
    Askers,      \* whoever calls request()
    Urls,        \* [scheme, host, port, path]
    SetCookies,  \* [domain, path, secure, expires, deletes]: a Set-Cookie header
    HandCookies, \* what CookieJar.add was given
    ByHand,
    Methods,     \* of requests as they are made: "POST" has a body
    MaxHops,
    MaxAsked,    \* requests sent, hops and all
    LastTick     \* how far the jar's clock goes

(* A URL's path begins with a slash; the rest is what the headers may hold.   *)
ASSUME MiddlewareAssumption ==
    /\ Urls \subseteq [scheme : {"http", "https"}, host : Seq(STRING), port : Nat, path : Seq(STRING)]
    /\ \A url \in Urls : Len(url.path) > 0 /\ url.path[1] = "/"
    /\ SetCookies \subseteq [domain : Seq(STRING), path : Seq(STRING), secure : BOOLEAN,
                             expires : Int, deletes : BOOLEAN]
    /\ HandCookies \subseteq [domain : Seq(STRING), path : Seq(STRING), secure : BOOLEAN,
                              hostOnly : BOOLEAN, expires : Int, by : {ByHand}]
    /\ ByHand \notin Urls

VARIABLES
    cookieJar,   \* the cookies of the one jar, each with the URL that set it
    jarClock,
    exchange,    \* Askers -> the request on its way
    openBodies,  \* Askers -> how many of its responses have a body not closed
    unparsed,    \* history: Askers -> its calls that raised on a location
    askedSoFar

cmVars == <<cookieJar, jarClock, exchange, openBodies, unparsed, askedSoFar>>

Slash == <<"/">>
Never == LastTick + 1
NoTarget == [scheme |-> "none", host |-> <<>>, port |-> 0, path |-> <<>>]
Origin(url) == <<url.scheme, url.host, url.port>>

(* private: the request still carries the credentials of its caller, what     *)
(* bearer_auth put on it and a cookie header of its own.                      *)
NoRequestYet == [at |-> "idle", home |-> NoTarget, url |-> NoTarget, method |-> "GET",
                 private |-> FALSE, framed |-> FALSE, carried |-> {}, hops |-> 0]

CmInit ==
    /\ cookieJar = HandCookies
    /\ jarClock = 0
    /\ exchange = [u \in Askers |-> NoRequestYet]
    /\ openBodies = [u \in Askers |-> 0] /\ unparsed = [u \in Askers |-> 0]
    /\ askedSoFar = 0

-----------------------------------------------------------------------------
(* The jar.                                                                   *)
HostWithin(host, domain) == IsSuffix(domain, host)

DomainMatches(host, c) == IF c.hostOnly THEN host = c.domain ELSE HostWithin(host, c.domain)

PathMatches(path, c) ==
    \/ path = c.path
    \/ /\ IsStrictPrefix(c.path, path)
       /\ Last(c.path) = "/" \/ path[Len(c.path) + 1] = "/"

DomainAcceptable(host, domain) == Len(domain) > 1 /\ HostWithin(host, domain)

DefaultPath(path) ==
    LET last == Max({i \in DOMAIN path : path[i] = "/"})
    IN  IF last = 1 THEN Slash ELSE SubSeq(path, 1, last - 1)

ParsedCookie(header, url) ==
    [domain |-> IF header.domain = <<>> THEN url.host ELSE header.domain,
     path |-> IF header.path = <<>> THEN DefaultPath(url.path) ELSE header.path,
     secure |-> header.secure, hostOnly |-> header.domain = <<>>,
     expires |-> header.expires, by |-> url]

Alive(jar) == {c \in jar : c.expires > jarClock}

Stored(jar, url, header) ==
    LET cookie == ParsedCookie(header, url)
        others == {c \in Alive(jar) : <<c.domain, c.path>> # <<cookie.domain, cookie.path>>}
    IN  IF \/ header.domain # <<>> /\ ~DomainAcceptable(url.host, header.domain)
           \/ header.secure /\ url.scheme # "https"
        THEN Alive(jar)
        ELSE IF header.deletes \/ header.expires <= jarClock
        THEN others
        ELSE others \cup {cookie}

(* header_for.                                                                *)
Matching(url) ==
    {c \in Alive(cookieJar) :
        /\ DomainMatches(url.host, c) /\ PathMatches(url.path, c)
        /\ url.scheme = "https" \/ ~c.secure}

-----------------------------------------------------------------------------
(* The innermost middleware: the jar is read, and the request is gone.        *)
GoesOut(u, request) ==
    /\ askedSoFar < MaxAsked
    /\ askedSoFar' = askedSoFar + 1
    /\ exchange' = [exchange EXCEPT ![u] =
                        [request EXCEPT !.at = "out", !.carried = Matching(request.url)]]

Asks(u) ==
    /\ exchange[u].at = "idle"
    /\ \E url \in Urls, method \in Methods :
         GoesOut(u, [NoRequestYet EXCEPT !.home = url, !.url = url, !.private = TRUE,
                                      !.method = method, !.framed = method = "POST"])
    /\ UNCHANGED <<cookieJar, jarClock, openBodies, unparsed>>

(* What a hop strips when only a change of host counts as leaving.            *)
LeavesHost(url, target) == target.host # url.host

LeavesOrigin(url, target) == Origin(target) # Origin(url)

Redirected(request, status, target) ==
    LET leaves == LeavesOrigin(request.url, target)
        fetches == status = 303 /\ request.method # "GET"
    IN  [request EXCEPT !.at = "closing", !.url = target, !.hops = @ + 1, !.carried = {},
                        !.private = @ /\ ~leaves,
                        !.method = IF fetches THEN "GET" ELSE @,
                        !.framed = @ /\ ~fetches]

Downgrades(url, target) == url.scheme = "https" /\ target.scheme = "http"

(* An answer comes with its body open, and the jar takes its cookies.  The    *)
(* loop of follow_redirects returns it, or turns to its target once it is     *)
(* closed; a location that does not parse raises before that, and nothing     *)
(* closes the body any more.                                                  *)
Answers(u) ==
    /\ exchange[u].at = "out"
    /\ openBodies' = [openBodies EXCEPT ![u] = @ + 1]
    /\ \/ cookieJar' = Alive(cookieJar)
       \/ \E header \in SetCookies : cookieJar' = Stored(cookieJar, exchange[u].url, header)
    /\ \/ exchange' = [exchange EXCEPT ![u].at = "answered"] /\ UNCHANGED unparsed
       \/ \E status \in {302, 303}, target \in Urls :
            /\ exchange[u].hops < MaxHops /\ ~Downgrades(exchange[u].url, target)
            /\ exchange' = [exchange EXCEPT ![u] = Redirected(@, status, target)]
            /\ UNCHANGED unparsed
       \/ /\ exchange[u].hops < MaxHops
          /\ exchange' = [exchange EXCEPT ![u] = NoRequestYet]
          /\ unparsed' = [unparsed EXCEPT ![u] = @ + 1]
    /\ UNCHANGED <<jarClock, askedSoFar>>

(* The hop's body is closed; closing it may raise what the upload died of.    *)
TurnsTo(u) ==
    /\ exchange[u].at = "closing"
    /\ openBodies' = [openBodies EXCEPT ![u] = @ - 1]
    /\ \/ GoesOut(u, exchange[u])
       \/ exchange' = [exchange EXCEPT ![u] = NoRequestYet] /\ UNCHANGED askedSoFar
    /\ UNCHANGED <<cookieJar, jarClock, unparsed>>

(* The pool raises, or the caller is cancelled while it waits.                *)
Fails(u) ==
    /\ exchange[u].at = "out"
    /\ exchange' = [exchange EXCEPT ![u] = NoRequestYet]
    /\ UNCHANGED <<cookieJar, jarClock, openBodies, unparsed, askedSoFar>>

(* request() on its way out, whatever its block does.                         *)
LeavesBlock(u) ==
    /\ exchange[u].at = "answered"
    /\ openBodies' = [openBodies EXCEPT ![u] = @ - 1]
    /\ exchange' = [exchange EXCEPT ![u] = NoRequestYet]
    /\ UNCHANGED <<cookieJar, jarClock, unparsed, askedSoFar>>

JarTick ==
    /\ jarClock < LastTick
    /\ jarClock' = jarClock + 1
    /\ UNCHANGED <<cookieJar, exchange, openBodies, unparsed, askedSoFar>>

CmNext ==
    \/ JarTick
    \/ \E u \in Askers : Asks(u) \/ Answers(u) \/ TurnsTo(u) \/ Fails(u) \/ LeavesBlock(u)

CmSpec == CmInit /\ [][CmNext]_cmVars

-----------------------------------------------------------------------------
(* What RFC 6265 says of a path, segment by segment: the cookie's path is the *)
(* request's, or a directory above it, whose segments are all whole segments  *)
(* of the request's.                                                          *)
IsSegment(path, i, j) ==
    /\ \A k \in i .. j : path[k] # "/"
    /\ i = 1 \/ path[i - 1] = "/"
    /\ j = Len(path) \/ path[j + 1] = "/"
Below(path, above) ==
    \A i, j \in DOMAIN above :
        i <= j /\ IsSegment(above, i, j)
            => /\ j \in DOMAIN path /\ IsSegment(path, i, j)
               /\ \A k \in i .. j : path[k] = above[k]

(* The scope a cookie has from whoever set it: a site names itself or a domain *)
(* it is in, never one that all sites are in.                                 *)
FairlySet(c) ==
    c.by # ByHand =>
        /\ IF c.hostOnly THEN c.by.host = c.domain
           ELSE HostWithin(c.by.host, c.domain) /\ Len(c.domain) > 1
        /\ c.secure => c.by.scheme = "https"

(* Whatever the hops and whoever sets cookies meanwhile: the credentials of a *)
(* request are sent to the origin it was made for and no other; a cookie is   *)
(* sent where its setter could have it sent, by domain, path and transport; a *)
(* request turned into a GET has no body; and of the bodies a caller was ever *)
(* answered with, none is open but that of the call it is in and, one for     *)
(* each, those of its calls that raised on a location.                        *)
CredentialsStayHome ==
    \A u \in Askers :
        LET x == exchange[u]
        IN  /\ x.at = "out" =>
                 /\ x.private => Origin(x.url) = Origin(x.home)
                 /\ \A c \in x.carried :
                      /\ FairlySet(c) /\ HostWithin(x.url.host, c.domain)
                      /\ c.hostOnly => x.url.host = c.domain
                      /\ Below(x.url.path, c.path)
                      /\ c.secure => x.url.scheme = "https"
                 /\ x.method = "GET" => ~x.framed
            /\ openBodies[u] = unparsed[u] + IF x.at \in {"closing", "answered"} THEN 1 ELSE 0
=============================================================================
