-------------------------------- MODULE Probe --------------------------------
(***************************************************************************)
(* One synthetic HTTP(S) check (src/modules/saas/runner/probe.ts) and the  *)
(* guard on the addresses it connects to (src/lib/net/target-guard.ts), as *)
(* operators on the state of a probe: what it is about to request, and     *)
(* with what, after each hop.                                              *)
(*                                                                         *)
(* A URL is its scheme, its origin and its host, which is an address or a  *)
(* name ("name") that DNS answers anew at every connection.  Configured    *)
(* headers and the configured body are carried or not.  Error codes,       *)
(* timings and the certificate seen are left out.                          *)
(***************************************************************************)
EXTENDS Naturals

CONSTANTS
    Urls,                \* [scheme, origin, host] records
    Addresses,           \* IP addresses
    PublicAddresses,     \* those outside the special-purpose ranges
    allowPrivateTargets, \* CHECKS_ALLOW_PRIVATE_TARGETS
    MAX_REDIRECTS

ASSUME ProbeAssumption ==
    /\ PublicAddresses \subseteq Addresses
    /\ Urls \subseteq [scheme : {"http", "https", "other"}, origin : STRING,
                       host : Addresses \cup {"name"}]
    /\ allowPrivateTargets \in BOOLEAN
    /\ MAX_REDIRECTS \in Nat

\* 302 is answered like 301, and 308 like 307.
Statuses == {200, 301, 303, 307, 500}
isRedirect(code) == code \in {301, 303, 307}
NoUrl == [scheme |-> "none", origin |-> "none", host |-> "name"]

Settings == [url : Urls, method : {"GET", "HEAD", "POST"}, followRedirects : BOOLEAN,
             expectedStatus : Statuses, expectedBodyContains : BOOLEAN]

\* A response: its Location is absent (NoUrl) or resolved; one that does not
\* parse fails the probe like a URL whose scheme is "other".
HopResponse == [statusCode : Statuses, location : Urls \cup {NoUrl}, contains : BOOLEAN]

ProbeState ==
    [phase : {"requesting", "passed", "failed"},
     url : Urls \cup {NoUrl}, method : {"GET", "HEAD", "POST"}, body : BOOLEAN,
     headers : BOOLEAN, hop : 0..MAX_REDIRECTS, addresses : SUBSET Addresses]

\* A finished probe: only whether it passed is used from here on.
Finished(passed) ==
    [phase |-> IF passed THEN "passed" ELSE "failed", url |-> NoUrl, method |-> "GET",
     body |-> FALSE, headers |-> FALSE, hop |-> 0, addresses |-> {}]

httpScheme(url) == url.scheme \in {"http", "https"}

\* normalizeUrl, for a URL that parses.
normalizeUrl(url) == httpScheme(url)

isPublicAddress(address) == address \in PublicAddresses

\* Node only looks names up; an address in the URL is vetted before connecting.
assertLiteralTargetAllowed(url) ==
    allowPrivateTargets \/ url.host = "name" \/ isPublicAddress(url.host)

\* The head of the loop: the next hop must be http(s) and, if an address, allowed.
BeginHop(p) ==
    IF httpScheme(p.url) /\ assertLiteralTargetAllowed(p.url)
    THEN [p EXCEPT !.phase = "requesting"]
    ELSE Finished(FALSE)

BeginProbe(s) ==
    BeginHop([Finished(FALSE) EXCEPT
        !.url = s.url, !.method = s.method, !.body = s.method = "POST",
        !.headers = TRUE])

\* The lookup hook refuses a name if any of its addresses is not public, or if
\* it has none.
guardedLookup(answer) ==
    answer # {} /\ (allowPrivateTargets \/ \A a \in answer : isPublicAddress(a))

\* The addresses a hop may connect to; DNS answers a name as it likes, and an
\* address in the URL was vetted by BeginHop.
Reachable(url) ==
    IF url.host = "name" THEN {answer \in SUBSET Addresses : guardedLookup(answer)}
                         ELSE {{url.host}}

tooManyRedirects_OffByOne(p) == p.hop > MAX_REDIRECTS

tooManyRedirects(p) == p.hop >= MAX_REDIRECTS

carriedHeaders_AnyOrigin(p, next) == p.headers

\* Configured headers are dropped, for good, with the first change of origin.
carriedHeaders(p, next) == p.headers /\ next.origin = p.url.origin

\* A followed redirect.  301 and 303 continue as GET, without the body.
Redirect(p, response) ==
    LET asGet == \/ response.statusCode = 303
                 \/ response.statusCode = 301 /\ p.method \notin {"GET", "HEAD"}
    IN  IF tooManyRedirects(p)
        THEN Finished(FALSE)
        ELSE BeginHop([p EXCEPT
                 !.hop = @ + 1,
                 !.headers = carriedHeaders(p, response.location),
                 !.url = response.location,
                 !.method = IF asGet /\ @ # "HEAD" THEN "GET" ELSE @,
                 !.body = @ /\ ~ asGet])

\* needBody is decided by the configured method, before any redirect.
needBody(s) == s.expectedBodyContains /\ s.method # "HEAD"

Respond(p, s, response) ==
    IF s.followRedirects /\ isRedirect(response.statusCode) /\ response.location # NoUrl
    THEN Redirect(p, response)
    ELSE Finished(/\ response.statusCode = s.expectedStatus
                  /\ needBody(s) => response.contains)
=============================================================================
