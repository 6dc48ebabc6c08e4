------------------------------ MODULE MCChecks ------------------------------
(* A small instance of Checks for TLC. *)
EXTENDS Checks

\* Two origins, and a location that is no http(s) URL.
MCUrls == [scheme : {"https"}, origin : {"home", "away"}, host : {"name"}]
             \cup [scheme : {"http"}, origin : {"literal"}, host : {"private"}]
             \cup [scheme : {"other"}, origin : {"null"}, host : {"name"}]
MCConfigs ==
    [url : {u \in MCUrls : u.origin = "home"}, method : {"POST"}, followRedirects : {TRUE},
     expectedStatus : {200}, expectedBodyContains : {TRUE}]
    \cup [url : {u \in MCUrls : u.origin = "home"}, method : {"HEAD"}, followRedirects : {FALSE},
           expectedStatus : {301}, expectedBodyContains : {FALSE}]
\* An answer that passes or does not, and redirects home, away and astray.
To(origin) == {u \in MCUrls : u.origin = origin}
MCResponses ==
    [statusCode : {200}, location : {NoUrl}, contains : BOOLEAN]
    \cup [statusCode : {301}, location : To("home"), contains : {FALSE}]
    \cup [statusCode : {303}, location : To("null"), contains : {FALSE}]
    \cup [statusCode : {307}, location : To("away") \cup To("literal"), contains : {FALSE}]
=============================================================================
