------------------------------ MODULE Request -------------------------------
(***************************************************************************)
(* request.c: build_request raises the HTTP version where the command line *)
(* needs a newer one and builds the request.  A request is a record of     *)
(* what its text is made of: whether the request line names the whole URL  *)
(* or only "/", the headers, and whether the text ends with an empty line. *)
(***************************************************************************)
EXTENDS Arguments

Headers == {"User-Agent", "Host", "Pragma", "Cache-Control", "Connection"}
HTTPRequest == [method : {"get", "head", "options", "trace"}, target : {"/", "url"},
                version : 0 .. 2, headers : SUBSET Headers, ended : BOOLEAN]

Proxied(a) == a.proxy_host # NoHost

\* Reloading through a proxy and HEAD need HTTP/1.0, OPTIONS and TRACE HTTP/1.1.
AdjustedStopsAtOne(a) ==
    LET reload == IF a.force_reload /\ Proxied(a) /\ a.http10 = 0
                  THEN 1 ELSE a.http10
    IN IF a.method # "get" /\ reload = 0 THEN 1 ELSE reload
Adjusted(a) ==
    LET reload == IF a.force_reload /\ Proxied(a) /\ a.http10 = 0
                  THEN 1 ELSE a.http10
        head == IF a.method = "head" /\ reload = 0 THEN 1 ELSE reload
    IN IF a.method \in {"options", "trace"} /\ head # 2 THEN 2 ELSE head

\* The text for arguments whose version has been adjusted.
HeadersOf(a) ==
    LET version == a.http10 IN
    {h \in Headers :
        \/ h = "User-Agent" /\ version > 0
        \/ h = "Host" /\ ~Proxied(a) /\ version \in {1, 2}
        \/ h = "Pragma" /\ Proxied(a) /\ a.force_reload /\ version = 1
        \/ h = "Cache-Control" /\ Proxied(a) /\ a.force_reload /\ version = 2
        \/ h = "Connection" /\ version = 2}

RequestOf(a) ==
    [method |-> a.method,
     target |-> IF Proxied(a) THEN "url" ELSE "/",
     version |-> a.http10,
     headers |-> HeadersOf(a),
     ended |-> a.http10 \in {1, 2}]
=============================================================================
