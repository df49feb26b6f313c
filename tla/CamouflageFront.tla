--------------------------- MODULE CamouflageFront ---------------------------
(***************************************************************************)
(* incoming.rs and camouflage.rs: the first request on a TLS connection.   *)
(* An upgrade on the right path becomes a WebSocket, everything else gets  *)
(* what a web site would answer: a page forwarded from the configured      *)
(* origin, a file or a built-in page.  Sizes are counted in units; the     *)
(* resolver of the origin's name may change its answer at any time.        *)
(***************************************************************************)
EXTENDS Integers, FiniteSets

CONSTANTS Requests,      \* requests, see Request below
          Configs,       \* [mode, legacy, allow_private, file]
          Private, Public, \* addresses, blocked as an origin or not
          HeadCap,       \* 65536: headers larger than this are refused
          Chunk,         \* most bytes of one read
          OriginMax,     \* CAMOUFLAGE_ORIGIN_MAX_BYTES
          MaxChanges     \* bound on changes of the resolver's answer

\* upgrade: a WebSocket upgrade with its key; head and extra: bytes of the
\* header and behind it; from and to: of the Range header, Absent where left out.
Request == [upgrade : BOOLEAN, ver13 : BOOLEAN, method : {"GET", "HEAD", "POST"},
            path : {"ws", "legacy", "/", "robots", "favicon", "file", "other", "unsafe"},
            range : {"none", "bytes"}, from : Int, to : Int, head : Nat, extra : Nat]

VARIABLES req, cfg,  \* the request and the configuration of the server (constant)
          got,       \* bytes read from the client
          at,        \* what the handler does next
          dns,       \* the addresses that the origin's name has now
          peer,      \* the address that was connected to
          asked,     \* the addresses that were sent a request
          origin,    \* bytes read from the origin
          reply,     \* what the client was sent: the pieces, by where they are from
          gone,      \* the client's connection is broken: writes to it fail
          changes    \* how often the resolver's answer changed

frontVars == <<req, cfg, got, at, dns, peer, asked, origin, reply, gone, changes>>

Addrs == Private \cup Public
Total == req.head + req.extra
Absent == -1

Init ==
    /\ req \in Requests /\ cfg \in Configs
    /\ got = 0 /\ at = "head" /\ dns \in SUBSET Addrs
    /\ peer = Absent /\ asked = {} /\ origin = 0 /\ reply = {} /\ gone = FALSE
    /\ changes = 0

\* The resolver's answer changes while the origin is looked up and connected to.
Rebind ==
    /\ at \in {"resolve", "connect"} /\ changes < MaxChanges
    /\ changes' = changes + 1 /\ dns' \in SUBSET Addrs
    /\ UNCHANGED <<req, cfg, got, at, peer, asked, origin, reply, gone>>

Answered == at \in {"done", "tunnel", "dropped"}

\* The client resets its connection while the handler runs.
ClientGone ==
    /\ ~Answered /\ ~gone /\ gone' = TRUE
    /\ UNCHANGED <<req, cfg, got, at, dns, peer, asked, origin, reply, changes>>

\* is_websocket_upgrade: the Upgrade and Connection headers and the key are there.
IsUpgrade == req.upgrade

\* sanitize_camouflage_request_target
SafeTarget == req.path # "unsafe"

\* safe_static_path_under_base and serve_static_file
HasFile == req.path = "file"

\* is_blocked_camouflage_origin
Blocked(a) == a \in Private

(***************************************************************************)
(* read_http_head                                                          *)
(***************************************************************************)
ReadHead ==
    /\ at = "head" /\ got <= HeadCap
    /\ \E n \in 1..Chunk :
        /\ got + n <= Total /\ got' = got + n
        /\ at' = IF got + n >= req.head THEN "route" ELSE "head"
    /\ UNCHANGED <<req, cfg, dns, peer, asked, origin, reply, gone, changes>>

\* The headers are too large, do not parse, or the client is gone.
HeadFails ==
    /\ at = "head" /\ at' = "dropped"
    /\ UNCHANGED <<req, cfg, got, dns, peer, asked, origin, reply, gone, changes>>

(***************************************************************************)
(* What is answered.  A local answer has a status, the length its header   *)
(* declares and the positions of the body that are sent.                   *)
(***************************************************************************)
Answer(status, length, body) ==
    {[src |-> "local", status |-> status, length |-> length, body |-> body]}

PageLen == 1  \* a page of camouflage::error_page, of which all is sent
Page(status) == Answer(status, PageLen, 0..(PageLen - 1))

\* parse_single_range for a header that is there; a bound is Absent when it is
\* left out.  What does not parse counts as no range at all.
ParseRange(total) ==
    LET whole == [kind |-> "whole", start |-> 0, end |-> total - 1]
        partial(a, b) == [kind |-> "partial", start |-> a, end |-> b]
        none == [kind |-> "unsatisfiable", start |-> 0, end |-> -1]
        last == total - 1
        cut(n) == IF n > total THEN 0 ELSE total - n
    IN  CASE req.range = "none" \/ total = 0 -> whole
          [] req.from = Absent /\ req.to = Absent -> whole
          [] req.from = Absent /\ req.to = 0 -> none
          [] req.from = Absent /\ req.to > 0 -> partial(cut(req.to), last)
          [] req.from >= total -> none
          [] req.to = Absent -> partial(req.from, last)
          [] req.to < req.from -> none
          [] OTHER -> partial(req.from, IF req.to < last THEN req.to ELSE last)

Body(positions) == IF req.method = "HEAD" THEN {} ELSE positions

\* write_file_response
FileAnswer(total) ==
    LET r == ParseRange(total)
    IN  CASE r.kind = "whole" -> Answer(200, total, Body(0..(total - 1)))
          [] r.kind = "partial" -> Answer(206, r.end - r.start + 1, Body(r.start..r.end))
          [] OTHER -> Answer(416, PageLen, Body(0..(PageLen - 1)))

IndexLen == 3 \* html_ok_index

\* serve_camouflage_http without an origin
SiteAnswer ==
    CASE cfg.mode = "static" /\ HasFile -> FileAnswer(cfg.file)
      [] cfg.mode = "static" /\ ~HasFile -> Page(404)
      [] req.path = "/" \/ req.path = "robots" -> FileAnswer(IndexLen)
      [] req.path = "favicon" -> Answer(204, Absent, {})
      [] OTHER -> Page(404)

\* The answer is written, or the write fails and the connection is dropped.
Finish(r) ==
    \/ ~gone /\ at' = "done" /\ reply' = reply \cup r
    \/ gone /\ at' = "dropped" /\ UNCHANGED reply

\* The upgrade: the 101 is written, and the WebSocket starts.
Upgrade == at' = (IF gone THEN "dropped" ELSE "tunnel") /\ UNCHANGED reply

\* accept_websocket_or_camouflage
Route ==
    /\ at = "route"
    /\ \/ /\ IsUpgrade /\ (req.path = "ws" \/ (cfg.legacy /\ req.path = "legacy"))
          /\ \/ req.ver13 /\ Upgrade
             \/ ~req.ver13 /\ Finish(Page(400))
       \/ /\ IsUpgrade /\ ~(req.path = "ws" \/ (cfg.legacy /\ req.path = "legacy"))
          /\ Finish(Page(404))
       \/ /\ ~IsUpgrade /\ req.method = "POST"
          /\ Finish(Page(405))
       \/ /\ ~IsUpgrade /\ req.method # "POST"
          /\ IF cfg.mode = "proxy"
               THEN at' = (IF SafeTarget THEN "resolve" ELSE "fallback") /\ UNCHANGED reply
               ELSE Finish(SiteAnswer)
    /\ UNCHANGED <<req, cfg, got, dns, peer, asked, origin, gone, changes>>

(***************************************************************************)
(* forward_http_get_inner                                                  *)
(***************************************************************************)
\* camouflage_origin_resolvable: some address must not be private.
Resolve ==
    /\ at = "resolve"
    /\ at' = IF cfg.allow_private \/ (\E a \in dns : ~Blocked(a)) THEN "connect" ELSE "fallback"
    /\ UNCHANGED <<req, cfg, got, dns, peer, asked, origin, reply, gone, changes>>

\* connect resolves the name again; it may fail or take too long.
Connect ==
    /\ at = "connect"
    /\ \/ \E a \in dns : peer' = a /\ at' = "check"
       \/ at' = "fallback" /\ UNCHANGED peer
    /\ UNCHANGED <<req, cfg, got, dns, asked, origin, reply, gone, changes>>

\* check_camouflage_peer, and the request.
CheckPeer ==
    /\ at = "check"
    /\ IF cfg.allow_private \/ ~Blocked(peer)
         THEN asked' = asked \cup {peer} /\ at' = "copy"
         ELSE at' = "fallback" /\ UNCHANGED asked
    /\ UNCHANGED <<req, cfg, got, dns, peer, origin, reply, gone, changes>>

Sent(n) == reply' = reply \cup {[src |-> "origin", pos |-> i] : i \in origin..(origin + n - 1)}

\* A piece of the answer; the one that passes the limit is cut.  A write that
\* fails is an error of the forwarding, whatever the client got before.
Copy ==
    /\ at = "copy"
    /\ \E n \in 1..Chunk :
        LET over == origin + n > OriginMax
            room == IF over THEN OriginMax - origin ELSE n
            refused == (over /\ origin = 0) \/ (gone /\ room > 0)
        IN  \/ refused /\ at' = "fallback" /\ UNCHANGED <<origin, reply>>
            \/ ~refused /\ over /\ at' = "done" /\ Sent(room) /\ UNCHANGED origin
            \/ ~refused /\ ~over /\ Sent(room) /\ origin' = origin + n /\ UNCHANGED at
    /\ UNCHANGED <<req, cfg, got, dns, peer, asked, gone, changes>>

\* Mutant: a failure always gets the built-in page.
CopyEndsInPage ==
    /\ at = "copy" /\ at' \in {"done", "fallback"}
    /\ UNCHANGED <<req, cfg, got, dns, peer, asked, origin, reply, gone, changes>>

\* The origin is done; or it fails or the deadline passes, which is an error
\* only as long as the client got nothing.
CopyEnds ==
    /\ at = "copy"
    /\ \/ at' = "done"
       \/ at' = IF origin = 0 THEN "fallback" ELSE "done"
    /\ UNCHANGED <<req, cfg, got, dns, peer, asked, origin, reply, gone, changes>>

\* serve_camouflage_http: the built-in page instead of the origin's.
Fallback ==
    /\ at = "fallback" /\ Finish(FileAnswer(IndexLen))
    /\ UNCHANGED <<req, cfg, got, dns, peer, asked, origin, gone, changes>>

\* The server's deadline for the request (--handshake-timeout-secs) cancels the handler.
RequestTimeout ==
    /\ ~Answered /\ at' = "dropped"
    /\ UNCHANGED <<req, cfg, got, dns, peer, asked, origin, reply, gone, changes>>

Step == \/ ReadHead \/ HeadFails \/ Route \/ Resolve \/ Connect \/ CheckPeer
        \/ Copy \/ CopyEnds \/ Fallback
Next == Rebind \/ ClientGone \/ RequestTimeout \/ Step

\* The handler runs on or its deadline passes, as when the client stops reading;
\* an origin that keeps sending meets the limit.
Spec == Init /\ [][Next]_frontVars /\ WF_frontVars(Step \/ RequestTimeout)

(***************************************************************************)
(* Properties                                                              *)
(***************************************************************************)
\* The handler is at one of its steps and has read no more than it may.
FrontTypeOK ==
    /\ at \in {"head", "route", "resolve", "connect", "check", "copy", "fallback",
               "done", "tunnel", "dropped"}
    /\ got \in 0..Total /\ origin \in 0..OriginMax /\ asked \subseteq Addrs

\* A client sees one answer: never a piece of the origin's page with the
\* built-in one behind it, whenever the origin fails.
OneAnswer ==
    /\ \A a, b \in reply : a.src = b.src
    /\ Cardinality({a \in reply : a.src = "local"}) <= 1

\* No request reaches a private address, even if the name is bound to another
\* address between the check and the connection.
NoPrivateRequest == ~cfg.allow_private => asked \cap Private = {}

\* The client gets no more of the origin's answer than the limit, and that as a
\* prefix without a gap.
OriginBounded ==
    LET ps == {a.pos : a \in {b \in reply : b.src = "origin"}}
    IN  Cardinality(ps) <= OriginMax /\ (\A i \in ps : 0..i \subseteq ps)

\* The length that a local answer declares is the length of the body that
\* follows; a 204 has neither, and a HEAD that is answered as a file gets the
\* length alone.  (An error page, 400, 404 or 405, is sent whole to HEAD too.)
FramingExact ==
    \A a \in reply : a.src = "local" =>
        IF \/ a.length = Absent
           \/ req.method = "HEAD" /\ a.status \in {200, 206, 416}
          THEN a.body = {}
          ELSE Cardinality(a.body) = a.length

\* The bytes of the file that the Range header names.
Wanted(total) ==
    IF req.from = Absent THEN {i \in 0..(total - 1) : i >= total - req.to}
    ELSE {i \in 0..(total - 1) : i >= req.from /\ (req.to = Absent \/ i <= req.to)}
\* What a Range header asks for and the file has is what is sent, or announced to
\* HEAD, and 416 is answered if and only if there is nothing of it (positions counted as RFC 9110
\* does, with a reversed range as nginx treats it).
RangeExact ==
    \A a \in reply :
        /\ a.src = "local" /\ a.status \in {200, 206, 416}
        /\ req.range = "bytes" /\ (req.from # Absent \/ req.to # Absent)
        => LET total == IF cfg.mode = "static" THEN cfg.file ELSE IndexLen
           IN  total > 0 =>
                 IF Wanted(total) = {} THEN a.status = 416
                 ELSE /\ a.status = 206 /\ a.length = Cardinality(Wanted(total))
                      /\ a.body = Body(Wanted(total))

\* Every connection gets its answer, becomes a tunnel or is dropped.
FrontEnds == <>Answered

\* A request gets one answer, framed as announced, from nowhere private,
\* whenever the client or the origin breaks off.
AnswersExact ==
    /\ FrontTypeOK
    /\ OneAnswer
    /\ NoPrivateRequest
    /\ OriginBounded
    /\ FramingExact
    /\ RangeExact
=============================================================================
