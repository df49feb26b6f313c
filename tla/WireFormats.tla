----------------------------- MODULE WireFormats -----------------------------
(***************************************************************************)
(* The parsers and encoders that read what the other end, a resolver or a  *)
(* local application sent: control messages of protocol.rs, DNS names      *)
(* of domain_route.rs, HTTP header blocks of http_connect.rs and the date  *)
(* of camouflage.rs.  Each is an operator, checked against what it is      *)
(* meant to compute over inputs that the actions build up step by step;    *)
(* part says which one a behaviour is about.                               *)
(*                                                                         *)
(* In control messages a byte is a digit 0 .. W - 1 and a length has two   *)
(* of them; an IPv4 address is one byte and an IPv6 address two.  A string *)
(* is a sequence of bytes none of which is NotText; the text of an address *)
(* starts with a sign that no other text has (the dots and colons of the   *)
(* real one) and has two digits to the base Radix for a byte.              *)
(***************************************************************************)
EXTENDS Integers, Sequences, FiniteSets

CONSTANTS W,         \* the number of byte values in control messages
          Values,    \* control messages that are sent
          MaxDamage, \* changes on the way
          NotText,   \* the byte that is not UTF-8
          Radix,     \* W = Radix * Radix
          MaxUdp,    \* MAX_UDP_PAYLOAD, scaled
          NameBytes, MaxName,    \* bytes and length of DNS messages
          MaxJumps,  \* read_name: compression pointers followed
          MaxLine, MaxBlock,     \* HTTP header limits, scaled
          LastDay,   \* days since the epoch to walk through
          Nothing

VARIABLES part, x, original, damage

wireVars == <<part, x, original, damage>>

-----------------------------------------------------------------------------
(* Control messages                                                        *)

OpAuth == 1
OpOpen == 2
OpUdpMux == 3
OpMux == 4
OpReq == 5
OpRep == 6
OpOk == 7
OpErr == 8
OpenExt == 1

U16(n) == <<n \div W, n % W>>
FromU16(s, i) == s[i] * W + s[i + 1]
Slice(s, i, n) == SubSeq(s, i, i + n - 1)

\* str::from_utf8
IsText(s) == \A i \in 1 .. Len(s) : s[i] # NotText

\* Ipv4Addr and Ipv6Addr: what their texts are, and what to_string writes.  An
\* IPv6 address that starts with zero has a short text and a long one.
Dots == 7
Colons == 6
TwoColons == 5
Digits(a) == <<a \div Radix, a % Radix>>
TextsV4(a) == {<<Dots>> \o Digits(a)}
TextsV6(a) ==
    {<<Colons>> \o Digits(a[1]) \o Digits(a[2])}
      \cup (IF a[1] = 0 THEN {<<TwoColons>> \o Digits(a[2])} ELSE {})
V4ToString(a) == <<Dots>> \o Digits(a)
V6ToString(a) ==
    IF a[1] = 0 THEN <<TwoColons>> \o Digits(a[2])
    ELSE <<Colons>> \o Digits(a[1]) \o Digits(a[2])

Byte == 0 .. W - 1
IsV4(h) == Len(h) = 3 /\ \E a \in Byte : h \in TextsV4(a)
IsV6(h) == Len(h) \in {3, 5} /\ \E a \in Byte, b \in Byte : h \in TextsV6(<<a, b>>)

\* encode_atyp_host_port, without the port: a host is a string, and one that is
\* the text of an address is sent as that address.
EncodeName(h) == <<3, Len(h)>> \o h
EncodeHost(h) ==
    CASE IsV4(h) -> <<1, CHOOSE a \in Byte : h \in TextsV4(a)>>
      [] IsV6(h) -> <<4>> \o (CHOOSE a \in Byte \X Byte : h \in TextsV6(a))
      [] OTHER -> EncodeName(h)

\* decode_atyp_host_port: the string, and how many bytes the address took.
DecodeHost(s) ==
    CASE s = <<>> -> Nothing
      [] s[1] = 1 -> IF Len(s) < 4 THEN Nothing ELSE [h |-> V4ToString(s[2]), n |-> 2]
      [] s[1] = 4 -> IF Len(s) < 5 THEN Nothing ELSE [h |-> V6ToString(Slice(s, 2, 2)), n |-> 3]
      [] s[1] = 3 -> IF Len(s) < 2 THEN Nothing
                     ELSE IF Len(s) < 2 + s[2] + 2 \/ ~IsText(Slice(s, 3, s[2])) THEN Nothing
                     ELSE [h |-> Slice(s, 3, s[2]), n |-> 2 + s[2]]
      [] OTHER -> Nothing

Encode(v) ==
    CASE v.op = OpAuth -> <<OpAuth>> \o U16(Len(v.b)) \o v.b
      [] v.op = OpErr -> <<OpErr>> \o U16(Len(v.b)) \o v.b
      [] v.op = OpOpen -> <<OpOpen>> \o U16(Len(v.b)) \o v.b \o U16(v.port) \o <<OpenExt, v.flags>>
      [] v.op \in {OpReq, OpRep} -> <<v.op, v.xid>> \o EncodeHost(v.host) \o U16(v.port) \o v.b
      [] OTHER -> <<v.op>>

\* decode_v3_auth, decode_v3_open_err.
DecodeText(s, op) ==
    IF Len(s) < 3 \/ s[1] # op \/ Len(s) # 3 + FromU16(s, 2) THEN Nothing
    ELSE IF ~IsText(Slice(s, 4, FromU16(s, 2))) THEN Nothing
    ELSE [op |-> op, b |-> Slice(s, 4, FromU16(s, 2))]

\* decode_v3_open_inner: the trailer may be missing, nothing may follow it.
DecodeOpen(s) ==
    IF Len(s) < 5 \/ s[1] # OpOpen THEN Nothing
    ELSE LET n == FromU16(s, 2)
             rest == SubSeq(s, 6 + n, Len(s))
         IN  IF Len(s) < 5 + n THEN Nothing
             ELSE IF ~IsText(Slice(s, 4, n)) THEN Nothing
             ELSE CASE rest = <<>> -> [op |-> OpOpen, b |-> Slice(s, 4, n), port |-> FromU16(s, 4 + n), flags |-> 0]
                    [] Len(rest) = 2 /\ rest[1] = OpenExt ->
                         [op |-> OpOpen, b |-> Slice(s, 4, n), port |-> FromU16(s, 4 + n), flags |-> rest[2]]
                    [] OTHER -> Nothing

\* decode_udp_req, decode_udp_rep: the payload is whatever follows the address, up
\* to a limit.
DecodeUdp(s, op) ==
    IF Len(s) < 2 \/ s[1] # op THEN Nothing
    ELSE LET rest == SubSeq(s, 3, Len(s))
             a == DecodeHost(rest)
         IN  IF a = Nothing THEN Nothing
             ELSE IF Len(rest) - (a.n + 2) > MaxUdp THEN Nothing
             ELSE [op |-> op, xid |-> s[2], host |-> a.h, port |-> FromU16(rest, a.n + 1),
                   b |-> SubSeq(rest, a.n + 3, Len(rest))]

DecodeBare(s, op) == IF s = <<op>> THEN [op |-> op] ELSE Nothing

\* Each message is read by the decoder of the state that expects it; these are
\* the values that any of them makes of s.
Valid(s) ==
    ({DecodeText(s, op) : op \in {OpAuth, OpErr}} \cup {DecodeOpen(s)}
       \cup {DecodeUdp(s, op) : op \in {OpReq, OpRep}}
       \cup {DecodeBare(s, op) : op \in {OpUdpMux, OpMux, OpOk}}) \ {Nothing}

-----------------------------------------------------------------------------
(* read_name of domain_route.rs.  Positions count from 0; a label is the   *)
(* pair of its position and length.                                        *)

At(s, p) == s[p + 1]

\* Mutant: the position after the name is the one after the last pointer.
AfterPointerLast(after, p) == p + 2
\* Only the first pointer sets where the record goes on.
AfterPointer(after, p) == IF after = Nothing THEN p + 2 ELSE after

RECURSIVE ReadFrom(_, _, _, _, _)
ReadFrom(s, p, labels, jumps, after) ==
    CASE p >= Len(s) -> Nothing
      [] At(s, p) >= 192 ->
           IF p + 1 >= Len(s) THEN Nothing
           ELSE LET ptr == (At(s, p) - 192) * 256 + At(s, p + 1)
                IN  IF jumps + 1 > MaxJumps \/ ptr >= Len(s) THEN Nothing
                    ELSE ReadFrom(s, ptr, labels, jumps + 1, AfterPointer(after, p))
      [] At(s, p) = 0 -> [labels |-> labels, end |-> IF after = Nothing THEN p + 1 ELSE after]
      [] OTHER -> IF p + 1 + At(s, p) > Len(s) \/ Len(labels) + 1 > 128 THEN Nothing
                  ELSE ReadFrom(s, p + 1 + At(s, p), Append(labels, <<p, At(s, p)>>), jumps, after)

ReadName(s, start) == ReadFrom(s, start, <<>>, 0, Nothing)

-----------------------------------------------------------------------------
(* read_header_block: a line is its length and whether it is the blank one *)

\* read_header_line: bytes taken, or an error; a line that the budget cuts is
\* taken as far as it goes.
ReadLine(remaining, len) ==
    LET cap == IF remaining < MaxLine + 1 THEN remaining ELSE MaxLine + 1
        n == IF len < cap THEN len ELSE cap
    IN  IF remaining = 0 \/ n > MaxLine THEN Nothing ELSE n

RECURSIVE ReadBlock(_, _)
ReadBlock(lines, total) ==
    IF lines = <<>> THEN FALSE
    ELSE LET n == ReadLine(IF total < MaxBlock THEN MaxBlock - total ELSE 0, Head(lines).len)
         IN  CASE n = Nothing -> FALSE
               [] n = Head(lines).len /\ Head(lines).blank -> TRUE
               [] OTHER -> ReadBlock(Tail(lines), total + n)

-----------------------------------------------------------------------------
(* civil_from_days of camouflage.rs, for days after the epoch              *)

YearOfEra(doe) == (doe - doe \div 1460 + doe \div 36524 - doe \div 146096) \div 365

CivilFromDays(days) ==
    LET z == days + 719468
        era == z \div 146097
        doe == z - era * 146097
        yoe == YearOfEra(doe)
        doy == doe - (365 * yoe + yoe \div 4 - yoe \div 100)
        mp == (5 * doy + 2) \div 153
        month == IF mp < 10 THEN mp + 3 ELSE mp - 9
    IN  [y |-> yoe + era * 400 + (IF month <= 2 THEN 1 ELSE 0), m |-> month,
         d |-> doy - (153 * mp + 2) \div 5 + 1]

\* 0 is Sunday.
WeekDay(days) == (days + 4) % 7

-----------------------------------------------------------------------------
Init ==
    /\ damage = 0
    /\ \/ part = "control" /\ original \in Values /\ x = Encode(original)
       \/ part = "name" /\ original = Nothing /\ x = <<>>
       \/ part = "header" /\ original = Nothing /\ x = <<>>
       \/ part = "date" /\ original = Nothing /\ x = [days |-> 0, y |-> 1970, m |-> 1, d |-> 1, w |-> 4]

\* A control message is cut short, grows or has a byte changed on its way.
Truncate == part = "control" /\ x # <<>> /\ x' = SubSeq(x, 1, Len(x) - 1)
Extend == part = "control" /\ \E b \in 0 .. W - 1 : x' = Append(x, b)
Change == part = "control" /\ \E i \in 1 .. Len(x), b \in 0 .. W - 1 : x' = [x EXCEPT ![i] = b]

Damage == damage < MaxDamage /\ damage' = damage + 1 /\ (Truncate \/ Extend \/ Change) /\ UNCHANGED <<part, original>>

MoreName ==
    /\ part = "name" /\ Len(x) < MaxName /\ \E b \in NameBytes : x' = Append(x, b)
    /\ UNCHANGED <<part, original, damage>>

MoreLines ==
    /\ part = "header" /\ Len(x) <= MaxBlock
    /\ \E l \in 1 .. MaxLine + 1, blank \in BOOLEAN : (blank => l <= 2) /\ x' = Append(x, [len |-> l, blank |-> blank])
    /\ UNCHANGED <<part, original, damage>>

Leap(y) == y % 4 = 0 /\ (y % 100 # 0 \/ y % 400 = 0)
MonthLen(y, m) == IF m = 2 THEN (IF Leap(y) THEN 29 ELSE 28) ELSE IF m \in {4, 6, 9, 11} THEN 30 ELSE 31

Midnight ==
    /\ part = "date" /\ x.days < LastDay
    /\ x' = [days |-> x.days + 1, w |-> (x.w + 1) % 7,
             d |-> IF x.d < MonthLen(x.y, x.m) THEN x.d + 1 ELSE 1,
             m |-> IF x.d < MonthLen(x.y, x.m) THEN x.m ELSE IF x.m < 12 THEN x.m + 1 ELSE 1,
             y |-> IF x.m = 12 /\ x.d = 31 THEN x.y + 1 ELSE x.y]
    /\ UNCHANGED <<part, original, damage>>

Next == Damage \/ MoreName \/ MoreLines \/ Midnight

Spec == Init /\ [][Next]_wireVars

-----------------------------------------------------------------------------
\* A host as it is read back: an address in the form that to_string gives it.
Canonical(v) ==
    IF v.op \in {OpReq, OpRep} THEN [v EXCEPT !.host = DecodeHost(EncodeHost(v.host) \o U16(0)).h]
    ELSE v

\* What is sent is read back as it was, an address in its own spelling, and by
\* no other decoder.
RoundTrip == part = "control" /\ damage = 0 => Valid(x) = {Canonical(original)}

\* The other bytes that are read as v: an OPEN may lack its trailer when it has no
\* flags, and an address may come as a name, in any of its spellings.
Spellings(v) ==
    {Encode(v)}
      \cup (IF v.op = OpOpen /\ v.flags = 0
             THEN {SubSeq(Encode(v), 1, Len(Encode(v)) - 2)} ELSE {})
      \cup (IF v.op \in {OpReq, OpRep}
             THEN {<<v.op, v.xid>> \o EncodeName(v.host) \o U16(v.port) \o v.b} ELSE {})

\* No message, damaged or not, means something to two decoders.  Messages that
\* are read alike are the same bytes but for the spellings above, and sending on
\* what was read reaches the same destination.  No message is the beginning of
\* another, except that an OPEN may lose its trailer and a datagram its end.
Unambiguous ==
    part = "control" =>
        /\ Cardinality(Valid(x)) <= 1
        /\ \A v \in Valid(x) : x \in Spellings(v) /\ Valid(Encode(v)) = {Canonical(v)}
        /\ \A v \in Valid(x), n \in 0 .. Len(x) - 1 : \A w \in Valid(SubSeq(x, 1, n)) :
             /\ w.op = v.op
             /\ \/ v.op = OpOpen /\ n = Len(x) - 2 /\ w = [v EXCEPT !.flags = 0]
                \/ v.op \in {OpReq, OpRep} /\ w = [v EXCEPT !.b = w.b]

\* The walk from start, jumps followed: the positions at which it stands.
Step(s, p) ==
    CASE p >= Len(s) -> p
      [] At(s, p) = 0 -> p
      [] At(s, p) >= 192 -> IF p + 1 >= Len(s) THEN Len(s) ELSE (At(s, p) - 192) * 256 + At(s, p + 1)
      [] OTHER -> p + 1 + At(s, p)
RECURSIVE Walk(_, _, _)
Walk(s, p, n) == IF n = 0 THEN p ELSE Walk(s, Step(s, p), n - 1)

\* A name is read exactly when the walk ends at a zero byte; loops and
\* truncated names are refused.  The record goes on behind the first pointer
\* or, without one, behind the zero byte, never before the name.
NameExact ==
    part = "name" =>
        \A start \in 0 .. Len(x) - 1 :
            LET r == ReadName(x, start)
                last == Walk(x, start, Len(x) + 1)
                walk == {Walk(x, start, n) : n \in 0 .. Len(x) + 1}
                flat == CHOOSE n \in 0 .. Len(x) : /\ \A k \in 0 .. n - 1 : Walk(x, start, k) < Len(x) /\ At(x, Walk(x, start, k)) \in 1 .. 191
                                                   /\ (Walk(x, start, n) >= Len(x) \/ At(x, Walk(x, start, n)) \notin 1 .. 191)
            IN  /\ (r # Nothing) <=> (last < Len(x) /\ At(x, last) = 0)
                /\ r # Nothing =>
                     /\ r.end = Walk(x, start, flat) + (IF At(x, Walk(x, start, flat)) = 0 THEN 1 ELSE 2)
                     /\ Len(r.labels) = Cardinality({p \in walk : At(x, p) \in 1 .. 191})

\* A block is accepted exactly when a blank line ends it, no line is too long
\* and the whole of it is within the limit.
HeaderExact ==
    part = "header" =>
        LET total[n \in 0 .. Len(x)] == IF n = 0 THEN 0 ELSE total[n - 1] + x[n].len
        IN  ReadBlock(x, 0) <=>
              \E n \in 1 .. Len(x) : /\ x[n].blank /\ \A k \in 1 .. n - 1 : ~x[k].blank
                                     /\ \A k \in 1 .. n : x[k].len <= MaxLine
                                     /\ total[n] <= MaxBlock

\* The date of every day, century years included, is the calendar's.
DateExact ==
    part = "date" => CivilFromDays(x.days) = [y |-> x.y, m |-> x.m, d |-> x.d] /\ WeekDay(x.days) = x.w

\* Every codec computes what it is meant to: messages come back, damaged ones
\* are not taken for others, and names, headers and dates are those of the
\* reference.
CodecsExact ==
    /\ RoundTrip
    /\ Unambiguous
    /\ NameExact
    /\ HeaderExact
    /\ DateExact
=============================================================================
