------------------------------ MODULE MCServer ------------------------------
(***************************************************************************)
(* The server and what reaches it: its connections with permits, users and *)
(* the authentication limiter they call, the camouflage front, the UDP     *)
(* sockets behind the mux, the wire formats, and the configuration a       *)
(* server and its clients are started with.                                *)
(***************************************************************************)
EXTENDS ServerSession

CONSTANTS c1, c2, c3, ip1, ip2,
          NoValue   \* no value, of whatever kind

\* Two connections share a source, the third has its own.
TwoSources == [c \in Conns |-> IF c = c3 THEN ip2 ELSE ip1]

\* Every user may have one session.
LimitOne == [u \in Users |-> 1]

\* Control messages with empty, short and ambiguous contents (1 AUTH, 2 OPEN,
\* 3 UDP mux, 4 mux, 5 and 6 UDP request and reply, 7 OK, 8 ERR).
Texts == {<<>>, <<1>>, <<3, 1>>}
\* Names, one of them a byte away from the text of an address, and the texts of
\* an IPv4 address and of two IPv6 addresses, one in both of its spellings.
Hosts ==
  {<<>>, <<2>>, <<1, 1>>, <<1, 0, 2>>, <<7, 0, 2>>, <<6, 0, 1, 1, 0>>, <<5, 1, 0>>, <<6, 0, 0, 1, 0>>}
Messages ==
  [op : {1, 8}, b : Texts]
    \cup [op : {2}, b : Texts, port : {0, 10}, flags : {0, 1}]
    \cup [op : {5, 6}, xid : {3}, host : Hosts, port : {10}, b : Texts]
    \cup [op : {3, 4, 7}]

VARIABLES part,   \* the component that runs
          v1, v2, v3, v4, v5, v6, v7, v8, v9, v10, v11   \* its variables

Given == INSTANCE DeploymentInputs
Offered == INSTANCE ConnectionInputs

Many == INSTANCE UdpSockets WITH
  Reqs <- 1..3, Dests <- {"d1", "d2"}, Socks <- {"s1", "s2", "s3"}, Pooled <- TRUE,
  Cap <- 2, MaxAddrs <- 1, Copies <- 2, Drain <- 2, None <- NoValue,
  pc <- v1, addrs <- v2, sock <- v3, recycle <- v4, result <- v5, free <- v6,
  idle <- v7, pushing <- v8, permits <- v9, queue <- v10, net <- v11

Addrs == INSTANCE UdpSockets WITH
  Reqs <- 1..2, Dests <- {"d1", "d2"}, Socks <- {"s1", "s2", "s3"}, Pooled <- TRUE,
  Cap <- 2, MaxAddrs <- 2, Copies <- 2, Drain <- 2, None <- NoValue,
  pc <- v1, addrs <- v2, sock <- v3, recycle <- v4, result <- v5, free <- v6,
  idle <- v7, pushing <- v8, permits <- v9, queue <- v10, net <- v11

Own == INSTANCE UdpSockets WITH
  Reqs <- 1..2, Dests <- {"d1", "d2"}, Socks <- {"s1", "s2"}, Pooled <- FALSE, Cap <- 1,
  MaxAddrs <- 2, Copies <- 2, Drain <- 2, None <- NoValue,
  pc <- v1, addrs <- v2, sock <- v3, recycle <- v4, result <- v5, free <- v6,
  idle <- v7, pushing <- v8, permits <- v9, queue <- v10, net <- v11

Front == INSTANCE CamouflageFront WITH
  Requests <- Offered!FrontRequests, Configs <- Offered!FrontConfigs, Private <- {1},
  Public <- {2}, HeadCap <- 2, Chunk <- 2, OriginMax <- 3, MaxChanges <- 1,
  req <- v1, cfg <- v2, got <- v3, at <- v4, dns <- v5, peer <- v6, asked <- v7,
  origin <- v8, reply <- v9, gone <- v10, changes <- v11

Wire == INSTANCE WireFormats WITH
  W <- 9, Values <- Messages, MaxDamage <- 2, NotText <- 8, Radix <- 3, MaxUdp <- 2,
  NameBytes <- {0, 1, 2, 192, 193},
  MaxName <- 6, MaxJumps <- 32, MaxLine <- 3, MaxBlock <- 6, LastDay <- 60000,
  Nothing <- NoValue,
  part <- v1, x <- v2, original <- v3, damage <- v4

Deploy == INSTANCE Deployment WITH
  Servers <- Given!ServerCommands, Blobs <- Given!OtherBlobs, Inputs <- Given!UserInputs,
  stage <- v1, server <- v2, blob <- v3, client <- v4, derived <- v5

-----------------------------------------------------------------------------
(***************************************************************************)
(* A behaviour is one of a single component.  The variables it does not    *)
(* need keep the value <<>>, and those of ServerSession one first value.   *)
(***************************************************************************)
Unused5 ==
  /\ v6 = <<>> /\ v7 = <<>> /\ v8 = <<>> /\ v9 = <<>> /\ v10 = <<>> /\ v11 = <<>>
Rest5 == <<v6, v7, v8, v9, v10, v11>>
Unused4 == v5 = <<>> /\ Unused5
Rest4 == <<v5, Rest5>>
Unused0 == v1 = <<>> /\ v2 = <<>> /\ v3 = <<>> /\ v4 = <<>> /\ Unused4
Rest0 == <<v1, v2, v3, v4, Rest4>>

NoServer == Init /\ reality = FALSE

SuiteInit ==
  \/ part = "server" /\ Init /\ Unused0
  \/ /\ NoServer
     /\ \/ part = "many"   /\ Many!Init
        \/ part = "names"  /\ Addrs!Init
        \/ part = "own"    /\ Own!Init
        \/ part = "front"  /\ Front!Init
        \/ part = "wire"   /\ Wire!Init /\ Unused4
        \/ part = "deploy" /\ Deploy!Init /\ Unused5

SuiteNext ==
  \/ part = "server" /\ Next /\ UNCHANGED <<part, Rest0>>
  \/ part = "many"   /\ Many!Next /\ UNCHANGED <<part, vars>>
  \/ part = "names"  /\ Addrs!Next /\ UNCHANGED <<part, vars>>
  \/ part = "own"    /\ Own!Next /\ UNCHANGED <<part, vars>>
  \/ part = "front"  /\ Front!Next /\ UNCHANGED <<part, vars>>
  \/ part = "wire"   /\ Wire!Next /\ UNCHANGED <<part, Rest4, vars>>
  \/ part = "deploy" /\ Deploy!Next /\ UNCHANGED <<part, Rest5, vars>>

suiteVars == <<part, v1, v2, v3, v4, v5, v6, v7, v8, v9, v10, v11, vars>>

SuiteSpec == SuiteInit /\ [][SuiteNext]_suiteVars

-----------------------------------------------------------------------------
\* Sockets and permits are neither lost nor shared, and no request is
\* answered by another host; without a pool, by no other request's datagram.
SocketsExact ==
  /\ part = "many" => Many!SocketsExact
  /\ part = "names" => Addrs!SocketsExact
  /\ part = "own" => Own!SocketsExact

\* A request gets one answer, framed as announced, from nowhere private,
\* whenever the client or the origin breaks off.
AnswersExact == part = "front" => Front!AnswersExact

\* Every codec computes what it is meant to: messages come back, damaged ones
\* are not taken for others, and names, headers and dates are those of the
\* reference.
CodecsExact == part = "wire" => Wire!CodecsExact

\* A client made from a server's own invite, printed or minted, fits that server
\* but for the cases InviteFits names, and decoding costs no more than the caps.
InvitesFit == part = "deploy" => Deploy!InvitesFit

\* The front ends make the same options of the same settings, what is set
\* explicitly wins, and the protection asked for runs, each with the exceptions
\* of the code that the three conjuncts name.
FrontendsMatch == part = "deploy" => Deploy!FrontendsMatch
=============================================================================
