---------------------------- MODULE MCMuxCredit -----------------------------
(***************************************************************************)
(* Flow control of a mux stream: the credit channel on its own, one stream *)
(* of MuxFlow in both directions (which implements the channel), and two   *)
(* streams of which nobody reads the first.                                *)
(***************************************************************************)
EXTENDS MuxCredit

VARIABLES part,   \* the component that runs
          v1, v2, v3, v4, v5, v6, v7, v8   \* its variables

Stream == INSTANCE MuxFlow WITH
  Sids <- 1..1, Window <- [c |-> 1, s |-> 3], CreditDiv <- 1, MaxStreams <- 1, MaxQueued <- 2,
  Budget <- 1, CtlCap <- 1, OutCap <- 1, WireCap <- 2, MaxChunk <- 2,
  ToSend <- <<[c |-> 4, s |-> 1]>>, MayFail <- {}, MayTimeOut <- FALSE,
  run <- v1, sess <- v2, neg <- v3, nextSid <- v4, flow <- v5, out <- v6, ctl <- v7,
  wire <- v8

Stalled == INSTANCE MuxFlow WITH
  Sids <- 1..2, Window <- [e \in {"c", "s"} |-> 1], CreditDiv <- 1, MaxStreams <- 2, MaxQueued <- 1,
  Budget <- 2, CtlCap <- 2, OutCap <- 1, WireCap <- 1, MaxChunk <- 2,
  ToSend <- <<[c |-> 1, s |-> 0], [c |-> 2, s |-> 0]>>, MayFail <- {},
  MayTimeOut <- FALSE,
  run <- v1, sess <- v2, neg <- v3, nextSid <- v4, flow <- v5, out <- v6, ctl <- v7,
  wire <- v8

-----------------------------------------------------------------------------
(***************************************************************************)
(* A behaviour is one of a single component.  The variables it does not    *)
(* need keep the value <<>>, and those of MuxCredit their first value.     *)
(***************************************************************************)
Unused0 ==
  /\ v1 = <<>> /\ v2 = <<>> /\ v3 = <<>> /\ v4 = <<>> /\ v5 = <<>> /\ v6 = <<>> /\ v7 = <<>>
  /\ v8 = <<>>
Rest0 == <<v1, v2, v3, v4, v5, v6, v7, v8>>

SuiteInit ==
  \/ part = "channel" /\ Init /\ Unused0
  \/ part = "stream"  /\ Stream!Init /\ Init
  \/ part = "stalled" /\ Stalled!Init /\ Init

SuiteNext ==
  \/ part = "channel" /\ Next /\ UNCHANGED <<part, Rest0>>
  \/ part = "stream"  /\ Stream!Next /\ UNCHANGED <<part, vars>>
  \/ part = "stalled" /\ Stalled!Next /\ UNCHANGED <<part, vars>>

suiteVars == <<part, v1, v2, v3, v4, v5, v6, v7, v8, vars>>

\* The fairness of MuxFlow for the second stream.
StalledFairness ==
  /\ \A e \in {"c", "s"} :
       /\ WF_(Stalled!vars)(part = "stalled" /\ Stalled!WriteControl(e))
       /\ WF_(Stalled!vars)(part = "stalled" /\ Stalled!WriteOutput(e))
       /\ WF_(Stalled!vars)(part = "stalled" /\ Stalled!Dispatch(e))
       /\ WF_(Stalled!vars)(part = "stalled" /\ Stalled!Uplink(e, 2))
       /\ WF_(Stalled!vars)(part = "stalled" /\ Stalled!Written(e, 2))
       /\ WF_(Stalled!vars)(part = "stalled"
                             /\ (Stalled!Downlink(e, 2) \/ Stalled!TaskEnds(e, 2)))
  /\ WF_(Stalled!vars)(part = "stalled" /\ Stalled!SendOpen(2))
  /\ WF_(Stalled!vars)(part = "stalled" /\ Stalled!Connected(2))

SuiteSpec == SuiteInit /\ [][SuiteNext]_suiteVars /\ StalledFairness

-----------------------------------------------------------------------------
\* Nothing of a stream goes missing between its two ends: credit covers what
\* is in flight, what is received is accounted for, and a FIN comes after the
\* last byte.
StreamIsWhole == part = "stream" => Stream!StreamIsWhole

\* Without a failure outside the session, a negotiated stream is only reset, and
\* the session only ends, for a receive queue of MAX_QUEUED_RECORDS records or a
\* full control lane, both of which fill in this instance; and an RST comes only
\* from an end that has reset the stream itself.
NoSpuriousReset ==
  [][part = "stream" => Stream!ResetsHaveCause]_suiteVars

\* Both directions of a negotiated stream implement the credit channel: MuxFlow
\* refines MuxCredit under the mappings Up and Down.
StreamIsCreditChannel ==
  /\ part = "stream" => Stream!Up!Init /\ Stream!Down!Init
  /\ [][part = "stream" => Stream!Up!Next]_(Stream!Up!vars)
  /\ [][part = "stream" => Stream!Down!Next]_(Stream!Down!vars)

\* A stalled stream does not block its neighbours: the second stream gets all
\* its bytes through the shared lanes, wire and reader although nobody ever
\* reads the first one (the reader never waits, DATA waits for credit before
\* it may occupy a lane).
NoHeadOfLineBlocking ==
  \A k \in 1..2 :
    (part = "stalled" /\ Stalled!Accepted("c", 2, k))
      ~> (part = "stalled" /\ Stalled!HasRead("c", 2, k))

\* The second stream is released at both ends once both its sides have sent
\* their FIN: no pump waits for ever for credit, a lane or a wakeup.
StreamsAreReleased ==
  (part = "stalled" /\ Stalled!BothDone(2)) ~> (part = "stalled" /\ Stalled!Released(2))
=============================================================================
