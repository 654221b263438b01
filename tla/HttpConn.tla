------------------------------ MODULE HttpConn ------------------------------
(***************************************************************************)
(* A persistent HTTP connection and its pipeline (phases/                  *)
(* 06-application-protocols/10-persistent-connections-and-pipelining/      *)
(* http_conn.c): a ring of requests that are answered in order.  The       *)
(* server takes a request off the wire, starts on the oldest when it is    *)
(* not busy, and answers it.                                               *)
(***************************************************************************)
EXTENDS Naturals, Sequences

CONSTANTS
    Uri,
    Ring,         \* NFS_HTTP_MAX_PIPELINE
    MaxRequests,  \* values of max_requests, 0 for no limit
    MaxSent       \* bound: requests a client sends

HttpConnConstants ==
    Ring \in Nat \ {0} /\ MaxRequests \subseteq Nat /\ MaxSent \in Nat

VARIABLES
    version, max_requests,                                      \* struct nfs_http_conn
    state, keep_alive_explicit, close_explicit, request_count,
    pipeline, pipeline_head, pipeline_tail, pipeline_count,
    asked,     \* history: requests taken in and not answered, with their Connection header
    sent       \* requests taken in

vars == <<version, max_requests, state, keep_alive_explicit, close_explicit, request_count,
          pipeline, pipeline_head, pipeline_tail, pipeline_count, asked, sent>>
config == <<version, max_requests>>
connVars == <<config, state, keep_alive_explicit, close_explicit, request_count>>
pipeVars == <<pipeline, pipeline_head, pipeline_tail, pipeline_count>>

Option == {"none", "keep-alive", "close"}
NoUri == "no uri"

\* There is no connection yet.
Init ==
    /\ version = "1.1" /\ max_requests = 0
    /\ state = "CLOSE" /\ keep_alive_explicit = FALSE /\ close_explicit = FALSE
    /\ request_count = 0
    /\ pipeline = [i \in 0..(Ring - 1) |-> NoUri]
    /\ pipeline_head = 0 /\ pipeline_tail = 0 /\ pipeline_count = 0
    /\ asked = <<>> /\ sent = 0

\* nfs_http_conn_init, for the first connection or the next one.
ConnInit(ver, max) ==
    /\ state = "CLOSE"
    /\ state' = "IDLE" /\ version' = ver /\ max_requests' = max
    /\ keep_alive_explicit' = FALSE /\ close_explicit' = FALSE /\ request_count' = 0
    /\ pipeline' = [i \in 0..(Ring - 1) |-> NoUri]
    /\ pipeline_head' = 0 /\ pipeline_tail' = 0 /\ pipeline_count' = 0
    /\ asked' = <<>>
    /\ UNCHANGED sent

HasRoom == pipeline_count < Ring

\* nfs_http_pipeline_enqueue, for a request the server has read.
Enqueue(uri, option) ==
    /\ state # "CLOSE" /\ sent < MaxSent /\ HasRoom
    /\ pipeline' = [pipeline EXCEPT ![pipeline_tail] = uri]
    /\ pipeline_tail' = (pipeline_tail + 1) % Ring
    /\ pipeline_count' = pipeline_count + 1
    /\ asked' = Append(asked, [uri |-> uri, option |-> option])
    /\ sent' = sent + 1
    /\ UNCHANGED <<connVars, pipeline_head>>

\* nfs_http_conn_on_request, for the request at the head of the pipeline.
OnRequest ==
    /\ state \in {"IDLE", "KEEP_ALIVE"} /\ pipeline_count > 0
    /\ state' = "ACTIVE"
    /\ request_count' = request_count + 1
    /\ keep_alive_explicit' = (asked[1].option = "keep-alive")
    /\ close_explicit' = (asked[1].option = "close")
    /\ UNCHANGED <<config, pipeVars, asked, sent>>

\* Mutant: the limit is noticed one request late.
LimitReachedLate == max_requests > 0 /\ request_count > max_requests

LimitReached == max_requests > 0 /\ request_count >= max_requests

\* What nfs_http_conn_on_response decides.
AfterResponse ==
    IF LimitReached \/ close_explicit THEN "CLOSE"
    ELSE IF version = "1.1" \/ keep_alive_explicit THEN "KEEP_ALIVE"
    ELSE "CLOSE"

\* nfs_http_conn_on_response, and nfs_http_pipeline_dequeue of what it
\* answers; a connection that closes drops the rest (nfs_http_pipeline_reset).
OnResponse ==
    /\ state = "ACTIVE"
    /\ state' = AfterResponse
    /\ \/ /\ AfterResponse = "CLOSE"
          /\ pipeline_head' = 0 /\ pipeline_tail' = 0 /\ pipeline_count' = 0
          /\ asked' = <<>>
          /\ UNCHANGED pipeline
       \/ /\ AfterResponse # "CLOSE"
          /\ pipeline_head' = (pipeline_head + 1) % Ring
          /\ pipeline_count' = pipeline_count - 1
          /\ asked' = Tail(asked)
          /\ UNCHANGED <<pipeline, pipeline_tail>>
    /\ UNCHANGED <<config, keep_alive_explicit, close_explicit, request_count, sent>>

Next ==
    \/ \E ver \in {"1.0", "1.1"}, max \in MaxRequests : ConnInit(ver, max)
    \/ \E uri \in Uri, option \in Option : Enqueue(uri, option)
    \/ OnRequest
    \/ OnResponse

Spec == Init /\ [][Next]_vars

\* nfs_http_conn_should_close.
ShouldClose ==
    \/ state = "CLOSE"
    \/ max_requests > 0 /\ request_count >= max_requests
    \/ close_explicit
    \/ version = "1.0" /\ ~keep_alive_explicit

\* nfs_http_conn_response_header; "none" for NULL.
ResponseHeader ==
    IF version = "1.0" THEN IF keep_alive_explicit /\ ~close_explicit THEN "keep-alive"
                            ELSE IF ~keep_alive_explicit THEN "close" ELSE "none"
    ELSE IF close_explicit THEN "close" ELSE "none"

-----------------------------------------------------------------------------
TypeOK ==
    /\ version \in {"1.0", "1.1"} /\ max_requests \in MaxRequests \cup {0}
    /\ state \in {"IDLE", "ACTIVE", "KEEP_ALIVE", "CLOSE"}
    /\ pipeline_head \in 0..(Ring - 1) /\ pipeline_tail \in 0..(Ring - 1)
    /\ pipeline_count \in 0..Ring

\* Requests are answered in the order they came, however often the ring has
\* wrapped and whatever was dropped with a connection.
PipelineIsFifo ==
    /\ pipeline_count = Len(asked)
    /\ \A i \in 1..pipeline_count :
           pipeline[(pipeline_head + i - 1) % Ring] = asked[i].uri

\* While a request is served nfs_http_conn_should_close predicts what
\* nfs_http_conn_on_response will decide, a response that says "close" is
\* followed by the close, and so is the answer to a client's "close".
CloseIsPredicted ==
    state = "ACTIVE" =>
        /\ ShouldClose <=> AfterResponse = "CLOSE"
        /\ ResponseHeader = "close" => AfterResponse = "CLOSE"
        /\ asked[1].option = "close" => AfterResponse = "CLOSE"
=============================================================================
