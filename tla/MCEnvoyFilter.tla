---------------------------- MODULE MCEnvoyFilter ----------------------------
(* Constants of the model-checked instance of EnvoyFilter: a proxy whose   *)
(* own header is x-api-key without a prefix, and a gateway that may move   *)
(* the key to Authorization or to a header of its own.                     *)
EXTENDS EnvoyFilter, TLC

CONSTANTS s1, x_api_key, authorization, x_gateway_key, p1, p2

OneStream == {s1}
Headers   == {x_api_key, authorization, x_gateway_key}
Tokens    == {Bearer, Key, p1, p2}
NoPrefix  == <<>>
Known     == {x_api_key, authorization}

(* Every combination of a missing, a bare, a Bearer and another payload.   *)
ClientRequests ==
    {m \in [Headers -> {None, <<p1>>, <<Bearer, p1>>, <<Bearer, p2>>}] :
        m[x_gateway_key] \in {None, <<p1>>}}

GatewayAnswers ==
    {[output_header |-> None, output_prefix |-> None],
     [output_header |-> authorization, output_prefix |-> <<Bearer>>],
     [output_header |-> x_gateway_key, output_prefix |-> NoPrefix]}

(* Three parts have a Kinesis stream, three are skipped.                   *)
Streams == {"request_body", "request_headers", "response_body"}

(* Bodies that are empty, fill a chunk and exceed it by a byte; a response *)
(* that comes in one piece or in two.                                      *)
RequestSizes  == {0, safe_raw_chunk_size, safe_raw_chunk_size + 1}
ResponseSizes == {safe_raw_chunk_size \div 2, safe_raw_chunk_size + 1}
LongestBody   == safe_raw_chunk_size + 1
=============================================================================
