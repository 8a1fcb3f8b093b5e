---------------------------- MODULE MCRestClient ----------------------------
(* Instance of RestClient for TLC. *)
EXTENDS RestClient

CONSTANTS p1, p2, p3

MCPage == {p1, p2, p3}
MCStatus == {200, 204, 404, 500, 503}
MCRetryOnStatus == {429, 500, 502, 503, 504}   \* builtin_retry_on_status
=============================================================================
