---- MODULE MCHttpClient ----
(* Small instances of HttpClient for TLC.                                  *)
EXTENDS HttpClient

(* A date already past, or a delay longer than the first backoff.          *)
PastAndLater == {-1, 3}
====
