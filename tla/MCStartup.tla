----------------------------- MODULE MCStartup -----------------------------
EXTENDS Startup

(* A negative number, one that fits any field, one that fits none of the numbers. *)
MCNumbers == {-1, 80, 131152}

(* One key of each type, the two that gate a listener, and both spellings. *)
MCKeys ==
    {"http/enabled", "https/enabled", "http/port", "worker_limit", "keys/dir", "https/key",
     "https/tlsv12Enabled", "https/tlsv12_enabled", "http_signature/version",
     "http_signature/cavage12_params", "verbs", "connection_timeout"}
=============================================================================
