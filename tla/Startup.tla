------------------------------ MODULE Startup ------------------------------
(***************************************************************************)
(* From config.json to a running service: main and App_config.             *)
(*                                                                         *)
(* set_config takes the keys in a fixed order and writes each value into a *)
(* field as it goes; a value of the wrong type throws, and the fields      *)
(* before it keep what they were given.  main turns any exception into     *)
(* exit code EXIT_FAILURE and starts the service only without one.         *)
(*                                                                         *)
(* A value is [type, number, text]: true and false are the numbers 1 and   *)
(* 0, which is also what nlohmann::json makes of them where the field is a *)
(* number narrower than 64 bits; numbers are whole; an array or an object  *)
(* is known by its text alone, its members being strings.  nlohmann::json, *)
(* restbed, libcurl are external.                                          *)
(***************************************************************************)
EXTENDS Integers, FiniteSets, Sequences, TLC

CONSTANTS
    FileKey,    \* keys that occur in configuration files
    Number,     \* numbers that occur in them
    Text,       \* strings that occur in them
    SlashEnded, \* those of them that end in "/"
    UriText,    \* those of them that restbed::Uri accepts
    UintRange,  \* values of a uint: 2^32 in the build
    LongHalf,   \* values of a 64-bit integer below zero: 2^63 in the build
    MaxKeys     \* bound: keys of one file

(* A whole number outside of 64 bits is no integer to nlohmann::json.      *)
ASSUME StartupAssumption ==
    /\ UintRange \in Nat \ {0} /\ LongHalf \in Nat \ {0}
    /\ \A n \in Number : n \in Int /\ 0 - LongHalf <= n /\ n < 2 * LongHalf
    /\ SlashEnded \subseteq Text /\ UriText \subseteq Text
    /\ "" \notin SlashEnded \cup UriText

(***************************************************************************)
(* JSON values, and what a key that is absent or an empty optional holds.  *)
(***************************************************************************)
Bool(b) == [type |-> "bool", number |-> IF b THEN 1 ELSE 0, text |-> ""]
Num(n) == [type |-> "number", number |-> n, text |-> ""]
Str(t) == [type |-> "string", number |-> 0, text |-> t]
Nothing == [type |-> "nothing", number |-> 0, text |-> ""]

Value ==
    {Bool(b) : b \in BOOLEAN} \cup {Num(n) : n \in Number} \cup {Str(t) : t \in Text}
        \cup [type : {"array", "object"}, number : {0}, text : {"members"}]

VARIABLES
    file,       \* FileKey -> Value, or Nothing for an absent key
    readable,   \* the file can be opened and is JSON
    cfg,        \* the fields of App_config
    settings,   \* what get_restbed_settings returned
    crypto,     \* libcrypto: "unused", "ready" or "cleaned"
    curlReady,  \* curl_global_init has run
    signers,    \* names registered in Http_sign_factory
    served,     \* protocols restbed listens for
    stage,      \* where main is
    exitCode,   \* exit_code
    ended       \* history: the handler of main that caught something, or "stopped"

vars ==
    <<file, readable, cfg, settings, crypto, curlReady, signers, served, stage, exitCode, ended>>

(***************************************************************************)
(* The keys, in the order set_config looks for them, with the field each   *)
(* value goes to and the C++ type it is converted to.                      *)
(***************************************************************************)
Reads == <<
    <<"worker_limit", "worker_limit", "uint">>,
    <<"connection_limit", "connection_limit", "uint">>,
    <<"connection_timeout", "connection_timeout", "milliseconds">>,
    <<"http/enabled", "http_enabled", "bool">>,
    <<"http/address", "bind_address", "string">>,
    <<"http/port", "port", "uint16">>,
    <<"https/enabled", "https_enabled", "bool">>,
    <<"https/address", "ssl_bind_address", "string">>,
    <<"https/port", "ssl_port", "uint16">>,
    <<"https/sslv2Enabled", "sslv2_enabled", "bool">>,
    <<"https/sslv3Enabled", "sslv3_enabled", "bool">>,
    <<"https/tlsv1Enabled", "tlsv1_enabled", "bool">>,
    <<"https/tlsv11Enabled", "tlsv11_enabled", "bool">>,
    <<"https/tlsv12Enabled", "tlsv12_enabled", "bool">>,
    <<"https/compressionEnabled", "compression", "bool">>,
    <<"https/default_workarounds_enabled", "workarounds", "bool">>,
    <<"https/single_diffie_hellman_use_enabled", "single_dh", "bool">>,
    <<"keys/passwords", "passwords", "map">>,
    <<"keys/dir", "keys_dir", "directory">>,
    <<"https/key", "private_key", "uri">>,
    <<"https/certificate", "certificate", "uri">>,
    <<"target/base_url", "target_base_url", "string">>,
    <<"target/ca", "target_ca", "string">>,
    <<"target/target_verify_peer", "verify_peer", "bool">>,
    <<"target/target_verify_host", "verify_host", "bool">>,
    <<"http_signature/enabled", "hs_enabled", "bool">>,
    <<"http_signature/version", "hs_version", "string">>,
    <<"http_signature/(version)_params", "hs_params", "map">>,
    <<"mtls/enabled", "mtls_enabled", "bool">>,
    <<"mtls/key_id", "mtls_key_id", "string">>,
    <<"verbs", "verbs", "set">>,
    <<"path_max_depth", "path_max_depth", "uint">> >>

Field == {Reads[i][2] : i \in DOMAIN Reads}

(***************************************************************************)
(* The key the i-th read looks for: the parameters of HTTP signatures are  *)
(* under a key that names the version read just before.                    *)
(***************************************************************************)
VersionKey == "http_signature/version"

Version ==
    IF VersionKey \in FileKey /\ file[VersionKey].type = "string"
    THEN file[VersionKey].text ELSE ""

ParamsKey(version) == "http_signature/" \o version \o "_params"

KeyOf(i) == IF Reads[i][2] = "hs_params" THEN ParamsKey(Version) ELSE Reads[i][1]

Given(i) == KeyOf(i) \in FileKey /\ file[KeyOf(i)] # Nothing

(***************************************************************************)
(* The constructor's values.  m_target_verify_host is not among them: it   *)
(* starts as whatever its memory held.                                     *)
(***************************************************************************)
Unset(f, as) ==
    CASE as = "bool" ->
            Bool(f \in {"https_enabled", "tlsv12_enabled", "compression", "workarounds",
                        "single_dh", "verify_peer"})
      [] as \in {"uint", "uint16", "milliseconds"} ->
            Num(CASE f = "port" -> 80 [] f = "ssl_port" -> 443 [] f = "worker_limit" -> 1
                  [] f = "connection_limit" -> 128 [] f = "path_max_depth" -> 5
                  [] f = "connection_timeout" -> 5000)
      [] as = "string" -> Str(IF f \in {"bind_address", "ssl_bind_address"} THEN "0.0.0.0" ELSE "")
      [] as = "directory" -> Str("./")
      [] OTHER -> Nothing

Constructed ==
    [f \in Field |-> LET i == CHOOSE j \in DOMAIN Reads : Reads[j][2] = f
                     IN  Unset(f, Reads[i][3])]

(***************************************************************************)
(* What a field holds after value v was assigned to it, Nothing when the   *)
(* conversion throws.  A number is cut to the width of its field: 16 bits  *)
(* for a port.  The timeout is read into a uint64_t, for which             *)
(* nlohmann::json takes no boolean, and kept in a signed number as wide.   *)
(* The directory gets a trailing slash after a look at its last character, *)
(* which an empty string does not have: it may become either of empty.     *)
(***************************************************************************)
PortRange == 65536

Sixteen(n) == n % PortRange
Unsigned(n) == n % UintRange
Milliseconds(n) == IF n < LongHalf THEN n ELSE n - 2 * LongHalf

WithSlash(t, empty) ==
    IF t = "" THEN empty ELSE IF t \in SlashEnded THEN t ELSE t \o "/"

Converted(as, v, empty) ==
    CASE as = "bool" /\ v.type = "bool" -> v
      [] as = "uint" /\ v.type \in {"bool", "number"} -> Num(Unsigned(v.number))
      [] as = "uint16" /\ v.type \in {"bool", "number"} -> Num(Sixteen(v.number))
      [] as = "milliseconds" /\ v.type = "number" -> Num(Milliseconds(v.number))
      [] as = "string" /\ v.type = "string" -> v
      [] as = "uri" /\ v.type = "string" /\ v.text \in UriText -> v
      [] as = "directory" /\ v.type = "string" ->
            Str(WithSlash(v.text, empty))
      [] as = "map" /\ v.type = "object" -> v
      [] as = "set" /\ v.type = "array" -> v
      [] OTHER -> Nothing

Result(i, empty) == Converted(Reads[i][3], file[KeyOf(i)], empty)

(* Were each key in a try of its own. *)
KeyIsSkipped(i) == FALSE

Throws(i) == Given(i) /\ Result(i, "") = Nothing

Init ==
    /\ \E keys \in {k \in SUBSET FileKey : Cardinality(k) <= MaxKeys} :
          \E given \in [keys -> Value] :
             file = [k \in FileKey |-> IF k \in keys THEN given[k] ELSE Nothing]
    /\ readable \in BOOLEAN
    /\ \E garbage \in BOOLEAN : cfg = [Constructed EXCEPT !["verify_host"] = Bool(garbage)]
    /\ crypto = "unused" /\ settings = Nothing /\ curlReady = FALSE /\ signers = {} /\ served = {}
    /\ stage = "entered" /\ exitCode = "EXIT_SUCCESS" /\ ended = "no"

-----------------------------------------------------------------------------

(* OPENSSL_init_crypto; the log is set up before it. *)
InitCrypto ==
    /\ stage = "entered"
    /\ stage' = "reading" /\ crypto' = "ready"
    /\ UNCHANGED <<file, readable, cfg, settings, curlReady, signers, served, exitCode, ended>>

(***************************************************************************)
(* The handlers of main: one around everything up to the start, whose      *)
(* exit code then keeps the service from being started, and three around   *)
(* the service, told apart by what they catch.                             *)
(***************************************************************************)
ServiceHandler == {"system_error", "application_error", "exception"}

(* Were the exit code forgotten in one of them. *)
SetExitCodeInMost(by) ==
    exitCode' = IF by = "application_error" THEN exitCode ELSE "EXIT_FAILURE"

SetExitCode(by) == exitCode' = "EXIT_FAILURE"

InitializationFails ==
    /\ SetExitCode("initialization") /\ ended' = "initialization"
    /\ stage' = IF exitCode' = "EXIT_SUCCESS" THEN "starting" ELSE "leaving"

(***************************************************************************)
(* read_config: no file, or no JSON in it.                                 *)
(***************************************************************************)
(* Were it tried again and again. *)
ReadFailsAndRetries ==
    /\ stage = "reading" /\ ~ readable
    /\ UNCHANGED vars

ReadFails ==
    /\ stage = "reading" /\ ~ readable
    /\ InitializationFails
    /\ UNCHANGED <<file, readable, cfg, settings, crypto, curlReady, signers, served>>

(***************************************************************************)
(* set_config.  The reads before the first that throws take effect.        *)
(***************************************************************************)
Effective == {i \in DOMAIN Reads : Given(i) /\ \A j \in 1..i : ~ Throws(j)}

Assign(f, empty) ==
    IF \E i \in Effective : Reads[i][2] = f
    THEN Result(CHOOSE i \in Effective : Reads[i][2] = f, empty)
    ELSE cfg[f]

SetConfig ==
    /\ stage = "reading" /\ readable
    /\ \E empty \in {"", "/"} : cfg' = [f \in Field |-> Assign(f, empty)]
    /\ IF \E i \in DOMAIN Reads : Throws(i) THEN InitializationFails
       ELSE stage' = "libraries" /\ UNCHANGED <<exitCode, ended>>
    /\ UNCHANGED <<file, readable, settings, crypto, curlReady, signers, served>>

(* curl_global_init; its result is not looked at. *)
InitLibraries ==
    /\ stage = "libraries"
    /\ stage' = "settings" /\ curlReady' = TRUE
    /\ UNCHANGED <<file, readable, cfg, settings, crypto, signers, served, exitCode, ended>>

(***************************************************************************)
(* get_restbed_settings and get_restbed_ssl_settings.  Of the fields read  *)
(* only these reach restbed.                                               *)
(***************************************************************************)
Plain == {"bind_address", "port", "worker_limit"}
Secure == {"private_key", "certificate", "ssl_bind_address", "ssl_port", "sslv2_enabled",
           "sslv3_enabled", "tlsv1_enabled", "tlsv11_enabled", "tlsv12_enabled"}

(* Without the negation. *)
DisabledAsEnabled == cfg["http_enabled"]

HttpDisabled == Bool(cfg["http_enabled"] = Bool(FALSE))

GetSettings ==
    /\ stage = "settings"
    /\ settings' = [plain |-> [f \in Plain |-> cfg[f]],
                    secure |-> IF cfg["https_enabled"] = Bool(TRUE)
                               THEN {[f \in Secure |-> cfg[f]]} ELSE {},
                    http_disabled |-> HttpDisabled]
    /\ stage' = "factories"
    /\ UNCHANGED <<file, readable, cfg, crypto, curlReady, signers, served, exitCode, ended>>

RegisterSigner ==
    /\ stage = "factories"
    /\ signers' = signers \cup {"cavage12"}
    /\ stage' = "starting"
    /\ UNCHANGED <<file, readable, cfg, settings, crypto, curlReady, served, exitCode, ended>>

(***************************************************************************)
(* service.start, external: it listens and calls the ready handler, or     *)
(* throws (a port in use, a key it cannot read).  It listens for plain     *)
(* HTTP unless TLS settings tell it not to.                                *)
(***************************************************************************)
ServiceStarts ==
    /\ stage = "starting"
    /\ served' = {p \in {"http", "https"} :
                    IF p = "https" THEN settings.secure # {}
                    ELSE settings.secure = {} \/ settings.http_disabled = Bool(FALSE)}
    /\ stage' = "serving"
    /\ UNCHANGED <<file, readable, cfg, settings, crypto, curlReady, signers, exitCode, ended>>

ServiceFails ==
    /\ stage \in {"starting", "serving"}
    /\ served' = {} /\ stage' = "leaving"
    /\ \E by \in ServiceHandler : SetExitCode(by) /\ ended' = by
    /\ UNCHANGED <<file, readable, cfg, settings, crypto, curlReady, signers>>

(* start returned: the service was stopped. *)
ServiceStops ==
    /\ stage = "serving"
    /\ served' = {} /\ stage' = "leaving" /\ ended' = "stopped"
    /\ UNCHANGED <<file, readable, cfg, settings, crypto, curlReady, signers, exitCode>>

(* OPENSSL_cleanup and return. *)
Leave ==
    /\ stage = "leaving"
    /\ stage' = "left" /\ crypto' = "cleaned"
    /\ UNCHANGED <<file, readable, cfg, settings, curlReady, signers, served, exitCode, ended>>

(* main's own steps; when a service that is up stops or fails, nobody knows. *)
Main ==
    \/ InitCrypto \/ ReadFails \/ SetConfig \/ InitLibraries \/ GetSettings
    \/ RegisterSigner \/ ServiceStarts \/ Leave

Next == Main \/ ServiceFails \/ ServiceStops

Spec == Init /\ [][Next]_vars /\ WF_vars(Main)

-----------------------------------------------------------------------------
(***************************************************************************)
(* A service that is up works from all of its file: each key set_config    *)
(* looks for and finds has a value its field can be made of, and the       *)
(* field, as well as what restbed was given of it, follows that value.     *)
(* Half of a file is applied when a later key throws, and App_config is    *)
(* shared by all.  To follow a value is to be that value; but a directory  *)
(* gets a slash, and a number that the field's type cannot hold is not     *)
(* refused: the field then holds some other number.                        *)
(***************************************************************************)
Held(as) ==
    CASE as = "uint16" -> 0 .. (PortRange - 1)
      [] as = "uint" -> 0 .. (UintRange - 1)
      [] as = "milliseconds" -> {n \in Int : 0 - LongHalf <= n /\ n < LongHalf}

FollowsNumber(as, v, w) ==
    /\ v.type = "number" \/ (v.type = "bool" /\ as # "milliseconds")
    /\ w.type = "number" /\ w.number \in Held(as)
    /\ v.number \in Held(as) => w.number = v.number

FollowsDirectory(v, w) ==
    /\ v.type = "string"
    /\ IF v.text = "" THEN w \in {Str(""), Str("/")}
       ELSE w = IF v.text \in SlashEnded THEN v ELSE Str(v.text \o "/")

Follows(as, v, w) ==
    CASE as \in {"uint", "uint16", "milliseconds"} -> FollowsNumber(as, v, w)
      [] as = "directory" -> FollowsDirectory(v, w)
      [] as = "bool" -> w = v /\ v.type = "bool"
      [] as = "string" -> w = v /\ v.type = "string"
      [] as = "uri" -> w = v /\ v.type = "string" /\ v.text \in UriText
      [] as = "map" -> w = v /\ v.type = "object"
      [] as = "set" -> w = v /\ v.type = "array"

RunsOnTheWholeFile ==
    stage = "serving" =>
        \A i \in DOMAIN Reads : Given(i) =>
            LET f == Reads[i][2]
            IN  /\ Follows(Reads[i][3], file[KeyOf(i)], cfg[f])
                /\ f \in Plain => settings.plain[f] = cfg[f]
                /\ f \in Secure => \A s \in settings.secure : s[f] = cfg[f]

(***************************************************************************)
(* With https on, plain http is served exactly if the file (or the         *)
(* default, off) says so, through a flag that is negated on its way.       *)
(***************************************************************************)
PlainHttpAsConfigured ==
    (stage = "serving" /\ "https" \in served) =>
        ("http" \in served <=> /\ "http/enabled" \in FileKey
                               /\ file["http/enabled"] = Bool(TRUE))

(***************************************************************************)
(* When main has returned, nothing is served and libcrypto is cleaned up;  *)
(* the exit code is EXIT_SUCCESS exactly if the service was stopped, and   *)
(* not torn out, nor kept from starting, by an exception one of the four   *)
(* handlers caught; it was started on a file free of errors then, after    *)
(* every step before that.                                                 *)
(***************************************************************************)
ExitCodeTells ==
    stage = "left" =>
        /\ served = {} /\ crypto = "cleaned"
        /\ (exitCode = "EXIT_SUCCESS") <=> (ended = "stopped")
        /\ ended = "stopped" =>
              /\ readable /\ \A i \in DOMAIN Reads : ~ Throws(i)
              /\ curlReady /\ settings # Nothing /\ signers # {}

(***************************************************************************)
(* main never hangs on its way: with any file, or none, it comes to serve  *)
(* or to its return, and from a service that has ended to its return.      *)
(***************************************************************************)
MainGoesOn == (stage # "serving") ~> (stage \in {"serving", "left"})

(***************************************************************************)
(* README.md, "Configuration", lists "tlsv12_enabled" among the keys of    *)
(* https: a service that serves https follows it.                          *)
(***************************************************************************)
DocumentedTlsKey == "https/tlsv12_enabled"

TlsAsDocumented ==
    (stage = "serving" /\ "https" \in served /\ DocumentedTlsKey \in FileKey) =>
        \A s \in settings.secure :
            file[DocumentedTlsKey].type = "bool" => s["tlsv12_enabled"] = file[DocumentedTlsKey]
=============================================================================
